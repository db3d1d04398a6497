----------------------------- MODULE ClientPool -----------------------------
(* One measured window of the query clients: ClientPool.start and .stop       *)
(* (harness/workloads/clients.py), the clients they fork and the attendants   *)
(* that stand in for them at the barrier (client_process.py), and the         *)
(* watchdog that bounds a span transfer (transfer_deadline.py).               *)
(*                                                                            *)
(* Four kinds of process interleave: the harness thread that calls start and  *)
(* stop, one attendant thread per client, the watchdog thread, and the client *)
(* processes, which may fail, hang or be killed at any step. What crosses the *)
(* fork is two flags (_go, _halt) and one pipe per client. Spans are not      *)
(* modelled one by one: a payload is whole when its client ran its loop to    *)
(* the stop flag and sent everything it recorded.                             *)
EXTENDS Integers

CONSTANTS
    N,         \* how many clients the pool has
    Big        \* clients whose payload is larger than the pipe's buffer

ASSUME PoolAssumption == /\ N \in Nat \ {0}
                         /\ Big \subseteq 1 .. N

Clients == 1 .. N

VARIABLES
    pool,        \* the statement the harness thread is at
    who,         \* the client its loop is at
    verdict,     \* what it is about to conclude while it reaps and joins
    barrier,     \* _ready; "tripped" also says that _opened has its instant
    go, halt,    \* the two flags the clients watch
    att,         \* the attendant threads
    error,       \* Client.error
    got,         \* history: absorb has taken this client's spans
    watchdog,    \* the transfer timer of the client being absorbed
    killedHere,  \* Client._killed_here
    child,       \* the client processes
    exit,        \* their exit status
    pipe,        \* what a client has written and nobody has read
    bad,         \* the text of the message in the pipe is an error
    whole,       \* history: the client's loop and its report are complete
    faults       \* whether clients may fail, hang and die, and timeouts expire

parentVars == <<pool, who, verdict, go, halt, got, faults>>
childVars == <<child, exit, pipe, bad, whole>>
vars == <<pool, who, verdict, barrier, go, halt, att, error, got, watchdog,
          killedHere, child, exit, pipe, bad, whole, faults>>

(* Where the harness thread can be once the barrier has let it through.       *)
Opened == {"go", "open", "closed", "absorb", "receive", "cancel", "join",
           "judge"}

TypeOK ==
    /\ pool \in Opened \cup {"launch", "attend", "arrive", "barrier", "break",
                             "reap", "attendants", "published", "raised",
                             "crashed"}
    /\ who \in Clients
    /\ verdict \in {"none", "warmup", "refused", "window"}
    /\ barrier \in {"filling", "tripped", "broken"}
    /\ go \in BOOLEAN /\ halt \in BOOLEAN
    /\ att \in [Clients -> {"none", "polling", "aborting", "arriving",
                            "waiting", "done"}]
    /\ error \in [Clients -> {"none", "ClientDied", "ClientFailed"}]
    /\ got \in [Clients -> BOOLEAN]
    /\ watchdog \in {"off", "armed", "firing", "spent"}
    /\ killedHere \in [Clients -> BOOLEAN]
    /\ child \in [Clients -> {"unborn", "warming", "ready", "measuring",
                              "sending", "leaving", "dead"}]
    /\ exit \in [Clients -> {"none", "zero", "nonzero"}]
    /\ pipe \in [Clients -> {"empty", "warmup", "partial", "full", "closed"}]
    /\ bad \in [Clients -> BOOLEAN]
    /\ whole \in [Clients -> BOOLEAN]
    /\ faults \in BOOLEAN

Init ==
    /\ pool = "launch" /\ who = 1 /\ verdict = "none"
    /\ barrier = "filling" /\ go = FALSE /\ halt = FALSE
    /\ att = [c \in Clients |-> "none"]
    /\ error = [c \in Clients |-> "none"]
    /\ got = [c \in Clients |-> FALSE]
    /\ watchdog = "off"
    /\ killedHere = [c \in Clients |-> FALSE]
    /\ child = [c \in Clients |-> "unborn"]
    /\ exit = [c \in Clients |-> "none"]
    /\ pipe = [c \in Clients |-> "empty"]
    /\ bad = [c \in Clients |-> FALSE]
    /\ whole = [c \in Clients |-> FALSE]
    /\ faults \in BOOLEAN

Alive(c) == child[c] \notin {"unborn", "dead"}

(* A plausible bug: a client that ignores SIGTERM.                            *)
Kill_Ignored(c) == UNCHANGED <<child, exit>>

(* The loops over the workers: on to the next client, or to what follows.     *)
Advance(loop, after) ==
    IF who < N THEN pool' = loop /\ who' = who + 1
               ELSE pool' = after /\ who' = 1

Kill(c) ==
    IF Alive(c) THEN /\ child' = [child EXCEPT ![c] = "dead"]
                     /\ exit' = [exit EXCEPT ![c] = "nonzero"]
                ELSE UNCHANGED <<child, exit>>

-----------------------------------------------------------------------------
(* start: every client is forked before any attendant thread exists.          *)
Launch ==
    /\ pool = "launch"
    /\ \/ /\ child' = [child EXCEPT ![who] = "warming"]
          /\ Advance("launch", "attend")
       \/ /\ faults                       \* fork fails: OSError leaves start
          /\ pool' = "crashed"
          /\ UNCHANGED <<who, child>>
    /\ UNCHANGED <<verdict, barrier, go, halt, att, error, got, watchdog,
                   killedHere, exit, pipe, bad, whole, faults>>

(* One attendant per client; nothing can be told of the moment between two    *)
(* thread starts, so they are one step.                                       *)
StartAttendants ==
    /\ pool = "attend"
    /\ pool' = "arrive"
    /\ att' = [c \in Clients |-> "polling"]
    /\ UNCHANGED <<who, verdict, barrier, go, halt, error, got, watchdog,
                   killedHere, childVars, faults>>

(* The harness thread takes the last place at the barrier, or waits there.    *)
ParentArrive ==
    /\ pool = "arrive"
    /\ \/ /\ barrier = "broken"
          /\ pool' = "break" /\ UNCHANGED barrier
       \/ /\ barrier = "filling" /\ \A c \in Clients : att[c] = "waiting"
          /\ pool' = "go" /\ barrier' = "tripped"
       \/ /\ barrier = "filling" /\ \E c \in Clients : att[c] # "waiting"
          /\ pool' = "barrier" /\ UNCHANGED barrier
    /\ UNCHANGED <<who, verdict, go, halt, att, error, got, watchdog,
                   killedHere, childVars, faults>>

ParentReleased ==
    /\ pool = "barrier"
    /\ \/ barrier = "tripped" /\ pool' = "go"
       \/ barrier = "broken" /\ pool' = "break"
    /\ UNCHANGED <<who, verdict, barrier, go, halt, att, error, got, watchdog,
                   killedHere, childVars, faults>>

ParentBarrierTimeout ==
    /\ faults
    /\ pool = "barrier" /\ barrier = "filling"
    /\ barrier' = "broken" /\ pool' = "break"
    /\ UNCHANGED <<who, verdict, go, halt, att, error, got, watchdog,
                   killedHere, childVars, faults>>

(* except BrokenBarrierError: abort, raise both flags, end the clients.       *)
BreakUp ==
    /\ pool = "break"
    /\ barrier' = "broken" /\ halt' = TRUE
    /\ pool' = "reap" /\ who' = 1 /\ verdict' = "warmup"
    /\ UNCHANGED <<go, att, error, got, watchdog, killedHere, childVars,
                   faults>>

SetGo ==
    /\ pool = "go"
    /\ go' = TRUE /\ pool' = "open"
    /\ UNCHANGED <<who, verdict, barrier, halt, att, error, got, watchdog,
                   killedHere, childVars, faults>>

-----------------------------------------------------------------------------
(* stop: the instant and the counters are read, and only then the flags rise. *)
StopRead ==
    /\ pool = "open"
    /\ pool' = "closed"
    /\ UNCHANGED <<who, verdict, barrier, go, halt, att, error, got, watchdog,
                   killedHere, childVars, faults>>

(* A plausible bug: joins the clients before it has taken their payloads.     *)
SetHalt_JoinFirst ==
    /\ pool = "closed"
    /\ halt' = TRUE
    /\ pool' = "join" /\ who' = 1
    /\ UNCHANGED <<verdict, barrier, go, att, error, got, watchdog, killedHere,
                   childVars, faults>>

SetHalt ==
    /\ pool = "closed"
    /\ halt' = TRUE
    /\ pool' = "absorb" /\ who' = 1
    /\ UNCHANGED <<verdict, barrier, go, att, error, got, watchdog, killedHere,
                   childVars, faults>>

(* absorb leaves a client that already has an error alone: its pipe may hold  *)
(* nothing but the end of it.                                                 *)
AbsorbSkip ==
    /\ pool = "absorb" /\ error[who] # "none"
    /\ Advance("absorb", "join")
    /\ UNCHANGED <<verdict, barrier, go, halt, att, error, got, watchdog,
                   killedHere, childVars, faults>>

AbsorbPoll ==
    /\ pool = "absorb" /\ error[who] = "none"
    /\ pipe[who] \in {"partial", "full"} \/ child[who] = "dead"
    /\ pool' = "receive" /\ watchdog' = "armed"
    /\ UNCHANGED <<who, verdict, barrier, go, halt, att, error, got,
                   killedHere, childVars, faults>>

AbsorbTimeout ==
    /\ faults
    /\ pool = "absorb" /\ error[who] = "none"
    /\ pipe[who] = "empty" /\ child[who] # "dead"
    /\ error' = [error EXCEPT ![who] = "ClientDied"]
    /\ Advance("absorb", "join")
    /\ UNCHANGED <<verdict, barrier, go, halt, att, got, watchdog, killedHere,
                   childVars, faults>>

(* recv returns a complete message or, at the end of the pipe, raises.        *)
Receive ==
    /\ pool = "receive"
    /\ \/ /\ pipe[who] = "full"
          /\ pipe' = [pipe EXCEPT ![who] = "empty"]
          /\ IF bad[who]
               THEN /\ error' = [error EXCEPT ![who] = "ClientFailed"]
                    /\ UNCHANGED got
               ELSE /\ got' = [got EXCEPT ![who] = TRUE]
                    /\ UNCHANGED error
       \/ /\ pipe[who] # "full" /\ child[who] = "dead"
          /\ error' = [error EXCEPT ![who] = "ClientDied"]
          /\ UNCHANGED <<pipe, got>>
    /\ pool' = "cancel"
    /\ UNCHANGED <<who, verdict, barrier, go, halt, att, watchdog, killedHere,
                   child, exit, bad, whole, faults>>

(* The finally of _recv_by: a watchdog that is already firing is waited for.  *)
CancelWatchdog ==
    /\ pool = "cancel" /\ watchdog # "firing"
    /\ watchdog' = "off"
    /\ Advance("absorb", "join")
    /\ UNCHANGED <<verdict, barrier, go, halt, att, error, got, killedHere,
                   childVars, faults>>

(* _cut_off_transfer asks whether the client lives, then kills it and notes   *)
(* that it did; the client may end by itself in between.                      *)
(* A plausible bug: a transfer without a deadline.                            *)
WatchdogFires_Never == FALSE /\ UNCHANGED vars

WatchdogFires ==
    /\ faults
    /\ watchdog = "armed"
    /\ watchdog' = IF Alive(who) THEN "firing" ELSE "spent"
    /\ UNCHANGED <<parentVars, barrier, att, error, killedHere, childVars>>

WatchdogKills ==
    /\ watchdog = "firing"
    /\ watchdog' = "spent"
    /\ Kill(who)
    /\ killedHere' = [killedHere EXCEPT ![who] = TRUE]
    /\ UNCHANGED <<parentVars, barrier, att, error, pipe, bad, whole>>

JoinClients ==
    /\ pool = "join"
    /\ faults \/ \A c \in Clients : child[c] = "dead"
    /\ pool' = "judge"
    /\ UNCHANGED <<who, verdict, barrier, go, halt, att, error, got, watchdog,
                   killedHere, childVars, faults>>

(* A plausible bug: only the clients that died count, not those that raised.  *)
Sound_Reported(c) == /\ error[c] # "ClientDied"
                     /\ ~Alive(c)
                     /\ exit[c] = "zero" \/ killedHere[c]

(* The three checks of stop. An exit status is held against a client unless   *)
(* this pool's own watchdog is what ended it.                                 *)
Sound(c) == /\ error[c] = "none"
            /\ ~Alive(c)
            /\ exit[c] = "zero" \/ killedHere[c]

Judge ==
    /\ pool = "judge"
    /\ verdict' = IF \A c \in Clients : Sound(c) THEN "window" ELSE "refused"
    /\ pool' = "reap" /\ who' = 1
    /\ UNCHANGED <<barrier, go, halt, att, error, got, watchdog, killedHere,
                   childVars, faults>>

(* reap: terminate, kill if that was not enough, close the pipe. The refusals *)
(* of stop raise at once; the other two outcomes join the attendants first.   *)
Reap ==
    /\ pool = "reap"
    /\ Kill(who)
    /\ pipe' = [pipe EXCEPT ![who] = "closed"]
    /\ Advance("reap", IF verdict = "refused" THEN "raised" ELSE "attendants")
    /\ UNCHANGED <<verdict, barrier, go, halt, att, error, got, watchdog,
                   killedHere, bad, whole, faults>>

JoinAttendants ==
    /\ pool = "attendants"
    /\ \A c \in Clients : att[c] = "done"
    /\ pool' = IF verdict = "window" THEN "published" ELSE "raised"
    /\ UNCHANGED <<who, verdict, barrier, go, halt, att, error, got, watchdog,
                   killedHere, childVars, faults>>

-----------------------------------------------------------------------------
(* attend: wait for the client's report, name the error, then either break    *)
(* the barrier or take the client's place at it. A client whose warm-up       *)
(* failed in its driver has reported: it is stood in for like a warm one.     *)
AttendReport(c) ==
    /\ att[c] = "polling" /\ pipe[c] = "warmup"
    /\ pipe' = [pipe EXCEPT ![c] = "empty"]
    /\ error' = [error EXCEPT ![c] = IF bad[c] THEN "ClientFailed" ELSE "none"]
    /\ att' = [att EXCEPT ![c] = "arriving"]
    /\ UNCHANGED <<parentVars, barrier, watchdog, killedHere, child, exit, bad,
                   whole>>

AttendDied(c) ==
    /\ att[c] = "polling"
    /\ \/ pipe[c] = "closed"
       \/ pipe[c] = "empty" /\ (child[c] = "dead" \/ faults)   \* or times out
    /\ error' = [error EXCEPT ![c] = "ClientDied"]
    /\ att' = [att EXCEPT ![c] = "aborting"]
    /\ UNCHANGED <<parentVars, barrier, watchdog, killedHere, childVars>>

AttendAbort(c) ==
    /\ att[c] = "aborting"
    /\ barrier' = "broken"
    /\ att' = [att EXCEPT ![c] = "done"]
    /\ UNCHANGED <<parentVars, error, watchdog, killedHere, childVars>>

LastToArrive(c) == /\ pool = "barrier"
                   /\ \A d \in Clients \ {c} : att[d] = "waiting"

AttendArrive(c) ==
    /\ att[c] = "arriving"
    /\ att' = [att EXCEPT ![c] = IF barrier = "broken" THEN "done"
                                                       ELSE "waiting"]
    /\ barrier' = IF barrier = "filling" /\ LastToArrive(c)
                  THEN "tripped" ELSE barrier
    /\ UNCHANGED <<parentVars, error, watchdog, killedHere, childVars>>

AttendLeave(c) ==
    /\ att[c] = "waiting"
    /\ barrier # "filling" \/ faults          \* its own wait may time out
    /\ att' = [att EXCEPT ![c] = "done"]
    /\ barrier' = IF barrier = "filling" THEN "broken" ELSE barrier
    /\ UNCHANGED <<parentVars, error, watchdog, killedHere, childVars>>

Attendant(c) == \/ AttendReport(c) \/ AttendDied(c) \/ AttendAbort(c)
                \/ AttendArrive(c) \/ AttendLeave(c)

-----------------------------------------------------------------------------
(* run, in the child: connect and warm up, report, wait for _go, measure      *)
(* until _halt, report the spans, leave.                                      *)
WarmUp(c) ==
    /\ child[c] = "warming"
    /\ \E failed \in IF faults THEN BOOLEAN ELSE {FALSE} :
         /\ child' = [child EXCEPT ![c] = IF failed THEN "leaving" ELSE "ready"]
         /\ bad' = [bad EXCEPT ![c] = failed]
    /\ pipe' = [pipe EXCEPT ![c] = "warmup"]
    /\ UNCHANGED <<parentVars, barrier, att, error, watchdog, killedHere, exit,
                   whole>>

(* A plausible bug: ignores what its wait for _go returned.                   *)
GoTimeout_Ignored(c) ==
    /\ faults
    /\ child[c] = "ready" /\ ~go /\ pipe[c] = "empty"
    /\ child' = [child EXCEPT ![c] = "measuring"]
    /\ UNCHANGED <<parentVars, barrier, att, error, watchdog, killedHere, exit,
                   pipe, bad, whole>>

SeeGo(c) ==
    /\ child[c] = "ready" /\ go
    /\ child' = [child EXCEPT ![c] = "measuring"]
    /\ UNCHANGED <<parentVars, barrier, att, error, watchdog, killedHere, exit,
                   pipe, bad, whole>>

(* Five minutes without _go. The attendant, which waits two for the report,   *)
(* has emptied the pipe by then or the pool is breaking up.                   *)
GoTimeout(c) ==
    /\ faults
    /\ child[c] = "ready" /\ ~go /\ pipe[c] = "empty"
    /\ child' = [child EXCEPT ![c] = "leaving"]
    /\ pipe' = [pipe EXCEPT ![c] = "full"]
    /\ bad' = [bad EXCEPT ![c] = TRUE]
    /\ UNCHANGED <<parentVars, barrier, att, error, watchdog, killedHere, exit,
                   whole>>

(* The measuring loop ends at the stop flag, or at an exception in the driver.*)
EndLoop(c) ==
    /\ child[c] = "measuring"
    /\ \/ halt /\ bad' = [bad EXCEPT ![c] = FALSE]
       \/ faults /\ bad' = [bad EXCEPT ![c] = TRUE]
    /\ child' = [child EXCEPT ![c] = "sending"]
    /\ pipe' = [pipe EXCEPT ![c] = "partial"]
    /\ UNCHANGED <<parentVars, barrier, att, error, watchdog, killedHere, exit,
                   whole>>

(* send returns once the pipe has taken the payload: a big one needs a reader.*)
FinishSend(c) ==
    /\ child[c] = "sending"
    /\ c \in Big => pool = "receive" /\ who = c
    /\ child' = [child EXCEPT ![c] = "leaving"]
    /\ pipe' = [pipe EXCEPT ![c] = "full"]
    /\ whole' = [whole EXCEPT ![c] = ~bad[c]]
    /\ UNCHANGED <<parentVars, barrier, att, error, watchdog, killedHere, exit,
                   bad>>

Leave(c) ==
    /\ child[c] = "leaving"
    /\ child' = [child EXCEPT ![c] = "dead"]
    /\ exit' = [exit EXCEPT ![c] = "zero"]
    /\ UNCHANGED <<parentVars, barrier, att, error, watchdog, killedHere, pipe,
                   bad, whole>>

(* Killed from outside (a container's memory limit), or crashed.              *)
Die(c) ==
    /\ faults
    /\ Alive(c)
    /\ Kill(c)
    /\ UNCHANGED <<parentVars, barrier, att, error, watchdog, killedHere, pipe,
                   bad, whole>>

ChildRun(c) == \/ WarmUp(c) \/ SeeGo(c) \/ GoTimeout(c) \/ EndLoop(c)
               \/ FinishSend(c) \/ Leave(c)

-----------------------------------------------------------------------------
Start == \/ Launch \/ StartAttendants \/ ParentArrive \/ ParentReleased
         \/ ParentBarrierTimeout \/ BreakUp \/ SetGo
Stop == \/ StopRead \/ SetHalt \/ AbsorbSkip \/ AbsorbPoll \/ AbsorbTimeout
        \/ Receive \/ CancelWatchdog \/ JoinClients \/ Judge
Parent == Start \/ Stop \/ Reap \/ JoinAttendants
Watchdog == WatchdogFires \/ WatchdogKills

Next == \/ Parent
        \/ Watchdog
        \/ \E c \in Clients : Attendant(c) \/ ChildRun(c) \/ Die(c)

Spec == Init /\ [][Next]_vars

(* The harness's own threads run and its timeouts expire. Nothing is assumed  *)
(* of a client in trouble, which may hang in a driver for ever; one without   *)
(* trouble does its work.                                                     *)
Fairness == /\ WF_vars(Parent)
            /\ WF_vars(Watchdog)
            /\ \A c \in Clients : /\ WF_vars(Attendant(c))
                                  /\ WF_vars(~faults /\ ChildRun(c))
FairSpec == Spec /\ Fairness

-----------------------------------------------------------------------------
(* What a pool of query clients owes to the workloads that read its window.   *)

(* The pool as its callers see it (MeasuredWindow): warming until the barrier *)
(* trips, open until start or stop is over; clients that live may be sending  *)
(* queries to the engine; what absorb has taken has been delivered.           *)
PhaseOfPool ==
    IF pool \in {"published", "raised", "crashed"} THEN pool
    ELSE IF barrier = "tripped" THEN "open" ELSE "warming"

Window == INSTANCE MeasuredWindow WITH
              phase <- PhaseOfPool,
              querying <- {c \in Clients : Alive(c)},
              delivered <- {c \in Clients : got[c]}

(* Every behaviour of start and stop, of the attendants, the watchdog and the *)
(* clients is one that the callers' view of a pool allows.                    *)
IsMeasuredWindow == Window!Spec

Over == {"published", "raised"}

(* A published window rests on every client: each ran its loop to the stop    *)
(* flag, sent all it recorded, had its payload taken off the pipe and has no  *)
(* error on its name, whatever was killed and whichever timer fired meanwhile *)
(* (ClientPool.stop: "not a measurement" otherwise).                          *)
PublishedIsWhole ==
    pool = "published" =>
        \A c \in Clients : whole[c] /\ got[c] /\ error[c] = "none"

(* When start or stop has returned or raised PoolError for good, no client is *)
(* left to go on querying the server the next configuration measures.         *)
NoClientOutlivesPool == pool \in Over => \A c \in Clients : ~Alive(c)

(* No query is measured before the window has its opening instant, nor by a   *)
(* pool whose warm-up broke up: _go is only ever raised past the barrier.     *)
MeasuredInsideWindow ==
    \A c \in Clients : child[c] \in {"measuring", "sending"}
                       => barrier = "tripped" /\ verdict # "warmup"

(* start and stop always come to an end, even if every client hangs: every    *)
(* wait of the pool has a bound, and the join of the attendants, modelled     *)
(* without one, needs none because the clients are reaped first.              *)
PoolEnds == <>(pool \in Over \cup {"crashed"})

(* Clients that do their work in time are never refused: the window is        *)
(* published even when a payload is larger than the pipe it goes through.     *)
HealthyPublishes == ~faults => <>(pool = "published")

-----------------------------------------------------------------------------
(* The inductive invariant behind the safety properties: where the barrier    *)
(* and the flags stand for each place of the harness thread ...               *)
BarrierInv ==
    /\ barrier = "tripped" => \A c \in Clients : att[c] \in {"waiting", "done"}
    /\ pool \in Opened => barrier = "tripped"
    /\ pool \in {"launch", "attend"} =>
           barrier = "filling" /\ \A c \in Clients : att[c] = "none"
    /\ pool = "break" => barrier = "broken"
    /\ pool \notin {"reap", "attendants"} \cup Over => verdict = "none"
    /\ verdict \in {"refused", "window"} => barrier = "tripped"
    /\ verdict = "warmup" => barrier = "broken"
    /\ go => barrier = "tripped"
    /\ \A c \in Clients : child[c] \in {"measuring", "sending"} => go

(* ... what is known of a client's report ...                                 *)
ReportInv ==
    \A c \in Clients :
        /\ pool = "launch" /\ c >= who => child[c] = "unborn"
        /\ whole[c] => child[c] \in {"leaving", "dead"}
        /\ pipe[c] = "full" /\ ~bad[c] => whole[c]
        /\ got[c] => whole[c]

(* ... what the loops of stop have established for the clients behind them    *)
Settled(c) == got[c] \/ error[c] # "none"
LoopInv ==
    /\ pool \in {"absorb", "receive", "cancel"} =>
           \A c \in Clients : c < who => Settled(c)
    /\ pool = "cancel" => Settled(who)
    /\ pool \in {"join", "judge"} => \A c \in Clients : Settled(c)
    /\ verdict = "window" => \A c \in Clients : got[c] /\ error[c] = "none"
    /\ pool = "published" => verdict = "window"

(* ... and which clients have been reaped.                                    *)
ReapInv ==
    /\ pool = "reap" => \A c \in Clients : c < who => ~Alive(c)
    /\ pool \in Over \cup {"attendants"} => \A c \in Clients : ~Alive(c)

PoolInv == BarrierInv /\ ReportInv /\ LoopInv /\ ReapInv
=============================================================================
