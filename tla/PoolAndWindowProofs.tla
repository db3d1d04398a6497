------------------------ MODULE PoolAndWindowProofs -------------------------
(* The safety properties of the two windows of a concurrent load: the pool of *)
(* clients that measures one, for every number of clients and every size of   *)
(* payload, with and without faults; and the handshake about the one that is  *)
(* profiled, for any list of windows and any number of units, whatever is     *)
(* late, killed or fails.                                                     *)
EXTENDS ClientPool, ProfileWindow, TLAPS

-----------------------------------------------------------------------------
(* The client pool.                                                           *)

(* The loops over the clients: when one goes on, it has passed one client      *)
(* more, and when it ends it has passed them all.                              *)
LEMMA AdvanceLoop ==
    ASSUME TypeOK, NEW loop, NEW after, Advance(loop, after)
    PROVE  /\ who' \in Clients
           /\ \/ pool' = loop /\ \A c \in Clients : c < who' => c < who \/ c = who
              \/ pool' = after /\ \A c \in Clients : c < who \/ c = who
PROOF
<1> USE PoolAssumption DEF TypeOK, Clients
<1>1. CASE who < N
  BY <1>1 DEF Advance
<1>2. CASE ~(who < N)
  BY <1>2 DEF Advance
<1>3. QED
  BY <1>1, <1>2

(* Every step keeps every variable in its type.                                *)
LEMMA TypeStep ==
    TypeOK /\ [Next]_vars => TypeOK'
PROOF
<1> SUFFICES ASSUME TypeOK, [Next]_vars PROVE TypeOK'
  OBVIOUS
<1> USE PoolAssumption DEF TypeOK, Opened, Clients, parentVars, childVars
<1>1. CASE Launch
  <2>1. who' \in Clients /\ pool' \in {"launch", "attend", "crashed"}
    BY <1>1, AdvanceLoop DEF Launch
  <2>2. child' \in [Clients -> {"unborn", "warming", "ready", "measuring",
                               "sending", "leaving", "dead"}]
    BY <1>1 DEF Launch
  <2>3. QED
    BY <1>1, <2>1, <2>2 DEF Launch
<1>2. CASE StartAttendants
  BY <1>2 DEF StartAttendants
<1>3. CASE ParentArrive
  BY <1>3 DEF ParentArrive
<1>4. CASE ParentReleased
  BY <1>4 DEF ParentReleased
<1>5. CASE ParentBarrierTimeout
  BY <1>5 DEF ParentBarrierTimeout
<1>6. CASE BreakUp
  BY <1>6 DEF BreakUp
<1>7. CASE SetGo
  BY <1>7 DEF SetGo
<1>8. CASE StopRead
  BY <1>8 DEF StopRead
<1>9. CASE SetHalt
  BY <1>9 DEF SetHalt
<1>10. CASE AbsorbSkip
  BY <1>10 DEF AbsorbSkip, Advance
<1>11. CASE AbsorbPoll
  BY <1>11 DEF AbsorbPoll
<1>12. CASE AbsorbTimeout
  BY <1>12 DEF AbsorbTimeout, Advance
<1>13. CASE Receive
  <2>1. got' \in [Clients -> BOOLEAN]
    BY <1>13 DEF Receive
  <2>2. error' \in [Clients -> {"none", "ClientDied", "ClientFailed"}]
    BY <1>13 DEF Receive
  <2>3. pipe' \in [Clients -> {"empty", "warmup", "partial", "full", "closed"}]
    BY <1>13 DEF Receive
  <2>4. QED
    BY <1>13, <2>1, <2>2, <2>3 DEF Receive
<1>14. CASE CancelWatchdog
  BY <1>14 DEF CancelWatchdog, Advance
<1>15. CASE JoinClients
  BY <1>15 DEF JoinClients
<1>16. CASE Judge
  BY <1>16 DEF Judge, Sound, Alive
<1>17. CASE Reap
  <2>1. /\ child' \in [Clients -> {"unborn", "warming", "ready", "measuring",
                                  "sending", "leaving", "dead"}]
        /\ exit' \in [Clients -> {"none", "zero", "nonzero"}]
    BY <1>17 DEF Reap, Kill, Alive
  <2>2. /\ who' \in Clients
        /\ pool' \in {"reap", "raised", "attendants"}
    BY <1>17 DEF Reap, Advance
  <2>3. QED
    BY <1>17, <2>1, <2>2 DEF Reap
<1>18. CASE JoinAttendants
  BY <1>18 DEF JoinAttendants
<1>19. CASE WatchdogFires
  BY <1>19 DEF WatchdogFires, Alive
<1>20. CASE WatchdogKills
  <2>1. /\ child' \in [Clients -> {"unborn", "warming", "ready", "measuring",
                                  "sending", "leaving", "dead"}]
        /\ exit' \in [Clients -> {"none", "zero", "nonzero"}]
    BY <1>20 DEF WatchdogKills, Kill, Alive
  <2>2. QED
    BY <1>20, <2>1 DEF WatchdogKills
<1>21. ASSUME NEW c \in Clients, AttendReport(c) PROVE TypeOK'
  BY <1>21 DEF AttendReport
<1>22. ASSUME NEW c \in Clients, AttendDied(c) PROVE TypeOK'
  BY <1>22 DEF AttendDied
<1>23. ASSUME NEW c \in Clients, AttendAbort(c) PROVE TypeOK'
  BY <1>23 DEF AttendAbort
<1>24. ASSUME NEW c \in Clients, AttendArrive(c) PROVE TypeOK'
  BY <1>24 DEF AttendArrive, LastToArrive
<1>25. ASSUME NEW c \in Clients, AttendLeave(c) PROVE TypeOK'
  BY <1>25 DEF AttendLeave
<1>26. ASSUME NEW c \in Clients, WarmUp(c) PROVE TypeOK'
  <2>1. PICK failed \in BOOLEAN :
          /\ child' = [child EXCEPT ![c] = IF failed THEN "leaving" ELSE "ready"]
          /\ bad' = [bad EXCEPT ![c] = failed]
    BY <1>26 DEF WarmUp
  <2>2. bad' \in [Clients -> BOOLEAN]
    BY <2>1, Zenon
  <2>3. QED
    BY <1>26, <2>1, <2>2 DEF WarmUp
<1>27. ASSUME NEW c \in Clients, SeeGo(c) PROVE TypeOK'
  BY <1>27 DEF SeeGo
<1>28. ASSUME NEW c \in Clients, GoTimeout(c) PROVE TypeOK'
  BY <1>28 DEF GoTimeout
<1>29. ASSUME NEW c \in Clients, EndLoop(c) PROVE TypeOK'
  <2>1. \/ bad' = [bad EXCEPT ![c] = FALSE]
        \/ bad' = [bad EXCEPT ![c] = TRUE]
    BY <1>29 DEF EndLoop
  <2>2. bad' \in [Clients -> BOOLEAN]
    BY <2>1
  <2>3. QED
    BY <1>29, <2>2 DEF EndLoop
<1>30. ASSUME NEW c \in Clients, FinishSend(c) PROVE TypeOK'
  BY <1>30 DEF FinishSend
<1>31. ASSUME NEW c \in Clients, Leave(c) PROVE TypeOK'
  BY <1>31 DEF Leave
<1>32. ASSUME NEW c \in Clients, Die(c) PROVE TypeOK'
  <2>1. child' = [child EXCEPT ![c] = "dead"]
        /\ exit' = [exit EXCEPT ![c] = "nonzero"]
    BY <1>32 DEF Die, Kill
  <2>2. QED
    BY <1>32, <2>1 DEF Die
<1>33. CASE UNCHANGED vars
  BY <1>33 DEF vars
<1>34. QED
  BY <1>1, <1>2, <1>3, <1>4, <1>5, <1>6, <1>7, <1>8, <1>9, <1>10, <1>11, <1>12,
     <1>13, <1>14, <1>15, <1>16, <1>17, <1>18, <1>19, <1>20, <1>21, <1>22,
     <1>23, <1>24, <1>25, <1>26, <1>27, <1>28, <1>29, <1>30, <1>31, <1>32,
     <1>33
  DEF Next, Parent, Start, Stop, Watchdog, Attendant, ChildRun

(* The barrier and the flags agree with the harness thread after every step.   *)
LEMMA BarrierStep ==
    TypeOK /\ BarrierInv /\ [Next]_vars => BarrierInv'
PROOF
<1> SUFFICES ASSUME TypeOK, BarrierInv, [Next]_vars PROVE BarrierInv'
  OBVIOUS
<1> USE PoolAssumption DEF TypeOK, BarrierInv, Opened, Over, parentVars, childVars
<1>1. CASE Launch
  BY <1>1 DEF Launch, Advance
<1>2. CASE StartAttendants
  BY <1>2 DEF StartAttendants
<1>3. CASE ParentArrive
  BY <1>3 DEF ParentArrive
<1>4. CASE ParentReleased
  BY <1>4 DEF ParentReleased
<1>5. CASE ParentBarrierTimeout
  BY <1>5 DEF ParentBarrierTimeout
<1>6. CASE BreakUp
  BY <1>6 DEF BreakUp
<1>7. CASE SetGo
  BY <1>7 DEF SetGo
<1>8. CASE StopRead
  BY <1>8 DEF StopRead
<1>9. CASE SetHalt
  BY <1>9 DEF SetHalt
<1>10. CASE AbsorbSkip
  BY <1>10 DEF AbsorbSkip, Advance
<1>11. CASE AbsorbPoll
  BY <1>11 DEF AbsorbPoll
<1>12. CASE AbsorbTimeout
  BY <1>12 DEF AbsorbTimeout, Advance
<1>13. CASE Receive
  BY <1>13 DEF Receive
<1>14. CASE CancelWatchdog
  BY <1>14 DEF CancelWatchdog, Advance
<1>15. CASE JoinClients
  BY <1>15 DEF JoinClients
<1>16. CASE Judge
  BY <1>16 DEF Judge, Sound, Alive
<1>17. CASE Reap
  BY <1>17 DEF Reap, Advance, Kill, Alive
<1>18. CASE JoinAttendants
  BY <1>18 DEF JoinAttendants
<1>19. CASE WatchdogFires
  BY <1>19 DEF WatchdogFires, Alive
<1>20. CASE WatchdogKills
  BY <1>20 DEF WatchdogKills, Kill, Alive
<1>21. ASSUME NEW c \in Clients, AttendReport(c) PROVE BarrierInv'
  BY <1>21 DEF AttendReport
<1>22. ASSUME NEW c \in Clients, AttendDied(c) PROVE BarrierInv'
  BY <1>22 DEF AttendDied
<1>23. ASSUME NEW c \in Clients, AttendAbort(c) PROVE BarrierInv'
  BY <1>23 DEF AttendAbort
<1>24. ASSUME NEW c \in Clients, AttendArrive(c) PROVE BarrierInv'
  BY <1>24 DEF AttendArrive, LastToArrive
<1>25. ASSUME NEW c \in Clients, AttendLeave(c) PROVE BarrierInv'
  BY <1>25 DEF AttendLeave
<1>26. ASSUME NEW c \in Clients, WarmUp(c) PROVE BarrierInv'
  BY <1>26 DEF WarmUp
<1>27. ASSUME NEW c \in Clients, SeeGo(c) PROVE BarrierInv'
  BY <1>27 DEF SeeGo
<1>28. ASSUME NEW c \in Clients, GoTimeout(c) PROVE BarrierInv'
  BY <1>28 DEF GoTimeout
<1>29. ASSUME NEW c \in Clients, EndLoop(c) PROVE BarrierInv'
  BY <1>29 DEF EndLoop
<1>30. ASSUME NEW c \in Clients, FinishSend(c) PROVE BarrierInv'
  BY <1>30 DEF FinishSend
<1>31. ASSUME NEW c \in Clients, Leave(c) PROVE BarrierInv'
  BY <1>31 DEF Leave
<1>32. ASSUME NEW c \in Clients, Die(c) PROVE BarrierInv'
  BY <1>32 DEF Die, Kill, Alive
<1>33. CASE UNCHANGED vars
  BY <1>33 DEF vars
<1>34. QED
  BY <1>1, <1>2, <1>3, <1>4, <1>5, <1>6, <1>7, <1>8, <1>9, <1>10, <1>11, <1>12,
     <1>13, <1>14, <1>15, <1>16, <1>17, <1>18, <1>19, <1>20, <1>21, <1>22,
     <1>23, <1>24, <1>25, <1>26, <1>27, <1>28, <1>29, <1>30, <1>31, <1>32,
     <1>33
  DEF Next, Parent, Start, Stop, Watchdog, Attendant, ChildRun

(* A report on the pipe, and one absorbed, stay the reports of whole windows.  *)
LEMMA ReportStep ==
    TypeOK /\ ReportInv /\ [Next]_vars => ReportInv'
PROOF
<1> SUFFICES ASSUME TypeOK, ReportInv, [Next]_vars PROVE ReportInv'
  OBVIOUS
<1> USE PoolAssumption DEF TypeOK, Clients, ReportInv, parentVars, childVars
<1>1. CASE Launch
  BY <1>1 DEF Launch, Advance
<1>2. CASE StartAttendants
  BY <1>2 DEF StartAttendants
<1>3. CASE ParentArrive
  BY <1>3 DEF ParentArrive
<1>4. CASE ParentReleased
  BY <1>4 DEF ParentReleased
<1>5. CASE ParentBarrierTimeout
  BY <1>5 DEF ParentBarrierTimeout
<1>6. CASE BreakUp
  BY <1>6 DEF BreakUp
<1>7. CASE SetGo
  BY <1>7 DEF SetGo
<1>8. CASE StopRead
  BY <1>8 DEF StopRead
<1>9. CASE SetHalt
  BY <1>9 DEF SetHalt
<1>10. CASE AbsorbSkip
  BY <1>10 DEF AbsorbSkip, Advance
<1>11. CASE AbsorbPoll
  BY <1>11 DEF AbsorbPoll
<1>12. CASE AbsorbTimeout
  BY <1>12 DEF AbsorbTimeout, Advance
<1>13. CASE Receive
  BY <1>13 DEF Receive
<1>14. CASE CancelWatchdog
  BY <1>14 DEF CancelWatchdog, Advance
<1>15. CASE JoinClients
  BY <1>15 DEF JoinClients
<1>16. CASE Judge
  BY <1>16 DEF Judge, Sound, Alive
<1>17. CASE Reap
  BY <1>17 DEF Reap, Advance, Kill, Alive
<1>18. CASE JoinAttendants
  BY <1>18 DEF JoinAttendants
<1>19. CASE WatchdogFires
  BY <1>19 DEF WatchdogFires, Alive
<1>20. CASE WatchdogKills
  BY <1>20 DEF WatchdogKills, Kill, Alive
<1>21. ASSUME NEW c \in Clients, AttendReport(c) PROVE ReportInv'
  BY <1>21 DEF AttendReport
<1>22. ASSUME NEW c \in Clients, AttendDied(c) PROVE ReportInv'
  BY <1>22 DEF AttendDied
<1>23. ASSUME NEW c \in Clients, AttendAbort(c) PROVE ReportInv'
  BY <1>23 DEF AttendAbort
<1>24. ASSUME NEW c \in Clients, AttendArrive(c) PROVE ReportInv'
  BY <1>24 DEF AttendArrive, LastToArrive
<1>25. ASSUME NEW c \in Clients, AttendLeave(c) PROVE ReportInv'
  BY <1>25 DEF AttendLeave
<1>26. ASSUME NEW c \in Clients, WarmUp(c) PROVE ReportInv'
  BY <1>26 DEF WarmUp
<1>27. ASSUME NEW c \in Clients, SeeGo(c) PROVE ReportInv'
  BY <1>27 DEF SeeGo
<1>28. ASSUME NEW c \in Clients, GoTimeout(c) PROVE ReportInv'
  BY <1>28 DEF GoTimeout
<1>29. ASSUME NEW c \in Clients, EndLoop(c) PROVE ReportInv'
  <2>1. bad' = [bad EXCEPT ![c] = FALSE] \/ bad' = [bad EXCEPT ![c] = TRUE]
    BY <1>29 DEF EndLoop
  <2>2. /\ pipe' = [pipe EXCEPT ![c] = "partial"]
        /\ child[c] = "measuring" /\ child' = [child EXCEPT ![c] = "sending"]
        /\ whole' = whole /\ got' = got /\ pool' = pool /\ who' = who
    BY <1>29 DEF EndLoop
  <2>3. \A e \in Clients \ {c} :
           bad'[e] = bad[e] /\ pipe'[e] = pipe[e] /\ child'[e] = child[e]
    BY <2>1, <2>2
  <2>4. pipe'[c] = "partial" /\ child'[c] = "sending"
    BY <2>2
  <2>5. QED
    BY <2>2, <2>3, <2>4
<1>30. ASSUME NEW c \in Clients, FinishSend(c) PROVE ReportInv'
  BY <1>30 DEF FinishSend
<1>31. ASSUME NEW c \in Clients, Leave(c) PROVE ReportInv'
  BY <1>31 DEF Leave
<1>32. ASSUME NEW c \in Clients, Die(c) PROVE ReportInv'
  BY <1>32 DEF Die, Kill, Alive
<1>33. CASE UNCHANGED vars
  BY <1>33 DEF vars
<1>34. QED
  BY <1>1, <1>2, <1>3, <1>4, <1>5, <1>6, <1>7, <1>8, <1>9, <1>10, <1>11, <1>12,
     <1>13, <1>14, <1>15, <1>16, <1>17, <1>18, <1>19, <1>20, <1>21, <1>22,
     <1>23, <1>24, <1>25, <1>26, <1>27, <1>28, <1>29, <1>30, <1>31, <1>32,
     <1>33
  DEF Next, Parent, Start, Stop, Watchdog, Attendant, ChildRun

(* What stop has established for the clients behind its loop stays so.         *)
LEMMA LoopStep ==
    TypeOK /\ BarrierInv /\ LoopInv /\ [Next]_vars => LoopInv'
PROOF
<1> SUFFICES ASSUME TypeOK, BarrierInv, LoopInv, [Next]_vars PROVE LoopInv'
  OBVIOUS
<1> USE PoolAssumption DEF TypeOK, Clients, BarrierInv, LoopInv, Settled, Opened, Over, parentVars, childVars
<1>1. CASE Launch
  BY <1>1 DEF Launch, Advance
<1>2. CASE StartAttendants
  BY <1>2 DEF StartAttendants
<1>3. CASE ParentArrive
  BY <1>3 DEF ParentArrive
<1>4. CASE ParentReleased
  BY <1>4 DEF ParentReleased
<1>5. CASE ParentBarrierTimeout
  BY <1>5 DEF ParentBarrierTimeout
<1>6. CASE BreakUp
  BY <1>6 DEF BreakUp
<1>7. CASE SetGo
  BY <1>7 DEF SetGo
<1>8. CASE StopRead
  BY <1>8 DEF StopRead
<1>9. CASE SetHalt
  BY <1>9 DEF SetHalt
<1>10. CASE AbsorbSkip
  BY <1>10 DEF AbsorbSkip, Advance
<1>11. CASE AbsorbPoll
  BY <1>11 DEF AbsorbPoll
<1>12. CASE AbsorbTimeout
  <2>1. \A c \in Clients : c < who \/ c = who => Settled(c)'
    BY <1>12 DEF AbsorbTimeout
  <2>2. \/ pool' = "absorb" /\ \A c \in Clients : c < who' => c < who \/ c = who
        \/ pool' = "join" /\ \A c \in Clients : c < who \/ c = who
    BY <1>12, AdvanceLoop DEF AbsorbTimeout
  <2>3. QED
    BY <1>12, <2>1, <2>2 DEF AbsorbTimeout
<1>13. CASE Receive
  <2>1. \A c \in Clients : c < who \/ c = who => Settled(c)'
    <3>1. CASE pipe[who] = "full" /\ bad[who]
      <4>1. error' = [error EXCEPT ![who] = "ClientFailed"] /\ got' = got
        BY <1>13, <3>1 DEF Receive
      <4>2. QED
        BY <1>13, <4>1 DEF Receive
    <3>2. CASE pipe[who] = "full" /\ ~bad[who]
      <4>1. got' = [got EXCEPT ![who] = TRUE] /\ error' = error
        BY <1>13, <3>2 DEF Receive
      <4>2. QED
        BY <1>13, <4>1 DEF Receive
    <3>3. CASE ~(pipe[who] = "full")
      <4>1. error' = [error EXCEPT ![who] = "ClientDied"] /\ got' = got
        BY <1>13, <3>3 DEF Receive
      <4>2. QED
        BY <1>13, <4>1 DEF Receive
    <3>4. QED
      BY <3>1, <3>2, <3>3
  <2>2. QED
    BY <1>13, <2>1 DEF Receive
<1>14. CASE CancelWatchdog
  <2>1. \A c \in Clients : c < who \/ c = who => Settled(c)'
    BY <1>14 DEF CancelWatchdog
  <2>2. \/ pool' = "absorb" /\ \A c \in Clients : c < who' => c < who \/ c = who
        \/ pool' = "join" /\ \A c \in Clients : c < who \/ c = who
    BY <1>14, AdvanceLoop DEF CancelWatchdog
  <2>3. QED
    BY <1>14, <2>1, <2>2 DEF CancelWatchdog
<1>15. CASE JoinClients
  BY <1>15 DEF JoinClients
<1>16. CASE Judge
  BY <1>16 DEF Judge, Sound, Alive
<1>17. CASE Reap
  BY <1>17 DEF Reap, Advance, Kill, Alive
<1>18. CASE JoinAttendants
  BY <1>18 DEF JoinAttendants
<1>19. CASE WatchdogFires
  BY <1>19 DEF WatchdogFires, Alive
<1>20. CASE WatchdogKills
  BY <1>20 DEF WatchdogKills, Kill, Alive
<1>21. ASSUME NEW c \in Clients, AttendReport(c) PROVE LoopInv'
  BY <1>21 DEF AttendReport
<1>22. ASSUME NEW c \in Clients, AttendDied(c) PROVE LoopInv'
  BY <1>22 DEF AttendDied
<1>23. ASSUME NEW c \in Clients, AttendAbort(c) PROVE LoopInv'
  BY <1>23 DEF AttendAbort
<1>24. ASSUME NEW c \in Clients, AttendArrive(c) PROVE LoopInv'
  BY <1>24 DEF AttendArrive, LastToArrive
<1>25. ASSUME NEW c \in Clients, AttendLeave(c) PROVE LoopInv'
  BY <1>25 DEF AttendLeave
<1>26. ASSUME NEW c \in Clients, WarmUp(c) PROVE LoopInv'
  BY <1>26 DEF WarmUp
<1>27. ASSUME NEW c \in Clients, SeeGo(c) PROVE LoopInv'
  BY <1>27 DEF SeeGo
<1>28. ASSUME NEW c \in Clients, GoTimeout(c) PROVE LoopInv'
  BY <1>28 DEF GoTimeout
<1>29. ASSUME NEW c \in Clients, EndLoop(c) PROVE LoopInv'
  BY <1>29 DEF EndLoop
<1>30. ASSUME NEW c \in Clients, FinishSend(c) PROVE LoopInv'
  BY <1>30 DEF FinishSend
<1>31. ASSUME NEW c \in Clients, Leave(c) PROVE LoopInv'
  BY <1>31 DEF Leave
<1>32. ASSUME NEW c \in Clients, Die(c) PROVE LoopInv'
  BY <1>32 DEF Die, Kill, Alive
<1>33. CASE UNCHANGED vars
  BY <1>33 DEF vars
<1>34. QED
  BY <1>1, <1>2, <1>3, <1>4, <1>5, <1>6, <1>7, <1>8, <1>9, <1>10, <1>11, <1>12,
     <1>13, <1>14, <1>15, <1>16, <1>17, <1>18, <1>19, <1>20, <1>21, <1>22,
     <1>23, <1>24, <1>25, <1>26, <1>27, <1>28, <1>29, <1>30, <1>31, <1>32,
     <1>33
  DEF Next, Parent, Start, Stop, Watchdog, Attendant, ChildRun

(* A client that has been reaped does not come back.                           *)
LEMMA ReapStep ==
    TypeOK /\ ReapInv /\ [Next]_vars => ReapInv'
PROOF
<1> SUFFICES ASSUME TypeOK, ReapInv, [Next]_vars PROVE ReapInv'
  OBVIOUS
<1> USE PoolAssumption DEF TypeOK, Clients, ReapInv, Over, Opened, Alive, parentVars, childVars
<1>1. CASE Launch
  BY <1>1 DEF Launch, Advance
<1>2. CASE StartAttendants
  BY <1>2 DEF StartAttendants
<1>3. CASE ParentArrive
  BY <1>3 DEF ParentArrive
<1>4. CASE ParentReleased
  BY <1>4 DEF ParentReleased
<1>5. CASE ParentBarrierTimeout
  BY <1>5 DEF ParentBarrierTimeout
<1>6. CASE BreakUp
  BY <1>6 DEF BreakUp
<1>7. CASE SetGo
  BY <1>7 DEF SetGo
<1>8. CASE StopRead
  BY <1>8 DEF StopRead
<1>9. CASE SetHalt
  BY <1>9 DEF SetHalt
<1>10. CASE AbsorbSkip
  BY <1>10 DEF AbsorbSkip, Advance
<1>11. CASE AbsorbPoll
  BY <1>11 DEF AbsorbPoll
<1>12. CASE AbsorbTimeout
  BY <1>12 DEF AbsorbTimeout, Advance
<1>13. CASE Receive
  BY <1>13 DEF Receive
<1>14. CASE CancelWatchdog
  BY <1>14 DEF CancelWatchdog, Advance
<1>15. CASE JoinClients
  BY <1>15 DEF JoinClients
<1>16. CASE Judge
  BY <1>16 DEF Judge, Sound
<1>17. CASE Reap
  <2>1. \A c \in Clients : c < who \/ c = who => ~Alive(c)'
    BY <1>17 DEF Reap, Kill
  <2>2. pool' \in {"reap", "raised", "attendants"}
    BY <1>17 DEF Reap, Advance
  <2>3. QED
    BY <1>17, <2>1, <2>2, AdvanceLoop DEF Reap
<1>18. CASE JoinAttendants
  BY <1>18 DEF JoinAttendants
<1>19. CASE WatchdogFires
  BY <1>19 DEF WatchdogFires
<1>20. CASE WatchdogKills
  BY <1>20 DEF WatchdogKills, Kill
<1>21. ASSUME NEW c \in Clients, AttendReport(c) PROVE ReapInv'
  BY <1>21 DEF AttendReport
<1>22. ASSUME NEW c \in Clients, AttendDied(c) PROVE ReapInv'
  BY <1>22 DEF AttendDied
<1>23. ASSUME NEW c \in Clients, AttendAbort(c) PROVE ReapInv'
  BY <1>23 DEF AttendAbort
<1>24. ASSUME NEW c \in Clients, AttendArrive(c) PROVE ReapInv'
  BY <1>24 DEF AttendArrive, LastToArrive
<1>25. ASSUME NEW c \in Clients, AttendLeave(c) PROVE ReapInv'
  BY <1>25 DEF AttendLeave
<1>26. ASSUME NEW c \in Clients, WarmUp(c) PROVE ReapInv'
  BY <1>26 DEF WarmUp
<1>27. ASSUME NEW c \in Clients, SeeGo(c) PROVE ReapInv'
  BY <1>27 DEF SeeGo
<1>28. ASSUME NEW c \in Clients, GoTimeout(c) PROVE ReapInv'
  BY <1>28 DEF GoTimeout
<1>29. ASSUME NEW c \in Clients, EndLoop(c) PROVE ReapInv'
  BY <1>29 DEF EndLoop
<1>30. ASSUME NEW c \in Clients, FinishSend(c) PROVE ReapInv'
  BY <1>30 DEF FinishSend
<1>31. ASSUME NEW c \in Clients, Leave(c) PROVE ReapInv'
  BY <1>31 DEF Leave
<1>32. ASSUME NEW c \in Clients, Die(c) PROVE ReapInv'
  BY <1>32 DEF Die, Kill
<1>33. CASE UNCHANGED vars
  BY <1>33 DEF vars
<1>34. QED
  BY <1>1, <1>2, <1>3, <1>4, <1>5, <1>6, <1>7, <1>8, <1>9, <1>10, <1>11, <1>12,
     <1>13, <1>14, <1>15, <1>16, <1>17, <1>18, <1>19, <1>20, <1>21, <1>22,
     <1>23, <1>24, <1>25, <1>26, <1>27, <1>28, <1>29, <1>30, <1>31, <1>32,
     <1>33
  DEF Next, Parent, Start, Stop, Watchdog, Attendant, ChildRun

(* Type correctness.                                                           *)
THEOREM Types == Spec => []TypeOK
PROOF
<1>1. Init => TypeOK
  <2> SUFFICES ASSUME Init PROVE TypeOK
    OBVIOUS
  <2>1. 1 \in Clients
    BY PoolAssumption DEF Clients
  <2>2. /\ got \in [Clients -> BOOLEAN] /\ killedHere \in [Clients -> BOOLEAN]
        /\ bad \in [Clients -> BOOLEAN] /\ whole \in [Clients -> BOOLEAN]
    BY DEF Init
  <2>3. QED
    BY <2>1, <2>2 DEF Init, TypeOK
<1>2. QED
  BY <1>1, TypeStep, PTL DEF Spec

(* The invariant behind every theorem below: it holds at first, and the four   *)
(* lemmas say that each of its parts is kept by every step.                    *)
THEOREM Invariance == Spec => []PoolInv
PROOF
<1>1. Init => PoolInv
  BY PoolAssumption DEF Init, PoolInv, BarrierInv, ReportInv, LoopInv, ReapInv,
                        Over, Opened, Clients
<1>2. TypeOK /\ PoolInv /\ [Next]_vars => PoolInv'
  BY BarrierStep, ReportStep, LoopStep, ReapStep DEF PoolInv
<1>3. QED
  BY <1>1, <1>2, Types, PTL DEF Spec

(* A window is published only if every client ran to the stop flag, reported   *)
(* all it recorded and has no error on its name.                               *)
THEOREM PublishedWindowsAreWhole == Spec => []PublishedIsWhole
PROOF
<1>1. TypeOK /\ PoolInv => PublishedIsWhole
  BY DEF PoolInv, ReportInv, LoopInv, PublishedIsWhole
<1>2. QED
  BY <1>1, Types, Invariance, PTL

(* Whatever start and stop end with, no client is left querying the server.    *)
THEOREM NobodyOutlivesAPool == Spec => []NoClientOutlivesPool
PROOF
<1>1. TypeOK /\ PoolInv => NoClientOutlivesPool
  BY DEF PoolInv, ReapInv, NoClientOutlivesPool
<1>2. QED
  BY <1>1, Types, Invariance, PTL

(* No client measures before the window has its opening instant, nor in a pool *)
(* whose warm-up broke up.                                                     *)
THEOREM MeasuredQueriesAreInside == Spec => []MeasuredInsideWindow
PROOF
<1>1. TypeOK /\ PoolInv => MeasuredInsideWindow
  BY DEF PoolInv, BarrierInv, MeasuredInsideWindow
<1>2. QED
  BY <1>1, Types, Invariance, PTL

-----------------------------------------------------------------------------
(* A client pool implements the contract its callers rely on.                *)

Live == {c \in Clients : Alive(c)}
Taken == {c \in Clients : got[c]}

(* A client that is killed is gone from the living, and nobody else is.       *)
LEMMA EndedLive ==
    ASSUME TypeOK, NEW c \in Clients, Kill(c)
    PROVE  Live' = Live \ {c}
PROOF
<1>1. CASE Alive(c)
  BY <1>1 DEF TypeOK, Kill, Live, Alive
<1>2. CASE ~Alive(c)
  BY <1>2 DEF TypeOK, Kill, Live, Alive
<1>3. QED
  BY <1>1, <1>2

(* Every step of a pool is a step of the contract, or changes nothing in it:   *)
(* the barrier opens the window, whoever trips it; absorb delivers; a client   *)
(* ends by itself, is killed or is reaped; the last step publishes or raises.  *)
LEMMA StepMaps ==
    TypeOK /\ TypeOK' /\ PoolInv /\ PoolInv' /\ [Next]_vars
        => [Window!Next]_Window!vars
PROOF
<1> SUFFICES ASSUME TypeOK, TypeOK', PoolInv, PoolInv', [Next]_vars
             PROVE  [Window!Next]_Window!vars
  OBVIOUS
<1> DEFINE Same == PhaseOfPool' = PhaseOfPool /\ Live' = Live /\ Taken' = Taken
<1>s. Same => UNCHANGED Window!vars
  BY DEF Window!vars, Live, Taken
<1>l. UNCHANGED child => Live' = Live
  BY DEF Live, Alive
<1>t. UNCHANGED got => Taken' = Taken
  BY DEF Taken
<1>a. \A c \in Clients : c \in Live <=> Alive(c)
  BY DEF Live
<1>b. \A c \in Clients : c \in Live' <=> Alive(c)'
  BY DEF Live
<1> USE DEF PoolInv, BarrierInv, PhaseOfPool, Opened, Over, parentVars, childVars

<1>1. CASE Launch
  <2>1. CASE child' = [child EXCEPT ![who] = "warming"]
             /\ Advance("launch", "attend")
    <3>1. Live' = Live \cup {who}
      BY <1>1, <2>1 DEF TypeOK, Live, Alive
    <3>2. PhaseOfPool = "warming" /\ PhaseOfPool' = "warming"
      BY <1>1, <2>1 DEF Launch, Advance
    <3>3. Window!Begin(who)
      BY <1>1, <1>t, <3>1, <3>2 DEF Launch, Window!Begin, Live, Taken
    <3>4. QED
      BY <3>3 DEF TypeOK, Window!Next
  <2>2. CASE pool' = "crashed" /\ UNCHANGED <<who, child>>
    <3>1. Window!Crash
      BY <1>1, <1>t, <1>l, <2>2 DEF Launch, Window!Crash, Live, Taken
    <3>2. QED
      BY <3>1 DEF Window!Next
  <2>3. QED
    BY <1>1, <2>1, <2>2 DEF Launch
<1>2. CASE StartAttendants
  BY <1>2, <1>s, <1>l, <1>t DEF StartAttendants
<1>3. CASE ParentArrive
  <2>1. Live' = Live /\ Taken' = Taken
    BY <1>3, <1>l, <1>t DEF ParentArrive
  <2>2. CASE barrier' = "tripped"
    <3>1. Window!Open
      BY <1>3, <2>1, <2>2 DEF ParentArrive, Window!Open, Live, Taken
    <3>2. QED
      BY <3>1 DEF Window!Next
  <2>3. CASE barrier' # "tripped"
    BY <1>3, <1>s, <2>1, <2>3 DEF ParentArrive
  <2>4. QED
    BY <2>2, <2>3
<1>4. CASE ParentReleased
  BY <1>4, <1>s, <1>l, <1>t DEF ParentReleased
<1>5. CASE ParentBarrierTimeout
  BY <1>5, <1>s, <1>l, <1>t DEF ParentBarrierTimeout
<1>6. CASE BreakUp
  BY <1>6, <1>s, <1>l, <1>t DEF BreakUp
<1>7. CASE SetGo
  BY <1>7, <1>s, <1>l, <1>t DEF SetGo
<1>8. CASE StopRead
  BY <1>8, <1>s, <1>l, <1>t DEF StopRead
<1>9. CASE SetHalt
  BY <1>9, <1>s, <1>l, <1>t DEF SetHalt
<1>10. CASE AbsorbSkip
  BY <1>10, <1>s, <1>l, <1>t DEF AbsorbSkip, Advance
<1>11. CASE AbsorbPoll
  BY <1>11, <1>s, <1>l, <1>t DEF AbsorbPoll
<1>12. CASE AbsorbTimeout
  BY <1>12, <1>s, <1>l, <1>t DEF AbsorbTimeout, Advance
<1>13. CASE Receive
  <2>1. Live' = Live /\ PhaseOfPool = "open" /\ PhaseOfPool' = "open"
    BY <1>13, <1>l DEF Receive
  <2>2. CASE got' = [got EXCEPT ![who] = TRUE]
    <3>1. Taken' = Taken \cup {who}
      BY <2>2 DEF TypeOK, Taken
    <3>2. Window!Deliver(who)
      BY <2>1, <3>1 DEF Window!Deliver, Live, Taken
    <3>3. who \in Clients
      BY DEF TypeOK
    <3>4. Window!Next
      BY <3>2, <3>3 DEF Window!Next, Window!Deliver
    <3>5. QED
      BY <3>4
  <2>3. CASE UNCHANGED got
    BY <1>s, <1>t, <2>1, <2>3
  <2>4. QED
    BY <1>13, <2>2, <2>3 DEF Receive
<1>14. CASE CancelWatchdog
  BY <1>14, <1>s, <1>l, <1>t DEF CancelWatchdog, Advance
<1>15. CASE JoinClients
  BY <1>15, <1>s, <1>l, <1>t DEF JoinClients
<1>16. CASE Judge
  BY <1>16, <1>s, <1>l, <1>t DEF Judge
<1>17. CASE Reap
  <2>1. Live' = Live \ {who}
    BY <1>17, EndedLive DEF TypeOK, Reap, Live
  <2>2. Taken' = Taken
    BY <1>17, <1>t DEF Reap
  <2>3. CASE pool' = "raised"
    <3>1. Live' = {}
      BY <2>3 DEF ReapInv, Live
    <3>2. PhaseOfPool \in {"warming", "open"}
      BY <1>17 DEF Reap
    <3>3. Window!Raise
      BY <2>2, <2>3, <3>1, <3>2 DEF Window!Raise, Live, Taken
    <3>4. QED
      BY <3>3 DEF Window!Next
  <2>4. CASE pool' # "raised"
    <3>1. PhaseOfPool' = PhaseOfPool
      BY <1>17, <2>4 DEF Reap, Advance
    <3>2. Window!End(who)
      BY <2>1, <2>2, <3>1 DEF Window!End, Live, Taken
    <3>3. QED
      BY <3>2 DEF TypeOK, Window!Next
  <2>5. QED
    BY <2>3, <2>4
<1>18. CASE JoinAttendants
  <2>1. Live = {} /\ Live' = {}
    BY <1>18, <1>l DEF JoinAttendants, ReapInv, Live
  <2>2. Taken' = Taken
    BY <1>18, <1>t DEF JoinAttendants
  <2>3. CASE verdict = "window"
    <3>1. Taken = Clients
      BY <2>3 DEF LoopInv, Taken
    <3>2. Window!Publish
      BY <1>18, <2>1, <2>2, <2>3, <3>1 DEF JoinAttendants, Window!Publish, Live, Taken
    <3>3. QED
      BY <3>2 DEF Window!Next
  <2>4. CASE verdict # "window"
    <3>1. Window!Raise
      BY <1>18, <2>1, <2>2, <2>4 DEF JoinAttendants, Window!Raise, Live, Taken
    <3>2. QED
      BY <3>1 DEF Window!Next
  <2>5. QED
    BY <2>3, <2>4
<1>19. CASE WatchdogFires
  BY <1>19, <1>s, <1>l, <1>t DEF WatchdogFires
<1>20. CASE WatchdogKills
  <2>1. Live' = Live \ {who}
    BY <1>20, EndedLive DEF TypeOK, WatchdogKills, Live
  <2>2. Window!End(who)
    BY <1>20, <1>t, <2>1 DEF WatchdogKills, Window!End, Live, Taken
  <2>3. QED
    BY <2>2 DEF TypeOK, Window!Next
<1>21. ASSUME NEW c \in Clients, AttendReport(c)
      PROVE  [Window!Next]_Window!vars
  BY <1>21, <1>s, <1>l, <1>t DEF AttendReport
<1>22. ASSUME NEW c \in Clients, AttendDied(c)
      PROVE  [Window!Next]_Window!vars
  BY <1>22, <1>s, <1>l, <1>t DEF AttendDied
<1>23. ASSUME NEW c \in Clients, AttendAbort(c)
      PROVE  [Window!Next]_Window!vars
  BY <1>23, <1>s, <1>l, <1>t DEF AttendAbort
<1>24. ASSUME NEW c \in Clients, AttendArrive(c)
      PROVE  [Window!Next]_Window!vars
  <2>1. Live' = Live /\ Taken' = Taken
    BY <1>24, <1>l, <1>t DEF AttendArrive
  <2>2. CASE barrier = "filling" /\ LastToArrive(c)
    <3>1. Window!Open
      BY <1>24, <2>1, <2>2
      DEF AttendArrive, LastToArrive, Window!Open, Live, Taken
    <3>2. QED
      BY <3>1 DEF Window!Next
  <2>3. CASE ~(barrier = "filling" /\ LastToArrive(c))
    BY <1>24, <1>s, <2>1, <2>3 DEF AttendArrive
  <2>4. QED
    BY <2>2, <2>3
<1>25. ASSUME NEW c \in Clients, AttendLeave(c)
      PROVE  [Window!Next]_Window!vars
  BY <1>25, <1>s, <1>l, <1>t DEF AttendLeave
<1>26. ASSUME NEW c \in Clients, WarmUp(c)
      PROVE  [Window!Next]_Window!vars
  <2>1. Live' = Live
    BY <1>26 DEF TypeOK, WarmUp, Live, Alive
  <2>2. QED
    BY <1>26, <1>s, <1>t, <2>1 DEF WarmUp
<1>27. ASSUME NEW c \in Clients, SeeGo(c)
      PROVE  [Window!Next]_Window!vars
  <2>1. Live' = Live
    BY <1>27 DEF TypeOK, SeeGo, Live, Alive
  <2>2. QED
    BY <1>27, <1>s, <1>t, <2>1 DEF SeeGo
<1>28. ASSUME NEW c \in Clients, GoTimeout(c)
      PROVE  [Window!Next]_Window!vars
  <2>1. Live' = Live
    BY <1>28 DEF TypeOK, GoTimeout, Live, Alive
  <2>2. QED
    BY <1>28, <1>s, <1>t, <2>1 DEF GoTimeout
<1>29. ASSUME NEW c \in Clients, EndLoop(c)
      PROVE  [Window!Next]_Window!vars
  <2>1. Live' = Live
    BY <1>29 DEF TypeOK, EndLoop, Live, Alive
  <2>2. QED
    BY <1>29, <1>s, <1>t, <2>1 DEF EndLoop
<1>30. ASSUME NEW c \in Clients, FinishSend(c)
      PROVE  [Window!Next]_Window!vars
  <2>1. Live' = Live
    BY <1>30 DEF TypeOK, FinishSend, Live, Alive
  <2>2. QED
    BY <1>30, <1>s, <1>t, <2>1 DEF FinishSend
<1>31. ASSUME NEW c \in Clients, Leave(c)
      PROVE  [Window!Next]_Window!vars
  <2>1. Live' = Live \ {c}
    BY <1>31 DEF TypeOK, Leave, Live, Alive
  <2>2. Window!End(c)
    BY <1>31, <1>t, <2>1 DEF Leave, Window!End, Live, Taken
  <2>3. QED
    BY <2>2 DEF Window!Next
<1>32. ASSUME NEW c \in Clients, Die(c)
      PROVE  [Window!Next]_Window!vars
  <2>1. Live' = Live \ {c}
    BY <1>32, EndedLive DEF Die, Live
  <2>2. Window!End(c)
    BY <1>32, <1>t, <2>1 DEF Die, Window!End, Live, Taken
  <2>3. QED
    BY <2>2 DEF Window!Next
<1>33. CASE UNCHANGED vars
  BY <1>33, <1>s, <1>l, <1>t DEF vars
<1>34. QED
  BY <1>1, <1>2, <1>3, <1>4, <1>5, <1>6, <1>7, <1>8, <1>9, <1>10, <1>11, <1>12,
     <1>13, <1>14, <1>15, <1>16, <1>17, <1>18, <1>19, <1>20, <1>21, <1>22,
     <1>23, <1>24, <1>25, <1>26, <1>27, <1>28, <1>29, <1>30, <1>31, <1>32,
     <1>33
  DEF Next, Parent, Start, Stop, Watchdog, Attendant, ChildRun

(* start, stop, the attendants, the watchdog and the clients together are an   *)
(* implementation of what MeasuredWindow promises.                             *)
THEOREM PoolIsAMeasuredWindow == Spec => IsMeasuredWindow
PROOF
<1>1. Init => Window!Init
  BY DEF Init, Window!Init, PhaseOfPool, Alive
<1>2. TypeOK /\ TypeOK' /\ PoolInv /\ PoolInv' /\ [Next]_vars
        => [Window!Next]_Window!vars
  BY StepMaps
<1>3. QED
  BY <1>1, <1>2, Types, Invariance, PTL DEF Spec, IsMeasuredWindow, Window!Spec

-----------------------------------------------------------------------------
(* The profile window handshake.                                              *)

(* The harness, at window x and place h, has begun the window of this token;  *)
(* it is out of it.                                                           *)
BegunAt(t, x, h) == t[2] < x \/ (t[2] = x /\ h # "between")
OverAt(t, x, h) == t[2] < x \/ h = "gone"
Begun(t) == BegunAt(t, w, harness)
Behind(t) == OverAt(t, w, harness)

(* The harness is in a window it announced.                                   *)
Announced == /\ harness \in {"asking", "open", "closed", "failed"}
             /\ Windows[w] = "profiled"

(* The reader has read the begin mark of a window, and not what follows it.   *)
Inside == \/ reader \in {"starting", "acking", "filling"}
          \/ reader = "reading" /\ active # None

(* What the harness has said: marks of this unit's windows, an end only of a  *)
(* window that is over.                                                       *)
MarksAre(q, u, x, h) == \A k \in 1 .. Len(q) :
    /\ q[k].mark \in {"begin", "end"} => q[k].token \in Tokens /\ q[k].token[1] = u
    /\ q[k].mark = "begin" => BegunAt(q[k].token, x, h)
    /\ q[k].mark = "end" => OverAt(q[k].token, x, h)
    /\ q[k].mark = "eof" => h = "gone"

(* The end of a window, or of everything, follows its begin. Only the window  *)
(* the harness is in may lack it.                                             *)
OrderIs(q, t, in) == \A k \in 1 .. Len(q) : q[k].mark = "begin" =>
    IF k < Len(q) THEN q[k + 1] \in {End(q[k].token), Eof}
    ELSE q[k].token = t /\ in

(* What a reader inside the window of d will read next.                       *)
FrontIs(q, d, t, in) == IF q # << >> THEN q[1] \in {End(d), Eof} ELSE d = t /\ in

PipeInv == /\ MarksAre(output, unit, w, harness)
           /\ OrderIs(output, Token, Announced)
           /\ Inside => FrontIs(output, handled, Token, Announced)

(* The window that perf is open for is the last one announced to the reader,  *)
(* and is stopped and folded when it is over.                                 *)
ReaderInv ==
    /\ reader \in {"starting", "acking", "filling"} \/ active # None =>
          handled \in Tokens /\ handled[1] = unit /\ Begun(handled)
    /\ active # None => active = handled
    /\ reader \in {"starting", "done"} => active = None
    /\ reader \in {"stopping", "folding"} => active # None /\ Behind(active)
    /\ reader \in {"flushing", "draining"} => active # None /\ harness = "gone"
    /\ reader \in {"acking", "filling"} /\ answer = "recording" => active = handled

(* perf samples for the open window, and folds what it sampled for it.        *)
PerfInv ==
    /\ \A t \in sampling \cup folding : t[1] <= unit
    /\ \A t \in sampling : t[1] = unit =>
          active = t /\ reader \notin {"folding", "draining"}
    /\ \A t \in folding : t[1] = unit =>
          active = t /\ reader \in {"folding", "draining"}
    /\ active # None /\ ~ Behind(active) => active \in sampling

(* An answer that says perf records is about the window it names, and is true *)
(* for as long as that window lasts.                                          *)
AckInv ==
    /\ \A a \in acks : a.token[1] <= unit /\ (a.token[1] = unit => Begun(a.token))
    /\ \A a \in acks : a.token = Token /\ a.word = "recording" /\ ~ Behind(Token)
                       => active = Token
    /\ harness \in {"between", "asking"} => word = "none"
    /\ harness \in {"open", "closed", "failed"} /\ word = "recording" => active = Token
    /\ harness \in {"asking", "open", "closed", "failed"} => w \in DOMAIN Windows
    /\ harness = "asking" => Announced

WindowInv == WindowTypeOK /\ PipeInv /\ ReaderInv /\ PerfInv /\ AckInv

-----------------------------------------------------------------------------
(* Constants, and what the tokens and the marks are.                          *)
LEMMA WindowsLength ==
    /\ Len(Windows) \in Nat /\ DOMAIN Windows = 1 .. Len(Windows)
    /\ MaxUnits \in Nat /\ MaxUnits # 0
    /\ \A i \in 1 .. Len(Windows) : Windows[i] \in {"published", "profiled"}
PROOF
  BY ProfileAssumption

(* What stands for no token is none.                                          *)
LEMMA NoneIsNoToken == None \notin Tokens
PROOF
  BY WindowsLength DEF None, Tokens

(* What the marks of the output say.                                          *)
LEMMA MarkFields ==
    /\ \A t \in Tokens : /\ Begin(t) \in Marks /\ Begin(t).mark = "begin" /\ Begin(t).token = t
                         /\ End(t) \in Marks /\ End(t).mark = "end" /\ End(t).token = t
    /\ Eof \in Marks /\ Eof.mark = "eof"
PROOF
  BY DEF Begin, End, Eof, Marks

(* The token of a window that is open is of its unit and place.               *)
LEMMA TokenIsOne ==
    ASSUME WindowTypeOK, w \in DOMAIN Windows
    PROVE  Token \in Tokens /\ Token[1] = unit /\ Token[2] = w
PROOF
  BY WindowsLength DEF WindowTypeOK, Token, Tokens

(* A sequence with a mark at its end; one without its first.                  *)
LEMMA Appended ==
    ASSUME NEW p \in Seq(Marks), NEW m \in Marks
    PROVE  /\ Append(p, m) \in Seq(Marks) /\ Len(Append(p, m)) = Len(p) + 1
           /\ Append(p, m) # << >>
           /\ \A k \in 1 .. Len(p) : Append(p, m)[k] = p[k]
           /\ Append(p, m)[Len(p) + 1] = m
           /\ Len(p) \in Nat /\ (p = << >> <=> Len(p) = 0)
PROOF
  OBVIOUS

(* What is left of the output when its first mark has been read.              *)
LEMMA OutputTaken ==
    ASSUME NEW p \in Seq(Marks), p # << >>
    PROVE  /\ Tail(p) \in Seq(Marks) /\ Len(Tail(p)) = Len(p) - 1 /\ Len(p) \in Nat /\ Len(p) > 0
           /\ Head(p) = p[1] /\ p[1] \in Marks
           /\ \A k \in 1 .. Len(p) - 1 : Tail(p)[k] = p[k + 1]
           /\ Tail(p) = << >> <=> Len(p) = 1
PROOF
<1>1. Len(p) \in Nat /\ Len(p) > 0 /\ \A k \in 1 .. Len(p) : p[k] \in Marks
  OBVIOUS
<1>2. Tail(p) \in Seq(Marks) /\ Len(Tail(p)) = Len(p) - 1
  OBVIOUS
<1>3. \A k \in 1 .. Len(p) - 1 : Tail(p)[k] = p[k + 1]
  BY <1>1
<1>4. Tail(p) = << >> <=> Len(Tail(p)) = 0
  <2>1. \A q \in Seq(Marks) : q = << >> <=> Len(q) = 0
    OBVIOUS
  <2>2. QED
    BY <1>2, <2>1, Zenon
<1>5. Head(p) = p[1]
  OBVIOUS
<1>6. QED
  BY <1>1, <1>2, <1>3, <1>4, <1>5

(* The file that is filled keeps its name.                                    *)
LEMMA FilledAcks ==
    ASSUME WindowTypeOK, FillAck
    PROVE  /\ acks' \subseteq AckFiles
           /\ \A b \in acks' : \E a \in acks :
                 /\ b.token = a.token
                 /\ b = a \/ (a.token = handled /\ b.word = answer)
PROOF
<1>1. acks' = {IF a.token = handled THEN [a EXCEPT !.word = answer] ELSE a : a \in acks}
  BY DEF FillAck
<1>2. ASSUME NEW a \in acks
      PROVE  LET b == [a EXCEPT !.word = answer]
             IN  b \in AckFiles /\ b.token = a.token /\ b.word = answer
  BY DEF WindowTypeOK, AckFiles
<1>3. acks \subseteq AckFiles
  BY DEF WindowTypeOK
<1>4. QED
  BY <1>1, <1>2, <1>3

-----------------------------------------------------------------------------
(* Every step keeps the types.                                                *)
LEMMA WindowTypeStep ==
    ASSUME WindowTypeOK, PipeInv, ReaderInv, AckInv, [WindowNext]_windowVars
    PROVE  WindowTypeOK'
PROOF
<1>1. CASE OpenPublished
  BY <1>1 DEF OpenPublished, WindowTypeOK, readerVars
<1>2. CASE PrintBegin
  <2>1. w \in DOMAIN Windows /\ output' = Append(output, Begin(Token))
    BY <1>2 DEF PrintBegin
  <2>2. output' \in Seq(Marks)
    BY <2>1, TokenIsOne, MarkFields, Appended DEF WindowTypeOK
  <2>3. QED
    BY <1>2, <2>2 DEF PrintBegin, WindowTypeOK, readerVars
<1>3. CASE SeeAck
  <2>1. PICK a \in acks : word' = a.word /\ acks' = acks \ {a}
    BY <1>3 DEF SeeAck
  <2>2. word' \in {"recording", "unavailable", "empty"}
    BY <2>1 DEF WindowTypeOK, AckFiles
  <2>3. QED
    BY <1>3, <2>1, <2>2 DEF SeeAck, WindowTypeOK, readerVars
<1>4. CASE AckTimeout
  BY <1>4 DEF AckTimeout, WindowTypeOK, readerVars
<1>5. CASE Close
  BY <1>5 DEF Close, WindowTypeOK, readerVars
<1>6. CASE AfterWindow
  <2>1. w \in DOMAIN Windows
    BY <1>6 DEF AfterWindow, LeaveWindow, AckInv
  <2>2. Said \in Seq(Marks)
    BY <2>1, TokenIsOne, MarkFields, Appended DEF WindowTypeOK, Said
  <2>3. Append(Said, Eof) \in Seq(Marks)
    BY <2>2, MarkFields, Appended
  <2>4. output' \in Seq(Marks)
    BY <1>6, <2>2, <2>3 DEF AfterWindow, LeaveWindow
  <2>5. w' \in 1 .. Len(Windows) + 1 /\ word' \in {"none", word} /\ harness' \in {"between", "gone"}
    BY <1>6, <2>1, WindowsLength DEF AfterWindow, LeaveWindow, WindowTypeOK
  <2>6. QED
    BY <1>6, <2>4, <2>5 DEF AfterWindow, LeaveWindow, WindowTypeOK, readerVars
<1>7. CASE Gone
  <2>1. output' \in Seq(Marks)
    BY <1>7, MarkFields, Appended DEF Gone, WindowTypeOK
  <2>2. QED
    BY <1>7, <2>1 DEF Gone, WindowTypeOK, readerVars
<1>8. CASE ReadMark
  <2>1. /\ output # << >> /\ output' = Tail(output) /\ output' \in Seq(Marks)
        /\ Head(output) = output[1] /\ output[1] \in Marks /\ 1 \in 1 .. Len(output)
    BY <1>8, OutputTaken DEF ReadMark, WindowTypeOK
  <2>2. handled' \in Tokens \cup {None} /\ reader' \in {"starting", "reading", "stopping", "done", "flushing"}
    <3>1. CASE output[1].mark = "begin"
      <4>1. output[1].token \in Tokens
        BY <2>1, <3>1 DEF PipeInv, MarksAre, Begun, Behind, BegunAt, OverAt
      <4>2. QED
        BY <1>8, <2>1, <3>1, <4>1 DEF ReadMark
    <3>2. CASE output[1].mark = "end"
      BY <1>8, <2>1, <3>2 DEF ReadMark, WindowTypeOK
    <3>3. CASE output[1].mark = "eof"
      BY <1>8, <2>1, <3>3 DEF ReadMark, WindowTypeOK
    <3>4. QED
      BY <2>1, <3>1, <3>2, <3>3 DEF Marks
  <2>3. QED
    BY <1>8, <2>1, <2>2 DEF ReadMark, WindowTypeOK, harnessVars
<1>9. CASE StartPerf
  <2>1. handled \in Tokens
    BY <1>9 DEF StartPerf, ReaderInv
  <2>2. QED
    BY <1>9, <2>1 DEF StartPerf, WindowTypeOK, harnessVars
<1>10. CASE CreateAck
  <2>1. handled \in Tokens
    BY <1>10 DEF CreateAck, ReaderInv
  <2>2. [token |-> handled, word |-> "empty"] \in AckFiles
    BY <2>1 DEF AckFiles
  <2>3. acks' \subseteq AckFiles
    BY <1>10, <2>2 DEF CreateAck, WindowTypeOK
  <2>4. QED
    BY <1>10, <2>3 DEF CreateAck, WindowTypeOK, harnessVars
<1>11. CASE FillAck
  <2>1. acks' \subseteq AckFiles
    BY <1>11, FilledAcks
  <2>2. QED
    BY <1>11, <2>1 DEF FillAck, WindowTypeOK, harnessVars
<1>12. CASE StopPerf
  <2>1. active \in Tokens
    BY <1>12 DEF StopPerf, StopWindow, ReaderInv
  <2>2. QED
    BY <1>12, <2>1 DEF StopPerf, StopWindow, WindowTypeOK, harnessVars
<1>13. CASE Fold
  BY <1>13 DEF Fold, WindowTypeOK, harnessVars
<1>14. CASE ReaderFails
  BY <1>14 DEF ReaderFails, WindowTypeOK, harnessVars
<1>15. CASE NextUnit
  BY <1>15, WindowsLength DEF NextUnit, WindowTypeOK
<1>16. CASE UNCHANGED windowVars
  BY <1>16 DEF windowVars, harnessVars, readerVars, WindowTypeOK
<1>17. QED
  BY <1>1, <1>2, <1>3, <1>4, <1>5, <1>6, <1>7, <1>8, <1>9, <1>10, <1>11, <1>12,
     <1>13, <1>14, <1>15, <1>16
     DEF WindowNext, HarnessStep, ReaderStep

(* The reader stops what it started, when it is over.                         *)
LEMMA ReaderStepInv ==
    ASSUME WindowTypeOK, PipeInv, ReaderInv, AckInv, [WindowNext]_windowVars
    PROVE  ReaderInv'
PROOF
<1>0. unit \in Int /\ w \in Int /\ handled \in Tokens \cup {None} /\ active \in Tokens \cup {None}
  BY WindowsLength DEF WindowTypeOK
<1>a. \A t \in Tokens : t[1] \in Int /\ t[2] \in Int
  BY WindowsLength DEF Tokens
<1>1. CASE OpenPublished \/ PrintBegin \/ SeeAck \/ AckTimeout \/ Close
  <2>1. /\ UNCHANGED <<unit, w, readerVars>> /\ harness' \notin {"between", "gone"}
        /\ harness # "gone"
    BY <1>1 DEF OpenPublished, PrintBegin, SeeAck, AckTimeout, Close
  <2>2. QED
    BY <1>0, <2>1 DEF ReaderInv, Begun, Behind, BegunAt, OverAt, readerVars
<1>2. CASE AfterWindow
  <2>1. /\ UNCHANGED <<unit, readerVars>> /\ harness \notin {"between", "gone"}
        /\ (w' = w + 1) \/ (w' = w /\ harness' = "gone")
    BY <1>2 DEF AfterWindow, LeaveWindow
  <2>2. QED
    BY <1>0, <1>a, <2>1 DEF ReaderInv, Begun, Behind, BegunAt, OverAt, readerVars
<1>3. CASE Gone
  <2>1. UNCHANGED <<unit, w, readerVars>> /\ harness' = "gone"
    BY <1>3 DEF Gone
  <2>2. QED
    BY <1>0, <1>a, <2>1 DEF ReaderInv, Begun, Behind, BegunAt, OverAt, readerVars
<1>4. CASE ReadMark
  <2>1. /\ output # << >> /\ Head(output) = output[1] /\ output[1] \in Marks /\ 1 \in 1 .. Len(output)
        /\ reader = "reading" /\ UNCHANGED <<unit, harness, w, word, active, answer>>
    BY <1>4, OutputTaken DEF ReadMark, WindowTypeOK, harnessVars
  <2>2. active # None => output[1] \in {End(handled), Eof}
    BY <2>1 DEF PipeInv, Inside, FrontIs
  <2>3. active # None => active = handled /\ handled \in Tokens /\ handled[1] = unit /\ Begun(handled)
    BY DEF ReaderInv
  <2>4. CASE output[1].mark = "begin"
    <3>1. output[1].token \in Tokens /\ output[1].token[1] = unit /\ Begun(output[1].token)
      BY <2>1, <2>4 DEF PipeInv, MarksAre, Begun, Behind, BegunAt, OverAt
    <3>2. active = None
      BY <2>2, <2>3, <2>4, MarkFields
    <3>3. reader' = "starting" /\ handled' = output[1].token
      BY <1>4, <2>1, <2>4 DEF ReadMark
    <3>4. QED
      BY <2>1, <3>1, <3>2, <3>3 DEF ReaderInv, Begun, BegunAt
  <2>5. CASE output[1].mark = "end"
    <3>1. Behind(output[1].token)
      BY <2>1, <2>5 DEF PipeInv, MarksAre, Begun, Behind, BegunAt, OverAt
    <3>2. active # None => output[1].token = active
      BY <2>2, <2>3, <2>5, MarkFields
    <3>3. handled' = handled /\ reader' = IF active = None THEN "reading" ELSE "stopping"
      BY <1>4, <2>1, <2>5 DEF ReadMark
    <3>4. QED
      BY <2>1, <2>3, <3>1, <3>2, <3>3
         DEF ReaderInv, Begun, Behind, BegunAt, OverAt
  <2>6. CASE output[1].mark = "eof"
    <3>1. harness = "gone"
      BY <2>1, <2>6 DEF PipeInv, MarksAre, Begun, Behind, BegunAt, OverAt
    <3>2. handled' = handled /\ reader' = IF active = None THEN "done" ELSE "flushing"
      BY <1>4, <2>1, <2>6 DEF ReadMark
    <3>3. QED
      BY <2>1, <2>3, <3>1, <3>2 DEF ReaderInv, Begun, Behind, BegunAt, OverAt
  <2>7. QED
    BY <2>1, <2>4, <2>5, <2>6 DEF Marks
<1>5. CASE StartPerf
  BY <1>5 DEF StartPerf, ReaderInv, Begun, Behind, BegunAt, OverAt, harnessVars
<1>6. CASE CreateAck
  BY <1>6 DEF CreateAck, ReaderInv, Begun, Behind, BegunAt, OverAt, harnessVars
<1>7. CASE FillAck
  BY <1>7 DEF FillAck, ReaderInv, Begun, Behind, BegunAt, OverAt, harnessVars
<1>8. CASE StopPerf
  BY <1>8
     DEF StopPerf, StopWindow, ReaderInv, Begun, Behind, BegunAt, OverAt,
         harnessVars
<1>9. CASE Fold
  BY <1>9 DEF Fold, ReaderInv, Begun, Behind, BegunAt, OverAt, harnessVars
<1>10. CASE ReaderFails
  BY <1>10 DEF ReaderFails, ReaderInv, Begun, Behind, BegunAt, OverAt, harnessVars
<1>11. CASE NextUnit
  BY <1>11 DEF NextUnit, ReaderInv
<1>12. CASE UNCHANGED windowVars
  BY <1>12
     DEF windowVars, harnessVars, readerVars, ReaderInv, Begun, Behind, BegunAt, OverAt
<1>13. QED
  BY <1>1, <1>2, <1>3, <1>4, <1>5, <1>6, <1>7, <1>8, <1>9, <1>10, <1>11, <1>12
     DEF WindowNext, HarnessStep, ReaderStep

(* perf samples for the open window, and for no other of the unit.            *)
LEMMA PerfStep ==
    ASSUME WindowTypeOK, PipeInv, ReaderInv, PerfInv, AckInv, [WindowNext]_windowVars
    PROVE  PerfInv'
PROOF
<1>0. unit \in Int /\ w \in Int /\ handled \in Tokens \cup {None} /\ active \in Tokens \cup {None}
  BY WindowsLength DEF WindowTypeOK
<1>a. /\ \A t \in Tokens : t[1] \in Int /\ t[2] \in Int
      /\ sampling \subseteq Tokens /\ folding \subseteq Tokens
  BY WindowsLength DEF Tokens, WindowTypeOK
<1>1. CASE OpenPublished \/ PrintBegin \/ SeeAck \/ AckTimeout \/ Close
  <2>1. /\ UNCHANGED <<unit, w, readerVars>> /\ harness # "gone"
    BY <1>1 DEF OpenPublished, PrintBegin, SeeAck, AckTimeout, Close
  <2>2. QED
    BY <1>0, <2>1 DEF PerfInv, Behind, OverAt, readerVars
<1>2. CASE AfterWindow
  <2>1. /\ UNCHANGED <<unit, readerVars>> /\ harness # "gone"
        /\ (w' = w + 1) \/ (w' = w /\ harness' = "gone")
    BY <1>2 DEF AfterWindow, LeaveWindow
  <2>2. active # None /\ ~ Behind(active)' => ~ Behind(active)
    BY <1>0, <1>a, <2>1 DEF Behind, OverAt, readerVars
  <2>3. QED
    BY <2>1, <2>2 DEF PerfInv, readerVars
<1>3. CASE Gone
  <2>1. UNCHANGED <<unit, w, readerVars>> /\ harness' = "gone"
    BY <1>3 DEF Gone
  <2>2. QED
    BY <1>0, <1>a, <2>1 DEF PerfInv, Behind, OverAt, readerVars
<1>4. CASE ReadMark
  <2>1. /\ UNCHANGED <<unit, harness, w, word, active, sampling, folding>>
        /\ reader = "reading"
        /\ reader' \in {"starting", "reading", "stopping", "done", "flushing"}
    <3>1. output # << >> /\ Head(output) \in Marks
      BY <1>4, OutputTaken DEF ReadMark, WindowTypeOK
    <3>2. Head(output).mark \in {"begin", "end", "eof"}
      BY <3>1 DEF Marks
    <3>3. QED
      BY <1>4, <3>2 DEF ReadMark, harnessVars
  <2>2. QED
    BY <2>1 DEF PerfInv, Behind, OverAt
<1>5. CASE StartPerf
  <2>1. /\ UNCHANGED <<unit, harness, w, word, folding>> /\ reader = "starting" /\ reader' = "acking"
        /\ active = None /\ handled \in Tokens /\ handled[1] = unit
    BY <1>5 DEF StartPerf, harnessVars, ReaderInv
  <2>2. \A t \in sampling \cup folding : t[1] # unit
    BY <1>a, <2>1, NoneIsNoToken DEF PerfInv
  <2>3. CASE active' = handled /\ sampling' = sampling \cup {handled}
    BY <1>0, <2>1, <2>2, <2>3 DEF PerfInv
  <2>4. CASE UNCHANGED <<active, sampling>>
    BY <2>1, <2>2, <2>4 DEF PerfInv
  <2>5. QED
    BY <1>5, <2>3, <2>4 DEF StartPerf
<1>6. CASE CreateAck
  BY <1>6 DEF CreateAck, PerfInv, Behind, OverAt, harnessVars
<1>7. CASE FillAck
  BY <1>7 DEF FillAck, PerfInv, Behind, OverAt, harnessVars
<1>8. CASE StopPerf
  <2>1. /\ UNCHANGED <<unit, harness, w, active>> /\ active # None /\ active \in Tokens
        /\ sampling' = sampling \ {active} /\ folding' = folding \cup {active}
        /\ reader' \in {"folding", "draining"} /\ reader \notin {"folding", "draining"}
        /\ active[1] = unit /\ Behind(active)
    BY <1>8 DEF StopPerf, StopWindow, harnessVars, ReaderInv, Behind, OverAt
  <2>2. QED
    BY <1>0, <2>1 DEF PerfInv, Behind, OverAt
<1>9. CASE Fold
  <2>1. /\ UNCHANGED <<unit, harness, w, sampling>> /\ active' = None
        /\ folding' = folding \ {active} /\ reader \in {"folding", "draining"}
    BY <1>9 DEF Fold, harnessVars
  <2>2. QED
    BY <2>1 DEF PerfInv
<1>10. CASE ReaderFails
  BY <1>10 DEF ReaderFails, PerfInv, Behind, OverAt, harnessVars
<1>11. CASE NextUnit
  <2>1. unit' = unit + 1 /\ UNCHANGED <<sampling, folding>> /\ active' = None
    BY <1>11 DEF NextUnit
  <2>2. QED
    BY <1>0, <1>a, <2>1 DEF PerfInv
<1>12. CASE UNCHANGED windowVars
  BY <1>12 DEF windowVars, harnessVars, readerVars, PerfInv, Behind, OverAt
<1>13. QED
  BY <1>1, <1>2, <1>3, <1>4, <1>5, <1>6, <1>7, <1>8, <1>9, <1>10, <1>11, <1>12
     DEF WindowNext, HarnessStep, ReaderStep

(* An answer the harness takes is about its window, and still true.           *)
LEMMA AckStep ==
    ASSUME WindowTypeOK, PipeInv, ReaderInv, AckInv, [WindowNext]_windowVars
    PROVE  AckInv'
PROOF
<1>0. unit \in Int /\ w \in Int /\ handled \in Tokens \cup {None} /\ active \in Tokens \cup {None}
  BY WindowsLength DEF WindowTypeOK
<1>a. /\ \A t \in Tokens : t[1] \in Int /\ t[2] \in Int
      /\ \A a \in acks : a.token \in Tokens
  BY WindowsLength DEF Tokens, WindowTypeOK, AckFiles
<1>b. Token[1] = unit /\ Token[2] = w
  BY DEF Token
<1>1. CASE OpenPublished
  <2>1. /\ UNCHANGED <<unit, w, word, acks, active, Token>> /\ harness = "between" /\ harness' = "open"
        /\ w \in DOMAIN Windows /\ word = "none"
    BY <1>1 DEF OpenPublished, readerVars, Token, AckInv
  <2>2. QED
    BY <2>1 DEF AckInv, Begun, Behind, BegunAt, OverAt
<1>2. CASE PrintBegin
  <2>1. /\ UNCHANGED <<unit, w, word, acks, active, Token>> /\ harness = "between" /\ harness' = "asking"
        /\ w \in DOMAIN Windows /\ word = "none" /\ Windows[w] = "profiled"
    BY <1>2 DEF PrintBegin, readerVars, Token, AckInv
  <2>2. QED
    BY <2>1 DEF AckInv, Begun, Behind, BegunAt, OverAt, Announced
<1>3. CASE SeeAck
  <2>1. PICK a \in acks : a.token = Token /\ word' = a.word /\ acks' = acks \ {a}
    BY <1>3 DEF SeeAck
  <2>2. /\ UNCHANGED <<unit, w, active, Token>> /\ harness = "asking" /\ harness' = "open"
    BY <1>3 DEF SeeAck, readerVars, Token
  <2>3. word' = "recording" => active = Token
    <3>1. ~ Behind(Token)
      BY <1>0, <1>b, <2>2 DEF Behind, OverAt
    <3>2. QED
      BY <2>1, <3>1 DEF AckInv
  <2>4. QED
    BY <2>1, <2>2, <2>3 DEF AckInv, Begun, Behind, BegunAt, OverAt
<1>4. CASE AckTimeout
  <2>1. /\ UNCHANGED <<unit, w, acks, active, Token>> /\ harness = "asking" /\ harness' = "open"
        /\ word' = "silent"
    BY <1>4 DEF AckTimeout, readerVars, Token
  <2>2. QED
    BY <2>1 DEF AckInv, Begun, Behind, BegunAt, OverAt
<1>5. CASE Close
  <2>1. /\ UNCHANGED <<unit, w, acks, active, Token, word>> /\ harness = "open" /\ harness' \in {"closed", "failed"}
    BY <1>5 DEF Close, readerVars, Token
  <2>2. QED
    BY <2>1 DEF AckInv, Begun, Behind, BegunAt, OverAt
<1>6. CASE AfterWindow
  <2>0. harness \in {"closed", "failed"} /\ UNCHANGED <<unit, acks, active>>
    BY <1>6 DEF AfterWindow, LeaveWindow, readerVars
  <2>1. CASE harness = "closed"
    <3>1. harness' = "between" /\ w' = w + 1 /\ word' = "none"
      BY <1>6, <2>1 DEF AfterWindow, LeaveWindow
    <3>2. \A a \in acks : a.token[1] = unit => a.token[2] < w'
      BY <1>0, <1>a, <2>1, <3>1 DEF AckInv, Begun, BegunAt
    <3>3. \A a \in acks : a.token # Token'
      BY <1>0, <1>a, <2>0, <3>1, <3>2 DEF Token
    <3>4. QED
      BY <2>0, <3>1, <3>2, <3>3 DEF AckInv, Begun, BegunAt
  <2>2. CASE harness = "failed"
    <3>1. harness' = "gone" /\ w' = w
      BY <1>6, <2>2 DEF AfterWindow, LeaveWindow
    <3>2. QED
      BY <2>0, <2>2, <3>1 DEF AckInv, Begun, Behind, BegunAt, OverAt
  <2>3. QED
    BY <2>0, <2>1, <2>2
<1>7. CASE Gone
  <2>1. UNCHANGED <<unit, w, acks, active>> /\ harness' = "gone"
    BY <1>7 DEF Gone, readerVars
  <2>2. QED
    BY <1>0, <1>a, <2>1 DEF AckInv, Begun, Behind, BegunAt, OverAt
<1>8. CASE ReadMark
  <2>1. UNCHANGED <<unit, harness, w, word, acks, active, Token, Announced>>
    BY <1>8 DEF ReadMark, harnessVars, Token, Announced
  <2>2. QED
    BY <2>1 DEF AckInv, Begun, Behind, BegunAt, OverAt
<1>9. CASE StartPerf
  <2>1. /\ UNCHANGED <<unit, harness, w, word, acks, Token, Announced>>
        /\ active = None
    BY <1>9 DEF StartPerf, harnessVars, Token, Announced, ReaderInv
  <2>2. harness \in {"asking", "open", "closed", "failed"} => Token # None
    BY <1>0, TokenIsOne, NoneIsNoToken DEF AckInv
  <2>3. \A a \in acks : a.token # None
    BY <1>a, NoneIsNoToken
  <2>4. QED
    BY <2>1, <2>2, <2>3 DEF AckInv, Begun, Behind, BegunAt, OverAt
<1>10. CASE CreateAck
  <2>1. /\ UNCHANGED <<unit, harness, w, word, active, Token, Announced>>
        /\ handled \in Tokens /\ handled[1] = unit /\ Begun(handled)
    BY <1>10 DEF CreateAck, harnessVars, Token, Announced, ReaderInv
  <2>2. acks' = acks \/ acks' = acks \cup {[token |-> handled, word |-> "empty"]}
    BY <1>10 DEF CreateAck
  <2>3. QED
    BY <1>0, <2>1, <2>2 DEF AckInv, Begun, Behind, BegunAt, OverAt
<1>11. CASE FillAck
  <2>1. /\ UNCHANGED <<unit, harness, w, word, active, Token, Announced>>
        /\ answer = "recording" => active = handled
    BY <1>11 DEF FillAck, harnessVars, Token, Announced, ReaderInv
  <2>2. ASSUME NEW b \in acks'
        PROVE  /\ b.token[1] <= unit /\ (b.token[1] = unit => Begun(b.token))
               /\ b.token = Token /\ b.word = "recording" /\ ~ Behind(Token) => active = Token
    <3>1. PICK a \in acks : b.token = a.token /\ (b = a \/ (a.token = handled /\ b.word = answer))
      BY <1>11, FilledAcks
    <3>2. QED
      BY <2>1, <3>1 DEF AckInv
  <2>3. QED
    BY <2>1, <2>2 DEF AckInv, Begun, Behind, BegunAt, OverAt
<1>12. CASE StopPerf
  <2>1. UNCHANGED <<unit, harness, w, word, acks, active, Token, Announced>>
    BY <1>12 DEF StopPerf, StopWindow, harnessVars, Token, Announced
  <2>2. QED
    BY <2>1 DEF AckInv, Begun, Behind, BegunAt, OverAt
<1>13. CASE Fold
  <2>1. /\ UNCHANGED <<unit, harness, w, word, acks, Token, Announced>>
        /\ Behind(active) /\ active # None
    BY <1>13 DEF Fold, harnessVars, Token, Announced, ReaderInv, Behind, OverAt
  <2>2. harness \in {"open", "closed", "failed"} => active # Token
    BY <1>0, <1>b, <2>1 DEF Behind, OverAt
  <2>3. ~ Behind(Token) => active # Token
    BY <2>1
  <2>4. QED
    BY <2>1, <2>2, <2>3 DEF AckInv, Begun, Behind, BegunAt, OverAt
<1>14. CASE ReaderFails
  <2>1. UNCHANGED <<unit, harness, w, word, acks, active, Token, Announced>>
    BY <1>14 DEF ReaderFails, harnessVars, Token, Announced
  <2>2. QED
    BY <2>1 DEF AckInv, Begun, Behind, BegunAt, OverAt
<1>15. CASE NextUnit
  <2>1. unit' = unit + 1 /\ acks' = acks /\ harness' = "between" /\ word' = "none"
    BY <1>15 DEF NextUnit
  <2>2. \A a \in acks : a.token[1] < unit' /\ a.token # Token'
    BY <1>0, <1>a, <2>1 DEF AckInv, Token
  <2>3. QED
    BY <1>0, <1>a, <2>1, <2>2 DEF AckInv
<1>16. CASE UNCHANGED windowVars
  <2>1. UNCHANGED <<unit, harness, w, word, acks, active, Token, Announced>>
    BY <1>16 DEF windowVars, harnessVars, readerVars, Token, Announced
  <2>2. QED
    BY <2>1 DEF AckInv, Begun, Behind, BegunAt, OverAt
<1>17. QED
  BY <1>1, <1>2, <1>3, <1>4, <1>5, <1>6, <1>7, <1>8, <1>9, <1>10, <1>11, <1>12,
     <1>13, <1>14, <1>15, <1>16
     DEF WindowNext, HarnessStep, ReaderStep

-----------------------------------------------------------------------------
(* What is said later keeps the marks, their order and what comes first.      *)
LEMMA AppendMarks ==
    ASSUME NEW q \in Seq(Marks), NEW u, NEW x, NEW h, MarksAre(q, u, x, h),
           NEW m \in Marks,
           m.mark \in {"begin", "end"} => m.token \in Tokens /\ m.token[1] = u,
           m.mark = "begin" => BegunAt(m.token, x, h),
           m.mark = "end" => OverAt(m.token, x, h),
           m.mark = "eof" => h = "gone"
    PROVE  MarksAre(Append(q, m), u, x, h)
PROOF
<1>1. ASSUME NEW k \in 1 .. Len(Append(q, m))
      PROVE  Append(q, m)[k] = m \/ (k \in 1 .. Len(q) /\ Append(q, m)[k] = q[k])
  BY Appended
<1> DEFINE all == Append(q, m)
<1> HIDE DEF all
<1>2. QED
  BY <1>1 DEF MarksAre, all

(* Marks that were of windows so far are when the harness has gone on,        *)
LEMMA LaterMarks ==
    ASSUME NEW q, NEW u, NEW x \in Int, NEW h, MarksAre(q, u, x, h),
           NEW x2 \in Int, NEW h2,
           \/ x2 = x /\ h2 = h
           \/ x2 = x + 1 /\ h2 = "between" /\ h # "gone"
           \/ x2 = x /\ h2 = "gone"
           \/ x2 = x /\ h2 # "between" /\ h # "gone"
    PROVE  MarksAre(q, u, x2, h2)
PROOF
<1>1. ASSUME NEW t \in Tokens
      PROVE  /\ BegunAt(t, x, h) => BegunAt(t, x2, h2)
             /\ OverAt(t, x, h) => OverAt(t, x2, h2)
  <2>1. t[2] \in Int
    BY WindowsLength DEF Tokens
  <2>2. QED
    BY <2>1 DEF BegunAt, OverAt
<1>2. h = "gone" => h2 = "gone"
  OBVIOUS
<1>3. QED
  BY <1>1, <1>2 DEF MarksAre

(* stay in their order when a mark is added after them,                       *)
LEMMA AppendOrder ==
    ASSUME NEW q \in Seq(Marks), NEW t, NEW in, OrderIs(q, t, in),
           NEW m \in Marks, NEW t2, NEW in2,
           \/ m \in {End(t), Eof} /\ m.mark # "begin"
           \/ ~ in /\ in2 /\ m.token = t2
    PROVE  OrderIs(Append(q, m), t2, in2)
PROOF
<1> DEFINE all == Append(q, m)
<1>1. /\ Len(q) \in Nat /\ Len(all) = Len(q) + 1 /\ all[Len(q) + 1] = m
      /\ \A k \in 1 .. Len(q) : all[k] = q[k]
  BY Appended
<1> HIDE DEF all
<1>2. ASSUME NEW k \in 1 .. Len(all), all[k].mark = "begin"
      PROVE  IF k < Len(all) THEN all[k + 1] \in {End(all[k].token), Eof}
             ELSE all[k].token = t2 /\ in2
  <2>1. CASE k = Len(q) + 1
    <3>1. m.mark = "begin"
      BY <1>1, <1>2, <2>1
    <3>2. QED
      BY <1>1, <2>1, <3>1
  <2>2. CASE k = Len(q)
    <3>1. q[k].token = t /\ in
      BY <1>1, <1>2, <2>2 DEF OrderIs
    <3>2. QED
      BY <1>1, <2>2, <3>1
  <2>3. CASE k < Len(q)
    <3>1. q[k + 1] \in {End(q[k].token), Eof} /\ k \in 1 .. Len(q) /\ k + 1 \in 1 .. Len(q)
      BY <1>1, <1>2, <2>3 DEF OrderIs
    <3>2. QED
      BY <1>1, <2>3, <3>1
  <2>4. QED
    BY <1>1, <2>1, <2>2, <2>3
<1>3. QED
  BY <1>2 DEF OrderIs, all

(* and so does the one the reader meets next.                                 *)
LEMMA AppendFront ==
    ASSUME NEW q \in Seq(Marks), NEW d, NEW t, NEW in, FrontIs(q, d, t, in),
           NEW m \in Marks, NEW t2, NEW in2,
           m \in {End(t), Eof} \/ ~ in
    PROVE  FrontIs(Append(q, m), d, t2, in2)
PROOF
<1> DEFINE all == Append(q, m)
<1>1. /\ all # << >> /\ all[Len(q) + 1] = m
      /\ \A k \in 1 .. Len(q) : all[k] = q[k]
      /\ Len(q) \in Nat /\ (q = << >> <=> Len(q) = 0)
  BY Appended
<1> HIDE DEF all
<1>2. CASE q = << >>
  BY <1>1, <1>2 DEF FrontIs, all
<1>3. CASE q # << >>
  <2>1. 1 \in 1 .. Len(q)
    BY <1>1, <1>3
  <2>2. QED
    BY <1>1, <1>3, <2>1 DEF FrontIs, all
<1>4. QED
  BY <1>2, <1>3

(* The end of a window is said before anything of the next.                   *)
LEMMA PipeAfterWindow ==
    ASSUME WindowTypeOK, PipeInv, AckInv, AfterWindow
    PROVE  PipeInv'
PROOF
<1>0. /\ w \in Int /\ harness \in {"closed", "failed"} /\ UNCHANGED <<unit, handled, Inside>>
      /\ Token \in Tokens /\ Token[1] = unit /\ Token[2] = w
      /\ End(Token) \in Marks /\ Eof \in Marks /\ output \in Seq(Marks)
      /\ (harness' = "between" /\ w' = w + 1) \/ (harness' = "gone" /\ w' = w)
  BY WindowsLength, TokenIsOne, MarkFields
     DEF AfterWindow, LeaveWindow, WindowTypeOK, AckInv, readerVars, Inside
<1> DEFINE announced == Windows[w] = "profiled"
<1>1. /\ MarksAre(output, unit, w', harness')
      /\ OrderIs(output, Token, announced)
      /\ Inside => FrontIs(output, handled, Token, announced)
  <2>1. MarksAre(output, unit, w', harness')
    BY <1>0, LaterMarks DEF PipeInv
  <2>2. Announced <=> announced
    BY <1>0 DEF Announced
  <2>3. OrderIs(output, Token, announced)
    BY <2>2 DEF PipeInv, OrderIs
  <2>4. Inside => FrontIs(output, handled, Token, announced)
    BY <2>2 DEF PipeInv, FrontIs
  <2>5. QED
    BY <2>1, <2>3, <2>4
<1>2. OverAt(Token, w', harness')
  BY <1>0 DEF OverAt
<1>3. /\ Said \in Seq(Marks)
      /\ MarksAre(Said, unit, w', harness')
      /\ OrderIs(Said, Token', Announced')
      /\ Inside => FrontIs(Said, handled, Token', Announced')
  <2>1. CASE announced
    <3>1. Said = Append(output, End(Token))
      BY <2>1 DEF Said
    <3>2. Said \in Seq(Marks)
      BY <1>0, <3>1, Appended
    <3>3. MarksAre(Said, unit, w', harness')
      BY <1>0, <1>1, <1>2, <3>1, AppendMarks, MarkFields
    <3>4. OrderIs(Said, Token', Announced')
      BY <1>0, <1>1, <3>1, AppendOrder, MarkFields
    <3>5. Inside => FrontIs(Said, handled, Token', Announced')
      BY <1>0, <1>1, <3>1, AppendFront
    <3>6. QED
      BY <3>2, <3>3, <3>4, <3>5
  <2>2. CASE ~ announced
    <3>1. Said = output
      BY <2>2 DEF Said
    <3>2. OrderIs(output, Token', Announced')
      BY <1>1, <2>2 DEF OrderIs
    <3>3. Inside => FrontIs(output, handled, Token', Announced')
      BY <1>1, <2>2 DEF FrontIs
    <3>4. QED
      BY <1>0, <1>1, <3>1, <3>2, <3>3
  <2>3. QED
    BY <2>1, <2>2
<1>4. CASE output' = Said
  BY <1>0, <1>3, <1>4 DEF PipeInv
<1>5. CASE output' = Append(Said, Eof) /\ harness' = "gone"
  <2>1. ~ Announced'
    BY <1>5 DEF Announced
  <2>2. MarksAre(Append(Said, Eof), unit, w', harness')
    BY <1>0, <1>3, <1>5, AppendMarks, MarkFields
  <2>3. OrderIs(Append(Said, Eof), Token', Announced')
    BY <1>0, <1>3, AppendOrder, MarkFields
  <2>4. Inside => FrontIs(Append(Said, Eof), handled, Token', Announced')
    BY <1>0, <1>3, AppendFront
  <2>5. QED
    BY <1>0, <1>5, <2>2, <2>3, <2>4 DEF PipeInv
<1>6. QED
  BY <1>4, <1>5 DEF AfterWindow, LeaveWindow

(* The reader takes the marks in the order they were said.                    *)
LEMMA PipeReadMark ==
    ASSUME WindowTypeOK, PipeInv, ReadMark
    PROVE  PipeInv'
PROOF
<1>0. /\ output # << >> /\ output' = Tail(output) /\ reader = "reading"
      /\ UNCHANGED <<unit, w, harness, active, Token, Announced>>
      /\ output \in Seq(Marks)
  BY DEF ReadMark, harnessVars, Token, Announced, WindowTypeOK
<1>1. /\ Len(output') = Len(output) - 1 /\ Len(output) \in Nat /\ Len(output) > 0
      /\ Head(output) = output[1] /\ output[1] \in Marks
      /\ \A k \in 1 .. Len(output) - 1 : output'[k] = output[k + 1]
      /\ output' = << >> <=> Len(output) = 1
  BY <1>0, OutputTaken
<1>2. \A k \in 1 .. Len(output') :
         output'[k] = output[k + 1] /\ k + 1 \in 1 .. Len(output) /\ (k < Len(output') <=> k + 1 < Len(output))
  BY <1>1
<1>3. MarksAre(output', unit, w, harness)
  BY <1>2 DEF PipeInv, MarksAre
<1>4. OrderIs(output', Token, Announced)
  <2>1. ASSUME NEW k \in 1 .. Len(output'), output'[k].mark = "begin"
        PROVE  IF k < Len(output') THEN output'[k + 1] \in {End(output'[k].token), Eof}
               ELSE output'[k].token = Token /\ Announced
    <3>1. output[k + 1].mark = "begin" /\ k + 1 \in 1 .. Len(output)
      BY <1>2, <2>1
    <3>2. IF k + 1 < Len(output) THEN output[(k + 1) + 1] \in {End(output[k + 1].token), Eof}
          ELSE output[k + 1].token = Token /\ Announced
      BY <3>1 DEF PipeInv, OrderIs
    <3>3. k < Len(output') => output'[k + 1] = output[(k + 1) + 1]
      BY <1>1, <1>2
    <3>4. QED
      BY <1>2, <3>2, <3>3
  <2>2. QED
    BY <2>1 DEF OrderIs
<1>5. Inside' => FrontIs(output', handled', Token, Announced)
  <2>1. CASE output[1].mark = "begin"
    <3>1. handled' = output[1].token
      BY <1>0, <1>1, <2>1 DEF ReadMark
    <3>2. IF 1 < Len(output) THEN output[1 + 1] \in {End(output[1].token), Eof}
          ELSE output[1].token = Token /\ Announced
      BY <1>1, <2>1 DEF PipeInv, OrderIs
    <3>3. 1 < Len(output) => output'[1] = output[1 + 1]
      BY <1>1
    <3>4. QED
      BY <1>1, <3>1, <3>2, <3>3 DEF FrontIs
  <2>2. CASE output[1].mark = "end"
    <3>1. reader' = IF active = None THEN "reading" ELSE "stopping"
      BY <1>0, <1>1, <2>2 DEF ReadMark
    <3>2. QED
      BY <1>0, <3>1 DEF Inside
  <2>3. CASE output[1].mark = "eof"
    <3>1. reader' = IF active = None THEN "done" ELSE "flushing"
      BY <1>0, <1>1, <2>3 DEF ReadMark
    <3>2. QED
      BY <1>0, <3>1 DEF Inside
  <2>4. QED
    BY <1>1, <2>1, <2>2, <2>3 DEF Marks
<1>6. QED
  BY <1>0, <1>3, <1>4, <1>5 DEF PipeInv

(* Every step keeps what is in the output.                                      *)
LEMMA OutputStep ==
    ASSUME WindowTypeOK, PipeInv, ReaderInv, AckInv, [WindowNext]_windowVars
    PROVE  PipeInv'
PROOF
<1>0. unit \in Int /\ w \in Int /\ output \in Seq(Marks)
  BY WindowsLength DEF WindowTypeOK
<1>1. CASE OpenPublished
  <2>1. /\ UNCHANGED <<unit, w, output, handled, Inside, Token>> /\ harness = "between" /\ harness' = "open"
        /\ ~ Announced
    BY <1>1 DEF OpenPublished, readerVars, Inside, Token, Announced
  <2>2. MarksAre(output, unit, w, harness')
    BY <1>0, <2>1, LaterMarks DEF PipeInv
  <2>3. OrderIs(output, Token, Announced')
    BY <2>1 DEF PipeInv, OrderIs
  <2>4. Inside => FrontIs(output, handled, Token, Announced')
    BY <2>1 DEF PipeInv, FrontIs
  <2>5. QED
    BY <2>1, <2>2, <2>3, <2>4 DEF PipeInv
<1>2. CASE PrintBegin
  <2>1. /\ UNCHANGED <<unit, w, handled, Inside, Token>> /\ harness = "between" /\ harness' = "asking"
        /\ ~ Announced /\ Announced' /\ output' = Append(output, Begin(Token))
        /\ Token \in Tokens /\ Token[1] = unit /\ Token[2] = w
    BY <1>2, TokenIsOne DEF PrintBegin, readerVars, Inside, Token, Announced
  <2>2. Begin(Token) \in Marks /\ Begin(Token).mark = "begin" /\ Begin(Token).token = Token
    BY <2>1, MarkFields
  <2>3. MarksAre(output, unit, w, harness')
    BY <1>0, <2>1, LaterMarks DEF PipeInv
  <2>4. MarksAre(Append(output, Begin(Token)), unit, w, harness')
    <3>1. BegunAt(Token, w, harness')
      BY <2>1 DEF BegunAt
    <3>2. QED
      BY <1>0, <2>1, <2>2, <2>3, <3>1, AppendMarks
  <2>5. OrderIs(Append(output, Begin(Token)), Token, Announced')
    <3>1. OrderIs(output, Token, FALSE)
      BY <2>1 DEF PipeInv, OrderIs
    <3>2. OrderIs(Append(output, Begin(Token)), Token, TRUE)
      BY <1>0, <2>2, <3>1, AppendOrder
    <3>3. QED
      BY <2>1, <3>2 DEF OrderIs
  <2>6. Inside => FrontIs(Append(output, Begin(Token)), handled, Token, Announced')
    <3>1. Inside => FrontIs(output, handled, Token, FALSE)
      BY <2>1 DEF PipeInv, FrontIs
    <3>2. Inside => FrontIs(Append(output, Begin(Token)), handled, Token, TRUE)
      BY <1>0, <2>2, <3>1, AppendFront
    <3>3. QED
      BY <2>1, <3>2 DEF FrontIs
  <2>7. QED
    BY <2>1, <2>4, <2>5, <2>6 DEF PipeInv
<1>3. CASE SeeAck \/ AckTimeout \/ Close
  <2>1. /\ UNCHANGED <<unit, w, output, handled, Inside, Token>> /\ harness' \notin {"between", "gone"}
        /\ harness # "gone" /\ (Announced' <=> Announced)
    BY <1>3 DEF SeeAck, AckTimeout, Close, readerVars, Inside, Token, Announced
  <2>2. MarksAre(output, unit, w, harness')
    BY <1>0, <2>1, LaterMarks DEF PipeInv
  <2>3. OrderIs(output, Token, Announced')
    BY <2>1 DEF PipeInv, OrderIs
  <2>4. Inside => FrontIs(output, handled, Token, Announced')
    BY <2>1 DEF PipeInv, FrontIs
  <2>5. QED
    BY <2>1, <2>2, <2>3, <2>4 DEF PipeInv
<1>4. CASE AfterWindow
  BY <1>4, PipeAfterWindow
<1>5. CASE Gone
  <2>1. /\ UNCHANGED <<unit, w, handled, Inside, Token>> /\ harness' = "gone"
        /\ output' = Append(output, Eof) /\ Eof \in Marks /\ Eof.mark = "eof"
    BY <1>5, MarkFields DEF Gone, readerVars, Inside, Token
  <2>2. MarksAre(output, unit, w, harness')
    BY <1>0, <2>1, LaterMarks DEF PipeInv
  <2>3. MarksAre(Append(output, Eof), unit, w, harness')
    BY <1>0, <2>1, <2>2, AppendMarks
  <2>4. OrderIs(Append(output, Eof), Token, Announced')
    BY <1>0, <2>1, AppendOrder DEF PipeInv
  <2>5. Inside => FrontIs(Append(output, Eof), handled, Token, Announced')
    BY <1>0, <2>1, AppendFront DEF PipeInv
  <2>6. QED
    BY <2>1, <2>3, <2>4, <2>5 DEF PipeInv
<1>6. CASE ReadMark
  BY <1>6, PipeReadMark
<1>7. CASE StartPerf \/ CreateAck \/ FillAck \/ StopPerf \/ Fold \/ ReaderFails
  <2>1. /\ UNCHANGED <<unit, w, harness, output, handled, Token, Announced>>
        /\ Inside' => Inside
    BY <1>7
       DEF StartPerf, CreateAck, FillAck, StopPerf, StopWindow, Fold,
           ReaderFails, harnessVars, Token, Announced, Inside
  <2>2. QED
    BY <2>1 DEF PipeInv
<1>8. CASE NextUnit
  <2>1. output' = << >> /\ ~ Inside'
    BY <1>8 DEF NextUnit, Inside
  <2>2. QED
    BY <2>1 DEF PipeInv, MarksAre, OrderIs
<1>9. CASE UNCHANGED windowVars
  <2>1. UNCHANGED <<unit, w, harness, output, handled, Token, Announced, Inside>>
    BY <1>9 DEF windowVars, harnessVars, readerVars, Token, Announced, Inside
  <2>2. QED
    BY <2>1 DEF PipeInv
<1>10. QED
  BY <1>1, <1>2, <1>3, <1>4, <1>5, <1>6, <1>7, <1>8, <1>9
     DEF WindowNext, HarnessStep, ReaderStep

-----------------------------------------------------------------------------
(* The invariant holds of every behaviour.                                    *)
LEMMA WindowsHold == WindowSpec => []WindowInv
PROOF
<1>1. WindowInit => WindowInv
  <2>1. ASSUME WindowInit
        PROVE  WindowTypeOK
    <3>1. 1 \in 1 .. MaxUnits /\ 1 \in 1 .. Len(Windows) + 1 /\ << >> \in Seq(Marks)
      BY WindowsLength
    <3>2. QED
      BY <2>1, <3>1 DEF WindowInit, WindowTypeOK
  <2>2. ASSUME WindowInit
        PROVE  PipeInv /\ ReaderInv /\ PerfInv /\ AckInv
    BY <2>2
       DEF WindowInit, PipeInv, MarksAre, OrderIs, Inside, ReaderInv, PerfInv, AckInv
  <2>3. QED
    BY <2>1, <2>2 DEF WindowInv
<1>2. WindowInv /\ [WindowNext]_windowVars => WindowInv'
  BY WindowTypeStep, OutputStep, ReaderStepInv, PerfStep, AckStep DEF WindowInv
<1>3. QED
  BY <1>1, <1>2, PTL DEF WindowSpec

(* Every variable keeps its type, whoever is late, killed or fails.           *)
THEOREM ProfileTypeCorrect == WindowSpec => []WindowTypeOK
PROOF
<1>1. WindowInv => WindowTypeOK
  BY DEF WindowInv
<1>2. QED
  BY <1>1, WindowsHold, PTL

(* A window whose record says that perf was recording was sampled by its own  *)
(* perf from before it opened, and no perf of the unit outlives the reading   *)
(* of its output (PerfWindow and the acknowledgement of profile_window.py),   *)
(* for any list of windows and any number of units that share the directory.  *)
THEOREM ProfileIsOfItsWindow == WindowSpec => []ProfileIsItsWindow
PROOF
<1>1. WindowInv => ProfileIsItsWindow
  <2>1. ASSUME WindowInv, harness = "open", word = "recording"
        PROVE  Token \in sampling
    <3>1. active = Token /\ w \in DOMAIN Windows
      BY <2>1 DEF WindowInv, AckInv
    <3>2. Token # None /\ ~ Behind(Token)
      <4>1. Token \in Tokens /\ Token[2] = w /\ w \in Int
        BY <2>1, <3>1, TokenIsOne, WindowsLength DEF WindowInv, WindowTypeOK
      <4>2. QED
        BY <2>1, <4>1, NoneIsNoToken DEF Behind, OverAt
    <3>3. QED
      BY <2>1, <3>1, <3>2 DEF WindowInv, PerfInv
  <2>2. ASSUME WindowInv, reader = "done"
        PROVE  \A t \in sampling : t[1] # unit
    <3>1. active = None /\ sampling \subseteq Tokens
      BY <2>2 DEF WindowInv, ReaderInv, WindowTypeOK
    <3>2. QED
      BY <2>2, <3>1, NoneIsNoToken DEF WindowInv, PerfInv
  <2>3. QED
    BY <2>1, <2>2 DEF ProfileIsItsWindow, ProfileCoversWindow, PerfEndsWithUnit
<1>2. QED
  BY <1>1, WindowsHold, PTL

(* A published window is loaded only by a perf whose end mark is printed and  *)
(* read next: the handshake keeps perf off the windows around it.             *)
THEOREM ProfileLoadIsEnding == WindowSpec => []PublishedLoadIsEnding
PROOF
<1>1. WindowInv => PublishedLoadIsEnding
  <2>1. SUFFICES ASSUME WindowInv, harness = "open", Windows[w] = "published",
                        NEW t \in sampling \cup folding, t[1] = unit
                 PROVE  Ending(t)
    BY DEF PublishedLoadIsEnding
  <2>2. active = t /\ active # None /\ handled = t /\ output \in Seq(Marks)
    <3>1. active = t /\ t \in Tokens
      BY <2>1 DEF WindowInv, PerfInv, WindowTypeOK
    <3>2. QED
      BY <2>1, <3>1, NoneIsNoToken DEF WindowInv, ReaderInv, WindowTypeOK
  <2>3. reader \in {"reading", "starting", "acking", "filling", "stopping", "folding", "flushing",
                    "draining", "done", "dead"}
    BY <2>1 DEF WindowInv, WindowTypeOK
  <2>4. reader \notin {"flushing", "draining", "done", "starting"}
    BY <2>1, <2>2 DEF WindowInv, ReaderInv
  <2>5. CASE Inside
    <3>1. ~ Announced
      BY <2>1 DEF Announced
    <3>2. output # << >> /\ output[1] \in {End(t), Eof}
      BY <2>1, <2>2, <2>5, <3>1 DEF WindowInv, PipeInv, FrontIs
    <3>3. 1 \in 1 .. Len(output) /\ DOMAIN output = 1 .. Len(output)
      BY <2>2, <3>2
    <3>4. output[1] # Eof
      BY <2>1, <3>3, MarkFields DEF WindowInv, PipeInv, MarksAre
    <3>5. QED
      BY <3>2, <3>3, <3>4 DEF Ending, ToSet
  <2>6. CASE ~ Inside
    BY <2>2, <2>3, <2>4, <2>6 DEF Inside, Ending
  <2>7. QED
    BY <2>5, <2>6
<1>2. QED
  BY <1>1, WindowsHold, PTL
=============================================================================
