------------------------ MODULE DaemonRuntime_proofs ------------------------
(***************************************************************************)
(* Proofs about DaemonRuntime, for any set of concurrent Stop callers.     *)
(***************************************************************************)
EXTENDS DaemonRuntime, TLAPS

StartPCs  == {"listen", "ready", "publish", "cleanup"}
DrainPCs  == {"shutdown", "close", "join", "finish"}
StopPCs   == {"withdraw"} \cup DrainPCs

(* Runtime.lifecycle serializes Start and every Stop. *)
LockInv ==
  /\ \A c \in Callers : pc[c] \in StopPCs => lifecycle = c
  /\ pc["runner"] \in StartPCs => lifecycle = "runner"
  /\ \A c \in Stoppers : pc[c] \in {"idle", "stop"} \cup StopPCs

(* What Start has built so far, by its progress. *)
StartInv ==
  /\ state = "starting" <=> pc["runner"] \in StartPCs
  /\ state = "new" \/ pc["runner"] = "listen" =>
       /\ listener = "none" /\ ~shutdown /\ serve = "off"
       /\ ~endpoint /\ ~publication /\ ~observing
  /\ pc["runner"] \in {"ready", "publish"} => listener = "open" /\ ~shutdown
  /\ pc["runner"] = "publish" => serve \in {"accepting", "ended"}
  /\ pc["runner"] \in {"listen", "ready", "publish", "cleanup"} => PublicationReady
  /\ state = "starting" => ~endpoint /\ ~publication /\ ~observing
  /\ pc["runner"] \in {"ready", "publish", "cleanup"} => serve # "off"
  /\ pc["runner"] = "cleanup" /\ shutdown => listener = "closed"
  /\ pc["runner"] = "cleanup" => listener \in {"open", "closed"}

(* The metadata, the handle that withdraws it, and a Stop in progress. *)
StopInv ==
  /\ endpoint => publication
  /\ \A c \in Callers : pc[c] = "withdraw" => ~withdrawn /\ state = "stopping"
  /\ \A c \in Callers : pc[c] \in DrainPCs =>
       /\ endpoint => kept /\ ~withdrawn
       /\ state = "stopping"
  /\ \A c \in Callers : pc[c] \in {"join", "finish"} => listener = "closed"
  /\ \A c \in Callers : pc[c] = "finish" /\ joined => done

ServeInv ==
  /\ result # "none" <=> serve = "ended"
  /\ done => serve = "ended"
  /\ pc["runner"] = "activating" => plan # "disabled"
  /\ activation = "degraded" => plan = "optional"

IInv == /\ TypeOK /\ LockInv /\ StartInv /\ StopInv /\ ServeInv
        /\ PublishedImpliesListening /\ StoppedReleasesEverything
----------------------------------------------------------------------------
USE DEF vars, callVars, serverVars, pubVars, doneVars, At, Goto, Callers, Nobody

(* Every step keeps every variable of Runtime, of the activation gate and of *)
(* the environment in its range.                                             *)
LEMMA TypeStep == TypeOK /\ [Next]_vars => TypeOK'
<1> SUFFICES ASSUME TypeOK, [Next]_vars PROVE TypeOK'
  OBVIOUS
<1> USE DEF TypeOK
<1>1. CASE ActivationStart
  BY <1>1 DEF ActivationStart, StatesOK, FlagsOK
<1>2. CASE ActivationReturns
  BY <1>2 DEF ActivationReturns, ActivationAfterError, StatesOK, FlagsOK
<1>3. CASE StartLock
  BY <1>3 DEF StartLock, PublicationReady, StatesOK, FlagsOK
<1>4. CASE StartListen
  BY <1>4 DEF StartListen, StatesOK, FlagsOK
<1>5. CASE StartReady
  BY <1>5 DEF StartReady, AcceptLoopReady, StatesOK, FlagsOK
<1>6. CASE StartPublish
  <2>1. StatesOK'
    BY <1>6 DEF StartPublish, StatesOK
  <2>2. FlagsOK'
    BY <1>6, Zenon DEF StartPublish, FlagsOK
  <2> QED  BY <2>1, <2>2
<1>7. CASE StartCleanup
  <2>1. StatesOK'
    BY <1>7 DEF StartCleanup, StatesOK
  <2>2. FlagsOK'
    BY <1>7, Zenon DEF StartCleanup, FlagsOK
  <2> QED  BY <2>1, <2>2
<1>8. CASE EnterAccept
  BY <1>8 DEF EnterAccept, StatesOK, FlagsOK
<1>9. CASE ServeEnds
  BY <1>9 DEF ServeEnds, StatesOK, FlagsOK
<1>10. CASE ObserveServe
  BY <1>10 DEF ObserveServe, StatesOK, FlagsOK
<1>11. CASE RunnerWakes
  BY <1>11 DEF RunnerWakes, RunnerWoken, StatesOK, FlagsOK
<1>12. CASE Signal
  BY <1>12 DEF Signal, StatesOK, FlagsOK
<1>13. ASSUME NEW c \in Stoppers, CallStop(c) PROVE TypeOK'
  BY <1>13 DEF CallStop, StatesOK, FlagsOK
<1>14. ASSUME NEW c \in Callers, Stop(c) PROVE TypeOK'
  <2>1. StatesOK'
    BY <1>14 DEF Stop, FirstStepOfStop, StatesOK
  <2>2. FlagsOK'
    BY <1>14, Zenon DEF Stop, FirstStepOfStop, FlagsOK
  <2> QED  BY <2>1, <2>2
<1>15. ASSUME NEW c \in Callers, StopWithdraw(c) PROVE TypeOK'
  <2>1. StatesOK'
    BY <1>15 DEF StopWithdraw, StatesOK
  <2>2. FlagsOK'
    BY <1>15, Zenon DEF StopWithdraw, FlagsOK
  <2> QED  BY <2>1, <2>2
<1>16. ASSUME NEW c \in Callers, StopShutdown(c) PROVE TypeOK'
  BY <1>16 DEF StopShutdown, StatesOK, FlagsOK
<1>17. ASSUME NEW c \in Callers, StopClose(c) PROVE TypeOK'
  BY <1>17 DEF StopClose, StatesOK, FlagsOK
<1>18. ASSUME NEW c \in Callers, StopJoin(c) PROVE TypeOK'
  <2>1. StatesOK'
    BY <1>18 DEF StopJoin, StatesOK
  <2>2. FlagsOK'
    BY <1>18, Zenon DEF StopJoin, FlagsOK
  <2> QED  BY <2>1, <2>2
<1>19. ASSUME NEW c \in Callers, StopFinish(c) PROVE TypeOK'
  <2>1. StatesOK'
    BY <1>19 DEF StopFinish, KeepPublication, StopComplete, StatesOK
  <2>2. FlagsOK'
    BY <1>19, Zenon DEF StopFinish, KeepPublication, StopComplete, FlagsOK
  <2> QED  BY <2>1, <2>2
<1>20. CASE UNCHANGED vars
  BY <1>20 DEF StatesOK, FlagsOK
<1> QED
  BY <1>1, <1>2, <1>3, <1>4, <1>5, <1>6, <1>7, <1>8, <1>9, <1>10, <1>11, <1>12, <1>13, <1>14, <1>15, <1>16, <1>17, <1>18, <1>19, <1>20 DEF Next, Runner, Start, StopStep

(* Start and Stop hold Runtime.lifecycle exactly while they run. *)
LEMMA LockStep == TypeOK /\ IInv /\ [Next]_vars => LockInv'
<1> SUFFICES ASSUME TypeOK, IInv, [Next]_vars PROVE LockInv'
  OBVIOUS
<1> USE StoppersAssumption DEF TypeOK, StatesOK, IInv, LockInv, StartPCs, DrainPCs, StopPCs
<1>1. CASE ActivationStart
  BY <1>1 DEF ActivationStart
<1>2. CASE ActivationReturns
  BY <1>2 DEF ActivationReturns, ActivationAfterError
<1>3. CASE StartLock
  BY <1>3 DEF StartLock
<1>4. CASE StartListen
  BY <1>4 DEF StartListen
<1>5. CASE StartReady
  BY <1>5 DEF StartReady, AcceptLoopReady
<1>6. CASE StartPublish
  BY <1>6 DEF StartPublish
<1>7. CASE StartCleanup
  BY <1>7 DEF StartCleanup
<1>8. CASE EnterAccept
  BY <1>8 DEF EnterAccept
<1>9. CASE ServeEnds
  BY <1>9 DEF ServeEnds
<1>10. CASE ObserveServe
  BY <1>10 DEF ObserveServe
<1>11. CASE RunnerWakes
  BY <1>11 DEF RunnerWakes, RunnerWoken
<1>12. CASE Signal
  BY <1>12 DEF Signal
<1>13. ASSUME NEW c \in Stoppers, CallStop(c) PROVE LockInv'
  BY <1>13 DEF CallStop
<1>14. ASSUME NEW c \in Callers, Stop(c) PROVE LockInv'
  BY <1>14 DEF Stop, FirstStepOfStop
<1>15. ASSUME NEW c \in Callers, StopWithdraw(c) PROVE LockInv'
  BY <1>15 DEF StopWithdraw
<1>16. ASSUME NEW c \in Callers, StopShutdown(c) PROVE LockInv'
  BY <1>16 DEF StopShutdown
<1>17. ASSUME NEW c \in Callers, StopClose(c) PROVE LockInv'
  BY <1>17 DEF StopClose
<1>18. ASSUME NEW c \in Callers, StopJoin(c) PROVE LockInv'
  BY <1>18 DEF StopJoin
<1>19. ASSUME NEW c \in Callers, StopFinish(c) PROVE LockInv'
  BY <1>19 DEF StopFinish, KeepPublication, StopComplete
<1>20. CASE UNCHANGED vars
  BY <1>20
<1> QED
  BY <1>1, <1>2, <1>3, <1>4, <1>5, <1>6, <1>7, <1>8, <1>9, <1>10, <1>11, <1>12, <1>13, <1>14, <1>15, <1>16, <1>17, <1>18, <1>19, <1>20 DEF Next, Runner, Start, StopStep

(* Start builds the listener, the serve loop and the publication in order. *)
LEMMA StartStep == TypeOK /\ IInv /\ [Next]_vars => StartInv'
<1> SUFFICES ASSUME TypeOK, IInv, [Next]_vars PROVE StartInv'
  OBVIOUS
<1> USE StoppersAssumption DEF TypeOK, StatesOK, IInv, LockInv, StartInv, StopInv, StartPCs, DrainPCs, StopPCs, PublicationReady
<1>1. CASE ActivationStart
  BY <1>1 DEF ActivationStart
<1>2. CASE ActivationReturns
  BY <1>2 DEF ActivationReturns, ActivationAfterError
<1>3. CASE StartLock
  BY <1>3 DEF StartLock
<1>4. CASE StartListen
  BY <1>4 DEF StartListen
<1>5. CASE StartReady
  BY <1>5 DEF StartReady, AcceptLoopReady
<1>6. CASE StartPublish
  BY <1>6 DEF StartPublish
<1>7. CASE StartCleanup
  BY <1>7 DEF StartCleanup
<1>8. CASE EnterAccept
  BY <1>8 DEF EnterAccept
<1>9. CASE ServeEnds
  BY <1>9 DEF ServeEnds
<1>10. CASE ObserveServe
  BY <1>10 DEF ObserveServe
<1>11. CASE RunnerWakes
  BY <1>11 DEF RunnerWakes, RunnerWoken
<1>12. CASE Signal
  BY <1>12 DEF Signal
<1>13. ASSUME NEW c \in Stoppers, CallStop(c) PROVE StartInv'
  BY <1>13 DEF CallStop
<1>14. ASSUME NEW c \in Callers, Stop(c) PROVE StartInv'
  BY <1>14 DEF Stop, FirstStepOfStop
<1>15. ASSUME NEW c \in Callers, StopWithdraw(c) PROVE StartInv'
  BY <1>15 DEF StopWithdraw
<1>16. ASSUME NEW c \in Callers, StopShutdown(c) PROVE StartInv'
  BY <1>16 DEF StopShutdown
<1>17. ASSUME NEW c \in Callers, StopClose(c) PROVE StartInv'
  BY <1>17 DEF StopClose
<1>18. ASSUME NEW c \in Callers, StopJoin(c) PROVE StartInv'
  BY <1>18 DEF StopJoin
<1>19. ASSUME NEW c \in Callers, StopFinish(c) PROVE StartInv'
  BY <1>19 DEF StopFinish, KeepPublication, StopComplete
<1>20. CASE UNCHANGED vars
  BY <1>20
<1> QED
  BY <1>1, <1>2, <1>3, <1>4, <1>5, <1>6, <1>7, <1>8, <1>9, <1>10, <1>11, <1>12, <1>13, <1>14, <1>15, <1>16, <1>17, <1>18, <1>19, <1>20 DEF Next, Runner, Start, StopStep

(* Stop drains only after the metadata was withdrawn or refused. *)
LEMMA StopStepInv == TypeOK /\ IInv /\ [Next]_vars => StopInv'
<1> SUFFICES ASSUME TypeOK, IInv, [Next]_vars PROVE StopInv'
  OBVIOUS
<1> USE StoppersAssumption DEF TypeOK, StatesOK, IInv, LockInv, StartInv, StopInv, ServeInv, StartPCs, DrainPCs, StopPCs
<1>1. CASE ActivationStart
  BY <1>1 DEF ActivationStart
<1>2. CASE ActivationReturns
  BY <1>2 DEF ActivationReturns, ActivationAfterError
<1>3. CASE StartLock
  BY <1>3 DEF StartLock
<1>4. CASE StartListen
  BY <1>4 DEF StartListen
<1>5. CASE StartReady
  BY <1>5 DEF StartReady, AcceptLoopReady
<1>6. CASE StartPublish
  BY <1>6 DEF StartPublish
<1>7. CASE StartCleanup
  BY <1>7 DEF StartCleanup
<1>8. CASE EnterAccept
  BY <1>8 DEF EnterAccept
<1>9. CASE ServeEnds
  BY <1>9 DEF ServeEnds
<1>10. CASE ObserveServe
  BY <1>10 DEF ObserveServe
<1>11. CASE RunnerWakes
  BY <1>11 DEF RunnerWakes, RunnerWoken
<1>12. CASE Signal
  BY <1>12 DEF Signal
<1>13. ASSUME NEW c \in Stoppers, CallStop(c) PROVE StopInv'
  BY <1>13 DEF CallStop
<1>14. ASSUME NEW c \in Callers, Stop(c) PROVE StopInv'
  <2>1. CASE state \in {"new", "stopped"}
    BY <1>14, <2>1 DEF Stop, FirstStepOfStop
  <2>2. CASE state \notin {"new", "stopped"} /\ publication
    <3>1. ~withdrawn'
      BY <1>14, <2>2, Zenon DEF Stop, FirstStepOfStop
    <3> QED  BY <1>14, <2>2, <3>1 DEF Stop, FirstStepOfStop
  <2>3. CASE state \notin {"new", "stopped"} /\ ~publication
    BY <1>14, <2>3 DEF Stop, FirstStepOfStop
  <2> QED  BY <2>1, <2>2, <2>3
<1>15. ASSUME NEW c \in Callers, StopWithdraw(c) PROVE StopInv'
  BY <1>15 DEF StopWithdraw
<1>16. ASSUME NEW c \in Callers, StopShutdown(c) PROVE StopInv'
  BY <1>16 DEF StopShutdown
<1>17. ASSUME NEW c \in Callers, StopClose(c) PROVE StopInv'
  BY <1>17 DEF StopClose
<1>18. ASSUME NEW c \in Callers, StopJoin(c) PROVE StopInv'
  <2>1. joined' => done
    BY <1>18, Zenon DEF StopJoin
  <2> QED  BY <1>18, <2>1 DEF StopJoin
<1>19. ASSUME NEW c \in Callers, StopFinish(c) PROVE StopInv'
  BY <1>19 DEF StopFinish, KeepPublication, StopComplete
<1>20. CASE UNCHANGED vars
  BY <1>20
<1> QED
  BY <1>1, <1>2, <1>3, <1>4, <1>5, <1>6, <1>7, <1>8, <1>9, <1>10, <1>11, <1>12, <1>13, <1>14, <1>15, <1>16, <1>17, <1>18, <1>19, <1>20 DEF Next, Runner, Start, StopStep

(* serveDone closes only after the serve loop returned. *)
LEMMA ServeStep == TypeOK /\ IInv /\ [Next]_vars => ServeInv'
<1> SUFFICES ASSUME TypeOK, IInv, [Next]_vars PROVE ServeInv'
  OBVIOUS
<1> USE StoppersAssumption DEF TypeOK, StatesOK, IInv, StartInv, ServeInv, StartPCs
<1>1. CASE ActivationStart
  BY <1>1 DEF ActivationStart
<1>2. CASE ActivationReturns
  BY <1>2 DEF ActivationReturns, ActivationAfterError
<1>3. CASE StartLock
  BY <1>3 DEF StartLock
<1>4. CASE StartListen
  BY <1>4 DEF StartListen
<1>5. CASE StartReady
  BY <1>5 DEF StartReady, AcceptLoopReady
<1>6. CASE StartPublish
  BY <1>6 DEF StartPublish
<1>7. CASE StartCleanup
  BY <1>7 DEF StartCleanup
<1>8. CASE EnterAccept
  BY <1>8 DEF EnterAccept
<1>9. CASE ServeEnds
  BY <1>9 DEF ServeEnds
<1>10. CASE ObserveServe
  BY <1>10 DEF ObserveServe
<1>11. CASE RunnerWakes
  BY <1>11 DEF RunnerWakes, RunnerWoken
<1>12. CASE Signal
  BY <1>12 DEF Signal
<1>13. ASSUME NEW c \in Stoppers, CallStop(c) PROVE ServeInv'
  BY <1>13 DEF CallStop
<1>14. ASSUME NEW c \in Callers, Stop(c) PROVE ServeInv'
  BY <1>14 DEF Stop, FirstStepOfStop
<1>15. ASSUME NEW c \in Callers, StopWithdraw(c) PROVE ServeInv'
  BY <1>15 DEF StopWithdraw
<1>16. ASSUME NEW c \in Callers, StopShutdown(c) PROVE ServeInv'
  BY <1>16 DEF StopShutdown
<1>17. ASSUME NEW c \in Callers, StopClose(c) PROVE ServeInv'
  BY <1>17 DEF StopClose
<1>18. ASSUME NEW c \in Callers, StopJoin(c) PROVE ServeInv'
  BY <1>18 DEF StopJoin
<1>19. ASSUME NEW c \in Callers, StopFinish(c) PROVE ServeInv'
  BY <1>19 DEF StopFinish, KeepPublication, StopComplete
<1>20. CASE UNCHANGED vars
  BY <1>20
<1> QED
  BY <1>1, <1>2, <1>3, <1>4, <1>5, <1>6, <1>7, <1>8, <1>9, <1>10, <1>11, <1>12, <1>13, <1>14, <1>15, <1>16, <1>17, <1>18, <1>19, <1>20 DEF Next, Runner, Start, StopStep

(* No step closes or drains a server that is announced and was not refused. *)
LEMMA ListeningStep == TypeOK /\ IInv /\ [Next]_vars => PublishedImpliesListening'
<1> SUFFICES ASSUME TypeOK, IInv, [Next]_vars PROVE PublishedImpliesListening'
  OBVIOUS
<1> USE StoppersAssumption DEF TypeOK, StatesOK, IInv, LockInv, StartInv, StopInv, PublishedImpliesListening, StartPCs, DrainPCs, StopPCs
<1>1. CASE ActivationStart
  BY <1>1 DEF ActivationStart
<1>2. CASE ActivationReturns
  BY <1>2 DEF ActivationReturns, ActivationAfterError
<1>3. CASE StartLock
  BY <1>3 DEF StartLock
<1>4. CASE StartListen
  BY <1>4 DEF StartListen
<1>5. CASE StartReady
  BY <1>5 DEF StartReady, AcceptLoopReady
<1>6. CASE StartPublish
  BY <1>6 DEF StartPublish
<1>7. CASE StartCleanup
  BY <1>7 DEF StartCleanup
<1>8. CASE EnterAccept
  BY <1>8 DEF EnterAccept
<1>9. CASE ServeEnds
  BY <1>9 DEF ServeEnds
<1>10. CASE ObserveServe
  BY <1>10 DEF ObserveServe
<1>11. CASE RunnerWakes
  BY <1>11 DEF RunnerWakes, RunnerWoken
<1>12. CASE Signal
  BY <1>12 DEF Signal
<1>13. ASSUME NEW c \in Stoppers, CallStop(c) PROVE PublishedImpliesListening'
  BY <1>13 DEF CallStop
<1>14. ASSUME NEW c \in Callers, Stop(c) PROVE PublishedImpliesListening'
  BY <1>14 DEF Stop, FirstStepOfStop
<1>15. ASSUME NEW c \in Callers, StopWithdraw(c) PROVE PublishedImpliesListening'
  BY <1>15 DEF StopWithdraw
<1>16. ASSUME NEW c \in Callers, StopShutdown(c) PROVE PublishedImpliesListening'
  BY <1>16 DEF StopShutdown
<1>17. ASSUME NEW c \in Callers, StopClose(c) PROVE PublishedImpliesListening'
  BY <1>17 DEF StopClose
<1>18. ASSUME NEW c \in Callers, StopJoin(c) PROVE PublishedImpliesListening'
  BY <1>18 DEF StopJoin
<1>19. ASSUME NEW c \in Callers, StopFinish(c) PROVE PublishedImpliesListening'
  BY <1>19 DEF StopFinish, KeepPublication, StopComplete
<1>20. CASE UNCHANGED vars
  BY <1>20
<1> QED
  BY <1>1, <1>2, <1>3, <1>4, <1>5, <1>6, <1>7, <1>8, <1>9, <1>10, <1>11, <1>12, <1>13, <1>14, <1>15, <1>16, <1>17, <1>18, <1>19, <1>20 DEF Next, Runner, Start, StopStep

(* Nothing comes back once the runtime is stopped. *)
LEMMA StoppedStep == TypeOK /\ IInv /\ [Next]_vars => StoppedReleasesEverything'
<1> SUFFICES ASSUME TypeOK, IInv, [Next]_vars PROVE StoppedReleasesEverything'
  OBVIOUS
<1> USE StoppersAssumption DEF TypeOK, StatesOK, IInv, LockInv, StartInv, StopInv, ServeInv, StoppedReleasesEverything, StartPCs, DrainPCs, StopPCs
<1>1. CASE ActivationStart
  BY <1>1 DEF ActivationStart
<1>2. CASE ActivationReturns
  BY <1>2 DEF ActivationReturns, ActivationAfterError
<1>3. CASE StartLock
  BY <1>3 DEF StartLock
<1>4. CASE StartListen
  BY <1>4 DEF StartListen
<1>5. CASE StartReady
  BY <1>5 DEF StartReady, AcceptLoopReady
<1>6. CASE StartPublish
  BY <1>6 DEF StartPublish
<1>7. CASE StartCleanup
  BY <1>7 DEF StartCleanup
<1>8. CASE EnterAccept
  BY <1>8 DEF EnterAccept
<1>9. CASE ServeEnds
  BY <1>9 DEF ServeEnds
<1>10. CASE ObserveServe
  BY <1>10 DEF ObserveServe
<1>11. CASE RunnerWakes
  BY <1>11 DEF RunnerWakes, RunnerWoken
<1>12. CASE Signal
  BY <1>12 DEF Signal
<1>13. ASSUME NEW c \in Stoppers, CallStop(c) PROVE StoppedReleasesEverything'
  BY <1>13 DEF CallStop
<1>14. ASSUME NEW c \in Callers, Stop(c) PROVE StoppedReleasesEverything'
  BY <1>14 DEF Stop, FirstStepOfStop
<1>15. ASSUME NEW c \in Callers, StopWithdraw(c) PROVE StoppedReleasesEverything'
  BY <1>15 DEF StopWithdraw
<1>16. ASSUME NEW c \in Callers, StopShutdown(c) PROVE StoppedReleasesEverything'
  BY <1>16 DEF StopShutdown
<1>17. ASSUME NEW c \in Callers, StopClose(c) PROVE StoppedReleasesEverything'
  BY <1>17 DEF StopClose
<1>18. ASSUME NEW c \in Callers, StopJoin(c) PROVE StoppedReleasesEverything'
  BY <1>18 DEF StopJoin
<1>19. ASSUME NEW c \in Callers, StopFinish(c) PROVE StoppedReleasesEverything'
  BY <1>19 DEF StopFinish, KeepPublication, StopComplete
<1>20. CASE UNCHANGED vars
  BY <1>20
<1> QED
  BY <1>1, <1>2, <1>3, <1>4, <1>5, <1>6, <1>7, <1>8, <1>9, <1>10, <1>11, <1>12, <1>13, <1>14, <1>15, <1>16, <1>17, <1>18, <1>19, <1>20 DEF Next, Runner, Start, StopStep

----------------------------------------------------------------------------
(* Runtime, the gate and the runner stay well typed. *)
THEOREM TypeCorrect == Spec => []TypeOK
<1>1. Init => TypeOK
  BY DEF Init, TypeOK, StatesOK, FlagsOK
<1> QED
  BY <1>1, TypeStep, PTL DEF Spec

(* The conjunction of the invariants above is inductive. *)
THEOREM Inductive == Spec => []IInv
<1>1. Init => IInv
  <2> SUFFICES ASSUME Init PROVE IInv
    OBVIOUS
  <2>1. TypeOK
    BY DEF Init, TypeOK, StatesOK, FlagsOK
  <2>2. LockInv /\ StartInv /\ StopInv /\ ServeInv
    BY DEF Init, LockInv, StartInv, StopInv, ServeInv, StartPCs, DrainPCs, StopPCs, PublicationReady
  <2>3. PublishedImpliesListening /\ StoppedReleasesEverything
    BY DEF Init, PublishedImpliesListening, StoppedReleasesEverything
  <2> QED  BY <2>1, <2>2, <2>3 DEF IInv
<1>2. IInv /\ [Next]_vars => IInv'
  <2> SUFFICES ASSUME IInv, [Next]_vars PROVE IInv'
    OBVIOUS
  <2>1. TypeOK
    BY DEF IInv
  <2> QED
    BY <2>1, TypeStep, LockStep, StartStep, StopStepInv, ServeStep, ListeningStep, StoppedStep DEF IInv
<1> QED
  BY <1>1, <1>2, PTL DEF Spec

(* Published metadata always points at an open, undrained listener, unless   *)
(* the endpoint store refused its withdrawal; for any number of concurrent   *)
(* and repeated Stop calls.                                                  *)
THEOREM Listening == Spec => []PublishedImpliesListening
<1>1. IInv => PublishedImpliesListening
  BY DEF IInv
<1> QED  BY <1>1, Inductive, PTL

(* A stopped runtime has released the metadata, the socket and, unless a     *)
(* failed Start ran out of time, the serve loop.                             *)
THEOREM Released == Spec => []StoppedReleasesEverything
<1>1. IInv => StoppedReleasesEverything
  BY DEF IInv
<1> QED  BY <1>1, Inductive, PTL

(* The handle that withdraws the metadata is kept while they are published. *)
THEOREM HandleKept == Spec => []PublicationNotLost
<1>1. IInv => PublicationNotLost
  BY DEF IInv, StopInv, PublicationNotLost
<1> QED  BY <1>1, Inductive, PTL

(* Metadata appears only for an accepting server behind the activation gate. *)
THEOREM PublishedInOrder == Spec => PublishedOnlyWhenServing
<1> DEFINE A == ~endpoint /\ endpoint' =>
                  /\ serve \in {"accepting", "ended"}
                  /\ listener = "open" /\ ~shutdown
                  /\ activation \in {"ready", "degraded"}
                  /\ activation = "degraded" => plan = "optional"
<1>1. IInv /\ [Next]_vars => [A]_vars
  <2> SUFFICES ASSUME IInv, Next, ~endpoint, endpoint'
               PROVE  /\ serve \in {"accepting", "ended"}
                      /\ listener = "open" /\ ~shutdown
                      /\ activation \in {"ready", "degraded"}
                      /\ activation = "degraded" => plan = "optional"
    OBVIOUS
  <2>1. StartPublish
    BY DEF Next, Runner, Start, StopStep, ActivationStart, ActivationReturns, StartLock,
           StartListen, StartReady, StartCleanup, EnterAccept, ServeEnds, ObserveServe,
           RunnerWakes, Signal, CallStop, Stop, StopWithdraw, StopShutdown, StopClose,
           StopJoin, StopFinish
  <2> QED
    BY <2>1 DEF StartPublish, IInv, StartInv, ServeInv, PublicationReady, StartPCs
<1> QED
  BY <1>1, Inductive, PTL DEF Spec, PublishedOnlyWhenServing
=============================================================================
