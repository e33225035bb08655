------------------------ MODULE TuiConnection_proofs ------------------------
(***************************************************************************)
(* Proofs about TuiConnection, for every set of runs, every capacity of    *)
(* the update channel and every number of client sessions.                 *)
(***************************************************************************)
EXTENDS TuiConnection, TLAPS

RestorePCs == {"check", "reconnect", "lost", "fresh", "install", "closeOld", "restored"}
SubmitPCs  == {"off", "lock", "start", "again", "record", "history", "spawn"} \cup RestorePCs

(* reconnectMutex: one restore at a time, and none during a Start. *)
LockInv ==
  /\ \A t \in Restorers : pc[t] \in RestorePCs => reconnect = t
  /\ pc["submit"] \in {"start", "again", "record"} => reconnect = "submit"
  /\ pc["submit"] \in SubmitPCs

(* Nothing runs before the initializer is done. *)
InitInv ==
  /\ pc["init"] # "done" => \A t \in Restorers : pc[t] = "off"
  /\ pc["init"] \in {"new", "connecting", "connected"} => client = NoClient

(* A run has no worker before its submit lane starts one. *)
WorkerInv ==
  /\ \A r \in Runs : r \notin submitted => pc[r] = "off"
  /\ pc["submit"] # "off" => op \in submitted /\ pc[op] = "off"

(* A thread that restores works on the generation it captured. *)
GenerationInv ==
  /\ \A t \in Restorers : pc[t] \in {"reconnect", "lost", "fresh", "install"} => generation = seen[t]
  /\ pc["submit"] \in {"start", "check"} => generation = seen["submit"]
  /\ pc["submit"] \in {"closeOld", "restored", "again"} => generation = seen["submit"] + 1
  /\ pc["submit"] = "again" => fresh["submit"]

(* A fresh session is asked for and installed while no run is active. *)
FreshInv ==
  \A t \in Restorers : pc[t] = "fresh" \/ (pc[t] = "install" /\ fresh[t]) => activeRun = NoRun

(* An operation whose Start may still be sent has not been accepted. *)
AcceptedInv ==
  /\ \A r \in Runs : r \notin submitted => accepted[r] = 0
  /\ pc["submit"] \in {"lock", "start", "again"} \cup RestorePCs =>
       op \in submitted /\ accepted[op] = 0
  /\ StartAcceptedAtMostOnce

(* A local variable holds a client session only between acquiring it and     *)
(* installing or closing it.                                                 *)
HeldInv ==
  /\ \A t \in Restorers : pc[t] \notin {"install", "closeOld"} => held[t] = NoClient
  /\ ~initErr /\ pc["init"] # "connected" => held["init"] = NoClient
  /\ OpenClientsOwned

(* How far Close has come: the fence, then the refusal of workers. *)
CloseInv ==
  /\ closed <=> closer # "idle"
  /\ workersClosed <=> closer \in {"refusing", "streams", "client", "done"}

(* An observer on its way to its end has the reason: a recorded failure, the *)
(* terminal event or the context.Canceled that recordFailure drops.          *)
LoudInv ==
  /\ \A o \in Observers : /\ pc[o] = "report" => failed
                          /\ pc[o] = "clear" => why[o] = "terminal"
  /\ ObserversEndLoudly
  /\ ActiveRunObserved

(* An observer has an open stream or holds reconnectMutex only while it runs, *)
(* and none runs once Close has joined them.                                  *)
JoinInv ==
  /\ \A o \in Observers :
       /\ stream[o] = "open" => pc[o] \in {"register", "reconnected", "consume", "frame", "release"}
       /\ reconnect = o => pc[o] \in RestorePCs
  /\ closer = "done" => \A o \in Observers : pc[o] \in {"off", "done"}

IInv == TypeOK /\ LockInv /\ InitInv /\ WorkerInv /\ GenerationInv
        /\ FreshInv /\ AcceptedInv /\ HeldInv
        /\ CloseInv /\ LoudInv /\ JoinInv
----------------------------------------------------------------------------
USE RunsAssumption, MaxClientsAssumption, UpdateCapacityAssumption
    DEF vars, connVars, streamVars, runVars, closeVars, pubVars,
        At, Goto, Observers, Restorers, Threads, NoRun, Nobody, NoClient

(* Program counters, counters and references stay in their ranges. *)
LEMMA StatesStep == TypeOK /\ [Next]_vars => StatesOK'
<1> SUFFICES ASSUME TypeOK, [Next]_vars PROVE StatesOK'
  OBVIOUS
<1> USE DEF TypeOK, StatesOK, PCs, Errors, OpenErrors, Kind
<1>1. CASE EnsureInitialized
  BY <1>1 DEF EnsureInitialized
<1>2. CASE InitializeFails
  BY <1>2 DEF InitializeFails
<1>3. CASE InitializeRejected
  BY <1>3 DEF InitializeRejected, Acquire
<1>4. CASE InitializeConnected
  BY <1>4 DEF InitializeConnected, Acquire
<1>5. CASE InitializeInstall
  <2>1. open' \subseteq 1..MaxClients
    BY <1>5 DEF InitializeInstall
  <2>2. held' \in [Threads -> 0..MaxClients]
    BY <1>5 DEF InitializeInstall
  <2>3. pc' \in [Threads -> PCs]
    BY <1>5 DEF InitializeInstall
  <2>4. client' \in 0..MaxClients /\ generation' \in Nat
    BY <1>5 DEF InitializeInstall
  <2> QED
    BY <1>5, <2>1, <2>2, <2>3, <2>4 DEF InitializeInstall
<1>6. CASE InitializeSnapshot
  <2>1. open' \subseteq 1..MaxClients
    BY <1>6 DEF InitializeSnapshot, Published, PublishClosed
  <2>2. pc' \in [Threads -> PCs]
    BY <1>6 DEF InitializeSnapshot, Published, PublishClosed
  <2>3. queued' \in 0..UpdateCapacity
    BY <1>6 DEF InitializeSnapshot, Published, PublishClosed
  <2> QED
    BY <1>6, <2>1, <2>2, <2>3 DEF InitializeSnapshot
<1>7. CASE InitializeSpawn
  BY <1>7 DEF InitializeSpawn, StartWorker
<1>8. CASE SubmitLock
  BY <1>8 DEF SubmitLock, LockReconnect
<1>9. CASE StartAccepted
  <2>1. accepted' \in [Runs -> Nat]
    <3>1. CASE op \in Runs
      <4>1. accepted[op] + 1 \in Nat
        BY <3>1
      <4> QED
        BY <1>9, <4>1 DEF StartAccepted
    <3>2. CASE op \notin Runs
      BY <1>9, <3>2 DEF StartAccepted
    <3> QED
      BY <3>1, <3>2
  <2>2. pc' \in [Threads -> PCs]
    BY <1>9 DEF StartAccepted
  <2> QED
    BY <1>9, <2>1, <2>2 DEF StartAccepted
<1>10. CASE SubmitRecord
  BY <1>10 DEF SubmitRecord
<1>11. CASE SubmitHistory
  BY <1>11 DEF SubmitHistory, Published, PublishClosed
<1>12. CASE SubmitSpawn
  BY <1>12 DEF SubmitSpawn, StartWorker
<1>13. CASE Cancel
  BY <1>13 DEF Cancel
<1>14. CASE Receive
  BY <1>14 DEF Receive
<1>15. CASE CloseFence
  BY <1>15 DEF CloseFence
<1>16. CASE CloseOnce
  BY <1>16 DEF CloseOnce
<1>17. CASE CloseWorkers
  BY <1>17 DEF CloseWorkers
<1>18. CASE CloseStreams
  BY <1>18 DEF CloseStreams
<1>19. CASE CloseClient
  BY <1>19 DEF CloseClient
<1>20. CASE CloseWait
  BY <1>20 DEF CloseWait
<1>21. ASSUME NEW r \in Runs, Submit(r) PROVE StatesOK'
  BY <1>21 DEF Submit, Initialized
<1>22. ASSUME NEW err \in StartErrors, StartFailed(err) PROVE StatesOK'
  BY <1>22 DEF StartFailed, RejectedStartCanRetry
<1>23. ASSUME NEW b \in BOOLEAN, CancelReturns(b) PROVE StatesOK'
  BY <1>23 DEF CancelReturns, ClearActiveRun
<1>24. ASSUME NEW t \in Restorers, RestoreCheck(t) PROVE StatesOK'
  BY <1>24 DEF RestoreCheck, RestoreReturns
<1>25. ASSUME NEW t \in Restorers, RestoreReconnect(t) PROVE StatesOK'
  <2>1. CASE Acquire(t) /\ Goto(t, "install") /\ UNCHANGED reconnect
    <3>1. used' \in 0..MaxClients /\ used' \in 1..MaxClients
      BY <2>1 DEF Acquire
    <3>2. held' \in [Threads -> 0..MaxClients] /\ open' \subseteq 1..MaxClients
      BY <2>1, <3>1 DEF Acquire
    <3>3. pc' \in [Threads -> PCs]
      BY <2>1
    <3> QED
      BY <1>25, <2>1, <3>1, <3>2, <3>3 DEF RestoreReconnect
  <2>2. CASE InitializeForRestoreFails(t) /\ UNCHANGED <<used, open, held, fresh>>
    <3>1. pc' \in [Threads -> PCs] /\ reconnect' \in Restorers \cup {Nobody}
      BY <2>2 DEF InitializeForRestoreFails, RestoreFails, RestoreReturns
    <3> QED
      BY <1>25, <2>2, <3>1 DEF RestoreReconnect
  <2>3. CASE Goto(t, "lost") /\ UNCHANGED <<used, open, held, fresh, reconnect>>
    BY <1>25, <2>3 DEF RestoreReconnect
  <2> QED
    BY <1>25, <2>1, <2>2, <2>3 DEF RestoreReconnect
<1>26. ASSUME NEW t \in Restorers, RestoreLost(t) PROVE StatesOK'
  BY <1>26 DEF RestoreLost, RestoreReturns, RestoreFails, ActiveRunExists
<1>27. ASSUME NEW t \in Restorers, RestoreFresh(t) PROVE StatesOK'
  <2>1. CASE Acquire(t) /\ Goto(t, "install") /\ UNCHANGED reconnect
    <3>1. used' \in 0..MaxClients /\ used' \in 1..MaxClients
      BY <2>1 DEF Acquire
    <3>2. held' \in [Threads -> 0..MaxClients] /\ open' \subseteq 1..MaxClients
      BY <2>1, <3>1 DEF Acquire
    <3>3. pc' \in [Threads -> PCs]
      BY <2>1
    <3> QED
      BY <1>27, <2>1, <3>1, <3>2, <3>3 DEF RestoreFresh
  <2>2. CASE InitializeForRestoreFails(t) /\ UNCHANGED <<used, open, held, fresh>>
    <3>1. pc' \in [Threads -> PCs] /\ reconnect' \in Restorers \cup {Nobody}
      BY <2>2 DEF InitializeForRestoreFails, RestoreFails, RestoreReturns
    <3> QED
      BY <1>27, <2>2, <3>1 DEF RestoreFresh
  <2> QED
    BY <1>27, <2>1, <2>2 DEF RestoreFresh
<1>28. ASSUME NEW t \in Restorers, RestoreInstall(t) PROVE StatesOK'
  <2>1. held' \in [Threads -> 0..MaxClients]
    BY <1>28 DEF RestoreInstall, CloseHeld
  <2>0. open' \subseteq 1..MaxClients
    BY <1>28 DEF RestoreInstall, CloseHeld
  <2>2. pc' \in [Threads -> PCs] /\ reconnect' \in Restorers \cup {Nobody}
    BY <1>28 DEF RestoreInstall, RestoreReturns, RestoreFails
  <2>3. client' \in 0..MaxClients /\ generation' \in Nat
    BY <1>28 DEF RestoreInstall
  <2> QED
    BY <1>28, <2>0, <2>1, <2>2, <2>3 DEF RestoreInstall
<1>29. ASSUME NEW t \in Restorers, RestoreCloseOld(t) PROVE StatesOK'
  <2>1. held' \in [Threads -> 0..MaxClients]
    BY <1>29 DEF RestoreCloseOld, CloseHeld
  <2>0. open' \subseteq 1..MaxClients
    BY <1>29 DEF RestoreCloseOld, CloseHeld
  <2>2. pc' \in [Threads -> PCs] /\ why' \in [Restorers -> OpenErrors \cup {"ok", "terminal"}]
    BY <1>29 DEF RestoreCloseOld
  <2> QED
    BY <1>29, <2>0, <2>1, <2>2 DEF RestoreCloseOld
<1>30. ASSUME NEW t \in Restorers, RestorePublish(t) PROVE StatesOK'
  BY <1>30 DEF RestorePublish, RestoreReturns, Published, PublishClosed
<1>31. ASSUME NEW o \in Observers, OpenStream(o) PROVE StatesOK'
  BY <1>31 DEF OpenStream
<1>32. ASSUME NEW o \in Observers, RegisterStream(o) PROVE StatesOK'
  BY <1>32 DEF RegisterStream
<1>33. ASSUME NEW o \in Observers, PublishReconnected(o) PROVE StatesOK'
  BY <1>33 DEF PublishReconnected, Published, PublishClosed
<1>34. ASSUME NEW o \in Observers, Consume(o) PROVE StatesOK'
  BY <1>34 DEF Consume
<1>35. ASSUME NEW o \in Observers, HandleFrame(o) PROVE StatesOK'
  BY <1>35 DEF HandleFrame, Published, PublishClosed
<1>36. ASSUME NEW o \in Observers, ReleaseStream(o) PROVE StatesOK'
  BY <1>36 DEF ReleaseStream, AfterRelease
<1>37. ASSUME NEW o \in Observers, ObserveTerminal(o) PROVE StatesOK'
  BY <1>37 DEF ObserveTerminal, ClearActiveRun
<1>38. ASSUME NEW o \in Observers, AnnounceReconnecting(o) PROVE StatesOK'
  BY <1>38 DEF AnnounceReconnecting, Published, PublishClosed
<1>39. ASSUME NEW o \in Observers, WaitToReconnect(o) PROVE StatesOK'
  BY <1>39 DEF WaitToReconnect
<1>40. ASSUME NEW o \in Observers, RestoreLock(o) PROVE StatesOK'
  BY <1>40 DEF RestoreLock, LockReconnect
<1>41. ASSUME NEW o \in Observers, RecordFailure(o) PROVE StatesOK'
  BY <1>41 DEF RecordFailure
<1>42. ASSUME NEW o \in Observers, ReportFailure(o) PROVE StatesOK'
  BY <1>42 DEF ReportFailure, Published, PublishClosed
<1>43. CASE UNCHANGED vars
  BY <1>43
<1> QED
  BY <1>1, <1>2, <1>3, <1>4, <1>5, <1>6, <1>7, <1>8, <1>9, <1>10, <1>11, <1>12, <1>13,
     <1>14, <1>15, <1>16, <1>17, <1>18, <1>19, <1>20, <1>21, <1>22, <1>23, <1>24, <1>25,
     <1>26, <1>27, <1>28, <1>29, <1>30, <1>31, <1>32, <1>33, <1>34, <1>35, <1>36, <1>37,
     <1>38, <1>39, <1>40, <1>41, <1>42, <1>43
     DEF Next, User, System, Initialize, SubmitStep, Observe, Restore, Close, Terminated

(* The flags stay Boolean. *)
LEMMA FlagsStep == TypeOK /\ [Next]_vars => FlagsOK'
<1> SUFFICES ASSUME TypeOK, [Next]_vars PROVE FlagsOK'
  OBVIOUS
<1> USE DEF TypeOK, FlagsOK
<1>1. CASE EnsureInitialized
  BY <1>1 DEF EnsureInitialized
<1>2. CASE InitializeFails
  BY <1>2 DEF InitializeFails
<1>3. CASE InitializeRejected
  BY <1>3 DEF InitializeRejected, Acquire
<1>4. CASE InitializeConnected
  BY <1>4 DEF InitializeConnected, Acquire
<1>5. CASE InitializeInstall
  BY <1>5 DEF InitializeInstall
<1>6. CASE InitializeSnapshot
  BY <1>6 DEF InitializeSnapshot, Published, PublishClosed
<1>7. CASE InitializeSpawn
  BY <1>7 DEF InitializeSpawn, StartWorker
<1>8. CASE SubmitLock
  BY <1>8 DEF SubmitLock, LockReconnect
<1>9. CASE StartAccepted
  BY <1>9 DEF StartAccepted
<1>10. CASE SubmitRecord
  BY <1>10 DEF SubmitRecord
<1>11. CASE SubmitHistory
  BY <1>11 DEF SubmitHistory, Published, PublishClosed
<1>12. CASE SubmitSpawn
  BY <1>12 DEF SubmitSpawn, StartWorker
<1>13. CASE Cancel
  BY <1>13 DEF Cancel
<1>14. CASE Receive
  BY <1>14 DEF Receive
<1>15. CASE CloseFence
  BY <1>15 DEF CloseFence
<1>16. CASE CloseOnce
  BY <1>16 DEF CloseOnce
<1>17. CASE CloseWorkers
  BY <1>17 DEF CloseWorkers
<1>18. CASE CloseStreams
  BY <1>18 DEF CloseStreams
<1>19. CASE CloseClient
  BY <1>19 DEF CloseClient
<1>20. CASE CloseWait
  BY <1>20 DEF CloseWait
<1>21. ASSUME NEW r \in Runs, Submit(r) PROVE FlagsOK'
  BY <1>21 DEF Submit, Initialized
<1>22. ASSUME NEW err \in StartErrors, StartFailed(err) PROVE FlagsOK'
  BY <1>22 DEF StartFailed, RejectedStartCanRetry
<1>23. ASSUME NEW b \in BOOLEAN, CancelReturns(b) PROVE FlagsOK'
  BY <1>23 DEF CancelReturns, ClearActiveRun
<1>24. ASSUME NEW t \in Restorers, RestoreCheck(t) PROVE FlagsOK'
  BY <1>24 DEF RestoreCheck, RestoreReturns
<1>25. ASSUME NEW t \in Restorers, RestoreReconnect(t) PROVE FlagsOK'
  BY <1>25 DEF RestoreReconnect, Acquire, RestoreReturns, RestoreFails, InitializeForRestoreFails
<1>26. ASSUME NEW t \in Restorers, RestoreLost(t) PROVE FlagsOK'
  BY <1>26 DEF RestoreLost, RestoreReturns, RestoreFails, ActiveRunExists
<1>27. ASSUME NEW t \in Restorers, RestoreFresh(t) PROVE FlagsOK'
  BY <1>27 DEF RestoreFresh, Acquire, RestoreReturns, RestoreFails, InitializeForRestoreFails
<1>28. ASSUME NEW t \in Restorers, RestoreInstall(t) PROVE FlagsOK'
  BY <1>28 DEF RestoreInstall, CloseHeld, RestoreReturns, RestoreFails
<1>29. ASSUME NEW t \in Restorers, RestoreCloseOld(t) PROVE FlagsOK'
  BY <1>29 DEF RestoreCloseOld, CloseHeld
<1>30. ASSUME NEW t \in Restorers, RestorePublish(t) PROVE FlagsOK'
  BY <1>30 DEF RestorePublish, RestoreReturns, Published, PublishClosed
<1>31. ASSUME NEW o \in Observers, OpenStream(o) PROVE FlagsOK'
  BY <1>31 DEF OpenStream
<1>32. ASSUME NEW o \in Observers, RegisterStream(o) PROVE FlagsOK'
  BY <1>32 DEF RegisterStream
<1>33. ASSUME NEW o \in Observers, PublishReconnected(o) PROVE FlagsOK'
  BY <1>33 DEF PublishReconnected, Published, PublishClosed
<1>34. ASSUME NEW o \in Observers, Consume(o) PROVE FlagsOK'
  BY <1>34 DEF Consume
<1>35. ASSUME NEW o \in Observers, HandleFrame(o) PROVE FlagsOK'
  BY <1>35 DEF HandleFrame, Published, PublishClosed
<1>36. ASSUME NEW o \in Observers, ReleaseStream(o) PROVE FlagsOK'
  BY <1>36 DEF ReleaseStream, AfterRelease
<1>37. ASSUME NEW o \in Observers, ObserveTerminal(o) PROVE FlagsOK'
  BY <1>37 DEF ObserveTerminal, ClearActiveRun
<1>38. ASSUME NEW o \in Observers, AnnounceReconnecting(o) PROVE FlagsOK'
  BY <1>38 DEF AnnounceReconnecting, Published, PublishClosed
<1>39. ASSUME NEW o \in Observers, WaitToReconnect(o) PROVE FlagsOK'
  BY <1>39 DEF WaitToReconnect
<1>40. ASSUME NEW o \in Observers, RestoreLock(o) PROVE FlagsOK'
  BY <1>40 DEF RestoreLock, LockReconnect
<1>41. ASSUME NEW o \in Observers, RecordFailure(o) PROVE FlagsOK'
  BY <1>41 DEF RecordFailure
<1>42. ASSUME NEW o \in Observers, ReportFailure(o) PROVE FlagsOK'
  BY <1>42 DEF ReportFailure, Published, PublishClosed
<1>43. CASE UNCHANGED vars
  BY <1>43
<1> QED
  BY <1>1, <1>2, <1>3, <1>4, <1>5, <1>6, <1>7, <1>8, <1>9, <1>10, <1>11, <1>12, <1>13,
     <1>14, <1>15, <1>16, <1>17, <1>18, <1>19, <1>20, <1>21, <1>22, <1>23, <1>24, <1>25,
     <1>26, <1>27, <1>28, <1>29, <1>30, <1>31, <1>32, <1>33, <1>34, <1>35, <1>36, <1>37,
     <1>38, <1>39, <1>40, <1>41, <1>42, <1>43
     DEF Next, User, System, Initialize, SubmitStep, Observe, Restore, Close, Terminated

(* A restore or a Start is under way only in the thread that holds reconnectMutex. *)
LEMMA LockStep == TypeOK /\ LockInv /\ [Next]_vars => LockInv'
<1> SUFFICES ASSUME TypeOK /\ LockInv, [Next]_vars PROVE LockInv'
  OBVIOUS
<1> USE DEF TypeOK, StatesOK, LockInv, RestorePCs, SubmitPCs, PCs
<1>1. CASE EnsureInitialized
  BY <1>1 DEF EnsureInitialized
<1>2. CASE InitializeFails
  BY <1>2 DEF InitializeFails
<1>3. CASE InitializeRejected
  BY <1>3 DEF InitializeRejected, Acquire
<1>4. CASE InitializeConnected
  BY <1>4 DEF InitializeConnected, Acquire
<1>5. CASE InitializeInstall
  BY <1>5 DEF InitializeInstall
<1>6. CASE InitializeSnapshot
  BY <1>6 DEF InitializeSnapshot, Published, PublishClosed
<1>7. CASE InitializeSpawn
  BY <1>7 DEF InitializeSpawn, StartWorker
<1>8. CASE SubmitLock
  BY <1>8 DEF SubmitLock, LockReconnect
<1>9. CASE StartAccepted
  BY <1>9 DEF StartAccepted
<1>10. CASE SubmitRecord
  BY <1>10 DEF SubmitRecord
<1>11. CASE SubmitHistory
  BY <1>11 DEF SubmitHistory, Published, PublishClosed
<1>12. CASE SubmitSpawn
  BY <1>12 DEF SubmitSpawn, StartWorker
<1>13. CASE Cancel
  BY <1>13 DEF Cancel
<1>14. CASE Receive
  BY <1>14 DEF Receive
<1>15. CASE CloseFence
  BY <1>15 DEF CloseFence
<1>16. CASE CloseOnce
  BY <1>16 DEF CloseOnce
<1>17. CASE CloseWorkers
  BY <1>17 DEF CloseWorkers
<1>18. CASE CloseStreams
  BY <1>18 DEF CloseStreams
<1>19. CASE CloseClient
  BY <1>19 DEF CloseClient
<1>20. CASE CloseWait
  BY <1>20 DEF CloseWait
<1>21. ASSUME NEW r \in Runs, Submit(r) PROVE LockInv'
  BY <1>21 DEF Submit, Initialized
<1>22. ASSUME NEW err \in StartErrors, StartFailed(err) PROVE LockInv'
  BY <1>22 DEF StartFailed, RejectedStartCanRetry
<1>23. ASSUME NEW b \in BOOLEAN, CancelReturns(b) PROVE LockInv'
  BY <1>23 DEF CancelReturns, ClearActiveRun
<1>24. ASSUME NEW t \in Restorers, RestoreCheck(t) PROVE LockInv'
  BY <1>24 DEF RestoreCheck, RestoreReturns
<1>25. ASSUME NEW t \in Restorers, RestoreReconnect(t) PROVE LockInv'
  BY <1>25 DEF RestoreReconnect, Acquire, RestoreReturns, RestoreFails, InitializeForRestoreFails
<1>26. ASSUME NEW t \in Restorers, RestoreLost(t) PROVE LockInv'
  BY <1>26 DEF RestoreLost, RestoreReturns, RestoreFails, ActiveRunExists
<1>27. ASSUME NEW t \in Restorers, RestoreFresh(t) PROVE LockInv'
  BY <1>27 DEF RestoreFresh, Acquire, RestoreReturns, RestoreFails, InitializeForRestoreFails
<1>28. ASSUME NEW t \in Restorers, RestoreInstall(t) PROVE LockInv'
  BY <1>28 DEF RestoreInstall, CloseHeld, RestoreReturns, RestoreFails
<1>29. ASSUME NEW t \in Restorers, RestoreCloseOld(t) PROVE LockInv'
  BY <1>29 DEF RestoreCloseOld, CloseHeld
<1>30. ASSUME NEW t \in Restorers, RestorePublish(t) PROVE LockInv'
  BY <1>30 DEF RestorePublish, RestoreReturns, Published, PublishClosed
<1>31. ASSUME NEW o \in Observers, OpenStream(o) PROVE LockInv'
  BY <1>31 DEF OpenStream
<1>32. ASSUME NEW o \in Observers, RegisterStream(o) PROVE LockInv'
  BY <1>32 DEF RegisterStream
<1>33. ASSUME NEW o \in Observers, PublishReconnected(o) PROVE LockInv'
  BY <1>33 DEF PublishReconnected, Published, PublishClosed
<1>34. ASSUME NEW o \in Observers, Consume(o) PROVE LockInv'
  BY <1>34 DEF Consume
<1>35. ASSUME NEW o \in Observers, HandleFrame(o) PROVE LockInv'
  BY <1>35 DEF HandleFrame, Published, PublishClosed
<1>36. ASSUME NEW o \in Observers, ReleaseStream(o) PROVE LockInv'
  BY <1>36 DEF ReleaseStream, AfterRelease
<1>37. ASSUME NEW o \in Observers, ObserveTerminal(o) PROVE LockInv'
  BY <1>37 DEF ObserveTerminal, ClearActiveRun
<1>38. ASSUME NEW o \in Observers, AnnounceReconnecting(o) PROVE LockInv'
  BY <1>38 DEF AnnounceReconnecting, Published, PublishClosed
<1>39. ASSUME NEW o \in Observers, WaitToReconnect(o) PROVE LockInv'
  BY <1>39 DEF WaitToReconnect
<1>40. ASSUME NEW o \in Observers, RestoreLock(o) PROVE LockInv'
  BY <1>40 DEF RestoreLock, LockReconnect
<1>41. ASSUME NEW o \in Observers, RecordFailure(o) PROVE LockInv'
  BY <1>41 DEF RecordFailure
<1>42. ASSUME NEW o \in Observers, ReportFailure(o) PROVE LockInv'
  BY <1>42 DEF ReportFailure, Published, PublishClosed
<1>43. CASE UNCHANGED vars
  BY <1>43
<1> QED
  BY <1>1, <1>2, <1>3, <1>4, <1>5, <1>6, <1>7, <1>8, <1>9, <1>10, <1>11, <1>12, <1>13,
     <1>14, <1>15, <1>16, <1>17, <1>18, <1>19, <1>20, <1>21, <1>22, <1>23, <1>24, <1>25,
     <1>26, <1>27, <1>28, <1>29, <1>30, <1>31, <1>32, <1>33, <1>34, <1>35, <1>36, <1>37,
     <1>38, <1>39, <1>40, <1>41, <1>42, <1>43
     DEF Next, User, System, Initialize, SubmitStep, Observe, Restore, Close, Terminated

(* Workers and commands exist only after the initializer is done. *)
LEMMA InitStep == TypeOK /\ LockInv /\ InitInv /\ [Next]_vars => InitInv'
<1> SUFFICES ASSUME TypeOK /\ LockInv /\ InitInv, [Next]_vars PROVE InitInv'
  OBVIOUS
<1> USE DEF TypeOK, StatesOK, InitInv
<1>1. CASE EnsureInitialized
  BY <1>1 DEF EnsureInitialized
<1>2. CASE InitializeFails
  BY <1>2 DEF InitializeFails
<1>3. CASE InitializeRejected
  BY <1>3 DEF InitializeRejected, Acquire
<1>4. CASE InitializeConnected
  BY <1>4 DEF InitializeConnected, Acquire
<1>5. CASE InitializeInstall
  BY <1>5 DEF InitializeInstall
<1>6. CASE InitializeSnapshot
  BY <1>6 DEF InitializeSnapshot, Published, PublishClosed
<1>7. CASE InitializeSpawn
  BY <1>7 DEF InitializeSpawn, StartWorker
<1>8. CASE SubmitLock
  BY <1>8 DEF SubmitLock, LockReconnect
<1>9. CASE StartAccepted
  BY <1>9 DEF StartAccepted
<1>10. CASE SubmitRecord
  BY <1>10 DEF SubmitRecord
<1>11. CASE SubmitHistory
  BY <1>11 DEF SubmitHistory, Published, PublishClosed
<1>12. CASE SubmitSpawn
  BY <1>12 DEF SubmitSpawn, StartWorker
<1>13. CASE Cancel
  BY <1>13 DEF Cancel
<1>14. CASE Receive
  BY <1>14 DEF Receive
<1>15. CASE CloseFence
  BY <1>15 DEF CloseFence
<1>16. CASE CloseOnce
  BY <1>16 DEF CloseOnce
<1>17. CASE CloseWorkers
  BY <1>17 DEF CloseWorkers
<1>18. CASE CloseStreams
  BY <1>18 DEF CloseStreams
<1>19. CASE CloseClient
  BY <1>19 DEF CloseClient
<1>20. CASE CloseWait
  BY <1>20 DEF CloseWait
<1>21. ASSUME NEW r \in Runs, Submit(r) PROVE InitInv'
  BY <1>21 DEF Submit, Initialized
<1>22. ASSUME NEW err \in StartErrors, StartFailed(err) PROVE InitInv'
  BY <1>22 DEF StartFailed, RejectedStartCanRetry
<1>23. ASSUME NEW b \in BOOLEAN, CancelReturns(b) PROVE InitInv'
  BY <1>23 DEF CancelReturns, ClearActiveRun
<1>24. ASSUME NEW t \in Restorers, RestoreCheck(t) PROVE InitInv'
  BY <1>24 DEF RestoreCheck, RestoreReturns
<1>25. ASSUME NEW t \in Restorers, RestoreReconnect(t) PROVE InitInv'
  BY <1>25 DEF RestoreReconnect, Acquire, RestoreReturns, RestoreFails, InitializeForRestoreFails
<1>26. ASSUME NEW t \in Restorers, RestoreLost(t) PROVE InitInv'
  BY <1>26 DEF RestoreLost, RestoreReturns, RestoreFails, ActiveRunExists
<1>27. ASSUME NEW t \in Restorers, RestoreFresh(t) PROVE InitInv'
  BY <1>27 DEF RestoreFresh, Acquire, RestoreReturns, RestoreFails, InitializeForRestoreFails
<1>28. ASSUME NEW t \in Restorers, RestoreInstall(t) PROVE InitInv'
  BY <1>28 DEF RestoreInstall, CloseHeld, RestoreReturns, RestoreFails
<1>29. ASSUME NEW t \in Restorers, RestoreCloseOld(t) PROVE InitInv'
  BY <1>29 DEF RestoreCloseOld, CloseHeld
<1>30. ASSUME NEW t \in Restorers, RestorePublish(t) PROVE InitInv'
  BY <1>30 DEF RestorePublish, RestoreReturns, Published, PublishClosed
<1>31. ASSUME NEW o \in Observers, OpenStream(o) PROVE InitInv'
  BY <1>31 DEF OpenStream
<1>32. ASSUME NEW o \in Observers, RegisterStream(o) PROVE InitInv'
  BY <1>32 DEF RegisterStream
<1>33. ASSUME NEW o \in Observers, PublishReconnected(o) PROVE InitInv'
  BY <1>33 DEF PublishReconnected, Published, PublishClosed
<1>34. ASSUME NEW o \in Observers, Consume(o) PROVE InitInv'
  BY <1>34 DEF Consume
<1>35. ASSUME NEW o \in Observers, HandleFrame(o) PROVE InitInv'
  BY <1>35 DEF HandleFrame, Published, PublishClosed
<1>36. ASSUME NEW o \in Observers, ReleaseStream(o) PROVE InitInv'
  BY <1>36 DEF ReleaseStream, AfterRelease
<1>37. ASSUME NEW o \in Observers, ObserveTerminal(o) PROVE InitInv'
  BY <1>37 DEF ObserveTerminal, ClearActiveRun
<1>38. ASSUME NEW o \in Observers, AnnounceReconnecting(o) PROVE InitInv'
  BY <1>38 DEF AnnounceReconnecting, Published, PublishClosed
<1>39. ASSUME NEW o \in Observers, WaitToReconnect(o) PROVE InitInv'
  BY <1>39 DEF WaitToReconnect
<1>40. ASSUME NEW o \in Observers, RestoreLock(o) PROVE InitInv'
  BY <1>40 DEF RestoreLock, LockReconnect
<1>41. ASSUME NEW o \in Observers, RecordFailure(o) PROVE InitInv'
  BY <1>41 DEF RecordFailure
<1>42. ASSUME NEW o \in Observers, ReportFailure(o) PROVE InitInv'
  BY <1>42 DEF ReportFailure, Published, PublishClosed
<1>43. CASE UNCHANGED vars
  BY <1>43
<1> QED
  BY <1>1, <1>2, <1>3, <1>4, <1>5, <1>6, <1>7, <1>8, <1>9, <1>10, <1>11, <1>12, <1>13,
     <1>14, <1>15, <1>16, <1>17, <1>18, <1>19, <1>20, <1>21, <1>22, <1>23, <1>24, <1>25,
     <1>26, <1>27, <1>28, <1>29, <1>30, <1>31, <1>32, <1>33, <1>34, <1>35, <1>36, <1>37,
     <1>38, <1>39, <1>40, <1>41, <1>42, <1>43
     DEF Next, User, System, Initialize, SubmitStep, Observe, Restore, Close, Terminated

(* Only the submit lane of a run starts its worker. *)
LEMMA WorkerStep == TypeOK /\ LockInv /\ WorkerInv /\ [Next]_vars => WorkerInv'
<1> SUFFICES ASSUME TypeOK /\ LockInv /\ WorkerInv, [Next]_vars PROVE WorkerInv'
  OBVIOUS
<1> USE DEF TypeOK, StatesOK, LockInv, WorkerInv, RestorePCs, SubmitPCs
<1>1. CASE EnsureInitialized
  BY <1>1 DEF EnsureInitialized
<1>2. CASE InitializeFails
  BY <1>2 DEF InitializeFails
<1>3. CASE InitializeRejected
  BY <1>3 DEF InitializeRejected, Acquire
<1>4. CASE InitializeConnected
  BY <1>4 DEF InitializeConnected, Acquire
<1>5. CASE InitializeInstall
  BY <1>5 DEF InitializeInstall
<1>6. CASE InitializeSnapshot
  BY <1>6 DEF InitializeSnapshot, Published, PublishClosed
<1>7. CASE InitializeSpawn
  BY <1>7 DEF InitializeSpawn, StartWorker
<1>8. CASE SubmitLock
  BY <1>8 DEF SubmitLock, LockReconnect
<1>9. CASE StartAccepted
  BY <1>9 DEF StartAccepted
<1>10. CASE SubmitRecord
  BY <1>10 DEF SubmitRecord
<1>11. CASE SubmitHistory
  BY <1>11 DEF SubmitHistory, Published, PublishClosed
<1>12. CASE SubmitSpawn
  BY <1>12 DEF SubmitSpawn, StartWorker
<1>13. CASE Cancel
  BY <1>13 DEF Cancel
<1>14. CASE Receive
  BY <1>14 DEF Receive
<1>15. CASE CloseFence
  BY <1>15 DEF CloseFence
<1>16. CASE CloseOnce
  BY <1>16 DEF CloseOnce
<1>17. CASE CloseWorkers
  BY <1>17 DEF CloseWorkers
<1>18. CASE CloseStreams
  BY <1>18 DEF CloseStreams
<1>19. CASE CloseClient
  BY <1>19 DEF CloseClient
<1>20. CASE CloseWait
  BY <1>20 DEF CloseWait
<1>21. ASSUME NEW r \in Runs, Submit(r) PROVE WorkerInv'
  BY <1>21 DEF Submit, Initialized
<1>22. ASSUME NEW err \in StartErrors, StartFailed(err) PROVE WorkerInv'
  BY <1>22 DEF StartFailed, RejectedStartCanRetry
<1>23. ASSUME NEW b \in BOOLEAN, CancelReturns(b) PROVE WorkerInv'
  BY <1>23 DEF CancelReturns, ClearActiveRun
<1>24. ASSUME NEW t \in Restorers, RestoreCheck(t) PROVE WorkerInv'
  BY <1>24 DEF RestoreCheck, RestoreReturns
<1>25. ASSUME NEW t \in Restorers, RestoreReconnect(t) PROVE WorkerInv'
  BY <1>25 DEF RestoreReconnect, Acquire, RestoreReturns, RestoreFails, InitializeForRestoreFails
<1>26. ASSUME NEW t \in Restorers, RestoreLost(t) PROVE WorkerInv'
  BY <1>26 DEF RestoreLost, RestoreReturns, RestoreFails, ActiveRunExists
<1>27. ASSUME NEW t \in Restorers, RestoreFresh(t) PROVE WorkerInv'
  BY <1>27 DEF RestoreFresh, Acquire, RestoreReturns, RestoreFails, InitializeForRestoreFails
<1>28. ASSUME NEW t \in Restorers, RestoreInstall(t) PROVE WorkerInv'
  BY <1>28 DEF RestoreInstall, CloseHeld, RestoreReturns, RestoreFails
<1>29. ASSUME NEW t \in Restorers, RestoreCloseOld(t) PROVE WorkerInv'
  BY <1>29 DEF RestoreCloseOld, CloseHeld
<1>30. ASSUME NEW t \in Restorers, RestorePublish(t) PROVE WorkerInv'
  BY <1>30 DEF RestorePublish, RestoreReturns, Published, PublishClosed
<1>31. ASSUME NEW o \in Observers, OpenStream(o) PROVE WorkerInv'
  BY <1>31 DEF OpenStream
<1>32. ASSUME NEW o \in Observers, RegisterStream(o) PROVE WorkerInv'
  BY <1>32 DEF RegisterStream
<1>33. ASSUME NEW o \in Observers, PublishReconnected(o) PROVE WorkerInv'
  BY <1>33 DEF PublishReconnected, Published, PublishClosed
<1>34. ASSUME NEW o \in Observers, Consume(o) PROVE WorkerInv'
  BY <1>34 DEF Consume
<1>35. ASSUME NEW o \in Observers, HandleFrame(o) PROVE WorkerInv'
  BY <1>35 DEF HandleFrame, Published, PublishClosed
<1>36. ASSUME NEW o \in Observers, ReleaseStream(o) PROVE WorkerInv'
  BY <1>36 DEF ReleaseStream, AfterRelease
<1>37. ASSUME NEW o \in Observers, ObserveTerminal(o) PROVE WorkerInv'
  BY <1>37 DEF ObserveTerminal, ClearActiveRun
<1>38. ASSUME NEW o \in Observers, AnnounceReconnecting(o) PROVE WorkerInv'
  BY <1>38 DEF AnnounceReconnecting, Published, PublishClosed
<1>39. ASSUME NEW o \in Observers, WaitToReconnect(o) PROVE WorkerInv'
  BY <1>39 DEF WaitToReconnect
<1>40. ASSUME NEW o \in Observers, RestoreLock(o) PROVE WorkerInv'
  BY <1>40 DEF RestoreLock, LockReconnect
<1>41. ASSUME NEW o \in Observers, RecordFailure(o) PROVE WorkerInv'
  BY <1>41 DEF RecordFailure
<1>42. ASSUME NEW o \in Observers, ReportFailure(o) PROVE WorkerInv'
  BY <1>42 DEF ReportFailure, Published, PublishClosed
<1>43. CASE UNCHANGED vars
  BY <1>43
<1> QED
  BY <1>1, <1>2, <1>3, <1>4, <1>5, <1>6, <1>7, <1>8, <1>9, <1>10, <1>11, <1>12, <1>13,
     <1>14, <1>15, <1>16, <1>17, <1>18, <1>19, <1>20, <1>21, <1>22, <1>23, <1>24, <1>25,
     <1>26, <1>27, <1>28, <1>29, <1>30, <1>31, <1>32, <1>33, <1>34, <1>35, <1>36, <1>37,
     <1>38, <1>39, <1>40, <1>41, <1>42, <1>43
     DEF Next, User, System, Initialize, SubmitStep, Observe, Restore, Close, Terminated

(* The generation moves only in the step that installs a replacement. *)
LEMMA GenerationStep == TypeOK /\ LockInv /\ InitInv /\ GenerationInv /\ [Next]_vars => GenerationInv'
<1> SUFFICES ASSUME TypeOK /\ LockInv /\ InitInv /\ GenerationInv, [Next]_vars PROVE GenerationInv'
  OBVIOUS
<1> USE DEF TypeOK, StatesOK, LockInv, InitInv, GenerationInv, RestorePCs, SubmitPCs
<1>1. CASE EnsureInitialized
  BY <1>1 DEF EnsureInitialized
<1>2. CASE InitializeFails
  BY <1>2 DEF InitializeFails
<1>3. CASE InitializeRejected
  BY <1>3 DEF InitializeRejected, Acquire
<1>4. CASE InitializeConnected
  BY <1>4 DEF InitializeConnected, Acquire
<1>5. CASE InitializeInstall
  BY <1>5 DEF InitializeInstall
<1>6. CASE InitializeSnapshot
  BY <1>6 DEF InitializeSnapshot, Published, PublishClosed
<1>7. CASE InitializeSpawn
  BY <1>7 DEF InitializeSpawn, StartWorker
<1>8. CASE SubmitLock
  BY <1>8 DEF SubmitLock, LockReconnect
<1>9. CASE StartAccepted
  BY <1>9 DEF StartAccepted
<1>10. CASE SubmitRecord
  BY <1>10 DEF SubmitRecord
<1>11. CASE SubmitHistory
  BY <1>11 DEF SubmitHistory, Published, PublishClosed
<1>12. CASE SubmitSpawn
  BY <1>12 DEF SubmitSpawn, StartWorker
<1>13. CASE Cancel
  BY <1>13 DEF Cancel
<1>14. CASE Receive
  BY <1>14 DEF Receive
<1>15. CASE CloseFence
  BY <1>15 DEF CloseFence
<1>16. CASE CloseOnce
  BY <1>16 DEF CloseOnce
<1>17. CASE CloseWorkers
  BY <1>17 DEF CloseWorkers
<1>18. CASE CloseStreams
  BY <1>18 DEF CloseStreams
<1>19. CASE CloseClient
  BY <1>19 DEF CloseClient
<1>20. CASE CloseWait
  BY <1>20 DEF CloseWait
<1>21. ASSUME NEW r \in Runs, Submit(r) PROVE GenerationInv'
  BY <1>21 DEF Submit, Initialized
<1>22. ASSUME NEW err \in StartErrors, StartFailed(err) PROVE GenerationInv'
  BY <1>22 DEF StartFailed, RejectedStartCanRetry
<1>23. ASSUME NEW b \in BOOLEAN, CancelReturns(b) PROVE GenerationInv'
  BY <1>23 DEF CancelReturns, ClearActiveRun
<1>24. ASSUME NEW t \in Restorers, RestoreCheck(t) PROVE GenerationInv'
  BY <1>24 DEF RestoreCheck, RestoreReturns
<1>25. ASSUME NEW t \in Restorers, RestoreReconnect(t) PROVE GenerationInv'
  BY <1>25 DEF RestoreReconnect, Acquire, RestoreReturns, RestoreFails, InitializeForRestoreFails
<1>26. ASSUME NEW t \in Restorers, RestoreLost(t) PROVE GenerationInv'
  BY <1>26 DEF RestoreLost, RestoreReturns, RestoreFails, ActiveRunExists
<1>27. ASSUME NEW t \in Restorers, RestoreFresh(t) PROVE GenerationInv'
  BY <1>27 DEF RestoreFresh, Acquire, RestoreReturns, RestoreFails, InitializeForRestoreFails
<1>28. ASSUME NEW t \in Restorers, RestoreInstall(t) PROVE GenerationInv'
  BY <1>28 DEF RestoreInstall, CloseHeld, RestoreReturns, RestoreFails
<1>29. ASSUME NEW t \in Restorers, RestoreCloseOld(t) PROVE GenerationInv'
  BY <1>29 DEF RestoreCloseOld, CloseHeld
<1>30. ASSUME NEW t \in Restorers, RestorePublish(t) PROVE GenerationInv'
  BY <1>30 DEF RestorePublish, RestoreReturns, Published, PublishClosed
<1>31. ASSUME NEW o \in Observers, OpenStream(o) PROVE GenerationInv'
  BY <1>31 DEF OpenStream
<1>32. ASSUME NEW o \in Observers, RegisterStream(o) PROVE GenerationInv'
  BY <1>32 DEF RegisterStream
<1>33. ASSUME NEW o \in Observers, PublishReconnected(o) PROVE GenerationInv'
  BY <1>33 DEF PublishReconnected, Published, PublishClosed
<1>34. ASSUME NEW o \in Observers, Consume(o) PROVE GenerationInv'
  BY <1>34 DEF Consume
<1>35. ASSUME NEW o \in Observers, HandleFrame(o) PROVE GenerationInv'
  BY <1>35 DEF HandleFrame, Published, PublishClosed
<1>36. ASSUME NEW o \in Observers, ReleaseStream(o) PROVE GenerationInv'
  BY <1>36 DEF ReleaseStream, AfterRelease
<1>37. ASSUME NEW o \in Observers, ObserveTerminal(o) PROVE GenerationInv'
  BY <1>37 DEF ObserveTerminal, ClearActiveRun
<1>38. ASSUME NEW o \in Observers, AnnounceReconnecting(o) PROVE GenerationInv'
  BY <1>38 DEF AnnounceReconnecting, Published, PublishClosed
<1>39. ASSUME NEW o \in Observers, WaitToReconnect(o) PROVE GenerationInv'
  BY <1>39 DEF WaitToReconnect
<1>40. ASSUME NEW o \in Observers, RestoreLock(o) PROVE GenerationInv'
  BY <1>40 DEF RestoreLock, LockReconnect
<1>41. ASSUME NEW o \in Observers, RecordFailure(o) PROVE GenerationInv'
  BY <1>41 DEF RecordFailure
<1>42. ASSUME NEW o \in Observers, ReportFailure(o) PROVE GenerationInv'
  BY <1>42 DEF ReportFailure, Published, PublishClosed
<1>43. CASE UNCHANGED vars
  BY <1>43
<1> QED
  BY <1>1, <1>2, <1>3, <1>4, <1>5, <1>6, <1>7, <1>8, <1>9, <1>10, <1>11, <1>12, <1>13,
     <1>14, <1>15, <1>16, <1>17, <1>18, <1>19, <1>20, <1>21, <1>22, <1>23, <1>24, <1>25,
     <1>26, <1>27, <1>28, <1>29, <1>30, <1>31, <1>32, <1>33, <1>34, <1>35, <1>36, <1>37,
     <1>38, <1>39, <1>40, <1>41, <1>42, <1>43
     DEF Next, User, System, Initialize, SubmitStep, Observe, Restore, Close, Terminated

(* No run becomes active while a fresh session is on its way. *)
LEMMA FreshStep == TypeOK /\ LockInv /\ FreshInv /\ [Next]_vars => FreshInv'
<1> SUFFICES ASSUME TypeOK /\ LockInv /\ FreshInv, [Next]_vars PROVE FreshInv'
  OBVIOUS
<1> USE DEF TypeOK, StatesOK, LockInv, FreshInv, RestorePCs, SubmitPCs
<1>1. CASE EnsureInitialized
  BY <1>1 DEF EnsureInitialized
<1>2. CASE InitializeFails
  BY <1>2 DEF InitializeFails
<1>3. CASE InitializeRejected
  BY <1>3 DEF InitializeRejected, Acquire
<1>4. CASE InitializeConnected
  BY <1>4 DEF InitializeConnected, Acquire
<1>5. CASE InitializeInstall
  BY <1>5 DEF InitializeInstall
<1>6. CASE InitializeSnapshot
  BY <1>6 DEF InitializeSnapshot, Published, PublishClosed
<1>7. CASE InitializeSpawn
  BY <1>7 DEF InitializeSpawn, StartWorker
<1>8. CASE SubmitLock
  BY <1>8 DEF SubmitLock, LockReconnect
<1>9. CASE StartAccepted
  BY <1>9 DEF StartAccepted
<1>10. CASE SubmitRecord
  BY <1>10 DEF SubmitRecord
<1>11. CASE SubmitHistory
  BY <1>11 DEF SubmitHistory, Published, PublishClosed
<1>12. CASE SubmitSpawn
  BY <1>12 DEF SubmitSpawn, StartWorker
<1>13. CASE Cancel
  BY <1>13 DEF Cancel
<1>14. CASE Receive
  BY <1>14 DEF Receive
<1>15. CASE CloseFence
  BY <1>15 DEF CloseFence
<1>16. CASE CloseOnce
  BY <1>16 DEF CloseOnce
<1>17. CASE CloseWorkers
  BY <1>17 DEF CloseWorkers
<1>18. CASE CloseStreams
  BY <1>18 DEF CloseStreams
<1>19. CASE CloseClient
  BY <1>19 DEF CloseClient
<1>20. CASE CloseWait
  BY <1>20 DEF CloseWait
<1>21. ASSUME NEW r \in Runs, Submit(r) PROVE FreshInv'
  BY <1>21 DEF Submit, Initialized
<1>22. ASSUME NEW err \in StartErrors, StartFailed(err) PROVE FreshInv'
  BY <1>22 DEF StartFailed, RejectedStartCanRetry
<1>23. ASSUME NEW b \in BOOLEAN, CancelReturns(b) PROVE FreshInv'
  BY <1>23 DEF CancelReturns, ClearActiveRun
<1>24. ASSUME NEW t \in Restorers, RestoreCheck(t) PROVE FreshInv'
  BY <1>24 DEF RestoreCheck, RestoreReturns
<1>25. ASSUME NEW t \in Restorers, RestoreReconnect(t) PROVE FreshInv'
  <2> SUFFICES ASSUME NEW u \in Restorers, pc'[u] = "fresh" \/ (pc'[u] = "install" /\ fresh'[u])
               PROVE  activeRun' = NoRun
    OBVIOUS
  <2>1. u # t => pc'[u] = pc[u] /\ pc[u] \notin RestorePCs
    BY <1>25 DEF RestoreReconnect, Acquire, RestoreReturns, RestoreFails, InitializeForRestoreFails
  <2>2. u = t /\ pc'[u] = "install" => fresh'[u] = FALSE
    BY <1>25 DEF FlagsOK, RestoreReconnect, Acquire, RestoreReturns, RestoreFails, InitializeForRestoreFails
  <2>3. u = t => pc'[u] # "fresh"
    BY <1>25 DEF RestoreReconnect, Acquire, RestoreReturns, RestoreFails, InitializeForRestoreFails
  <2> QED
    BY <2>1, <2>2, <2>3
<1>26. ASSUME NEW t \in Restorers, RestoreLost(t) PROVE FreshInv'
  BY <1>26 DEF RestoreLost, RestoreReturns, RestoreFails, ActiveRunExists
<1>27. ASSUME NEW t \in Restorers, RestoreFresh(t) PROVE FreshInv'
  BY <1>27 DEF RestoreFresh, Acquire, RestoreReturns, RestoreFails, InitializeForRestoreFails
<1>28. ASSUME NEW t \in Restorers, RestoreInstall(t) PROVE FreshInv'
  BY <1>28 DEF RestoreInstall, CloseHeld, RestoreReturns, RestoreFails
<1>29. ASSUME NEW t \in Restorers, RestoreCloseOld(t) PROVE FreshInv'
  BY <1>29 DEF RestoreCloseOld, CloseHeld
<1>30. ASSUME NEW t \in Restorers, RestorePublish(t) PROVE FreshInv'
  BY <1>30 DEF RestorePublish, RestoreReturns, Published, PublishClosed
<1>31. ASSUME NEW o \in Observers, OpenStream(o) PROVE FreshInv'
  BY <1>31 DEF OpenStream
<1>32. ASSUME NEW o \in Observers, RegisterStream(o) PROVE FreshInv'
  BY <1>32 DEF RegisterStream
<1>33. ASSUME NEW o \in Observers, PublishReconnected(o) PROVE FreshInv'
  BY <1>33 DEF PublishReconnected, Published, PublishClosed
<1>34. ASSUME NEW o \in Observers, Consume(o) PROVE FreshInv'
  BY <1>34 DEF Consume
<1>35. ASSUME NEW o \in Observers, HandleFrame(o) PROVE FreshInv'
  BY <1>35 DEF HandleFrame, Published, PublishClosed
<1>36. ASSUME NEW o \in Observers, ReleaseStream(o) PROVE FreshInv'
  BY <1>36 DEF ReleaseStream, AfterRelease
<1>37. ASSUME NEW o \in Observers, ObserveTerminal(o) PROVE FreshInv'
  BY <1>37 DEF ObserveTerminal, ClearActiveRun
<1>38. ASSUME NEW o \in Observers, AnnounceReconnecting(o) PROVE FreshInv'
  BY <1>38 DEF AnnounceReconnecting, Published, PublishClosed
<1>39. ASSUME NEW o \in Observers, WaitToReconnect(o) PROVE FreshInv'
  BY <1>39 DEF WaitToReconnect
<1>40. ASSUME NEW o \in Observers, RestoreLock(o) PROVE FreshInv'
  BY <1>40 DEF RestoreLock, LockReconnect
<1>41. ASSUME NEW o \in Observers, RecordFailure(o) PROVE FreshInv'
  BY <1>41 DEF RecordFailure
<1>42. ASSUME NEW o \in Observers, ReportFailure(o) PROVE FreshInv'
  BY <1>42 DEF ReportFailure, Published, PublishClosed
<1>43. CASE UNCHANGED vars
  BY <1>43
<1> QED
  BY <1>1, <1>2, <1>3, <1>4, <1>5, <1>6, <1>7, <1>8, <1>9, <1>10, <1>11, <1>12, <1>13,
     <1>14, <1>15, <1>16, <1>17, <1>18, <1>19, <1>20, <1>21, <1>22, <1>23, <1>24, <1>25,
     <1>26, <1>27, <1>28, <1>29, <1>30, <1>31, <1>32, <1>33, <1>34, <1>35, <1>36, <1>37,
     <1>38, <1>39, <1>40, <1>41, <1>42, <1>43
     DEF Next, User, System, Initialize, SubmitStep, Observe, Restore, Close, Terminated

(* A Start is repeated only when the daemon did not accept the first one. *)
LEMMA AcceptedStep == TypeOK /\ LockInv /\ AcceptedInv /\ [Next]_vars => AcceptedInv'
<1> SUFFICES ASSUME TypeOK /\ LockInv /\ AcceptedInv, [Next]_vars PROVE AcceptedInv'
  OBVIOUS
<1> USE DEF TypeOK, StatesOK, LockInv, AcceptedInv, StartAcceptedAtMostOnce, RestorePCs, SubmitPCs
<1>1. CASE EnsureInitialized
  BY <1>1 DEF EnsureInitialized
<1>2. CASE InitializeFails
  BY <1>2 DEF InitializeFails
<1>3. CASE InitializeRejected
  BY <1>3 DEF InitializeRejected, Acquire
<1>4. CASE InitializeConnected
  BY <1>4 DEF InitializeConnected, Acquire
<1>5. CASE InitializeInstall
  BY <1>5 DEF InitializeInstall
<1>6. CASE InitializeSnapshot
  BY <1>6 DEF InitializeSnapshot, Published, PublishClosed
<1>7. CASE InitializeSpawn
  BY <1>7 DEF InitializeSpawn, StartWorker
<1>8. CASE SubmitLock
  BY <1>8 DEF SubmitLock, LockReconnect
<1>9. CASE StartAccepted
  BY <1>9 DEF StartAccepted
<1>10. CASE SubmitRecord
  BY <1>10 DEF SubmitRecord
<1>11. CASE SubmitHistory
  BY <1>11 DEF SubmitHistory, Published, PublishClosed
<1>12. CASE SubmitSpawn
  BY <1>12 DEF SubmitSpawn, StartWorker
<1>13. CASE Cancel
  BY <1>13 DEF Cancel
<1>14. CASE Receive
  BY <1>14 DEF Receive
<1>15. CASE CloseFence
  BY <1>15 DEF CloseFence
<1>16. CASE CloseOnce
  BY <1>16 DEF CloseOnce
<1>17. CASE CloseWorkers
  BY <1>17 DEF CloseWorkers
<1>18. CASE CloseStreams
  BY <1>18 DEF CloseStreams
<1>19. CASE CloseClient
  BY <1>19 DEF CloseClient
<1>20. CASE CloseWait
  BY <1>20 DEF CloseWait
<1>21. ASSUME NEW r \in Runs, Submit(r) PROVE AcceptedInv'
  BY <1>21 DEF Submit, Initialized
<1>22. ASSUME NEW err \in StartErrors, StartFailed(err) PROVE AcceptedInv'
  BY <1>22 DEF StartFailed, RejectedStartCanRetry
<1>23. ASSUME NEW b \in BOOLEAN, CancelReturns(b) PROVE AcceptedInv'
  BY <1>23 DEF CancelReturns, ClearActiveRun
<1>24. ASSUME NEW t \in Restorers, RestoreCheck(t) PROVE AcceptedInv'
  BY <1>24 DEF RestoreCheck, RestoreReturns
<1>25. ASSUME NEW t \in Restorers, RestoreReconnect(t) PROVE AcceptedInv'
  BY <1>25 DEF RestoreReconnect, Acquire, RestoreReturns, RestoreFails, InitializeForRestoreFails
<1>26. ASSUME NEW t \in Restorers, RestoreLost(t) PROVE AcceptedInv'
  BY <1>26 DEF RestoreLost, RestoreReturns, RestoreFails, ActiveRunExists
<1>27. ASSUME NEW t \in Restorers, RestoreFresh(t) PROVE AcceptedInv'
  BY <1>27 DEF RestoreFresh, Acquire, RestoreReturns, RestoreFails, InitializeForRestoreFails
<1>28. ASSUME NEW t \in Restorers, RestoreInstall(t) PROVE AcceptedInv'
  BY <1>28 DEF RestoreInstall, CloseHeld, RestoreReturns, RestoreFails
<1>29. ASSUME NEW t \in Restorers, RestoreCloseOld(t) PROVE AcceptedInv'
  BY <1>29 DEF RestoreCloseOld, CloseHeld
<1>30. ASSUME NEW t \in Restorers, RestorePublish(t) PROVE AcceptedInv'
  BY <1>30 DEF RestorePublish, RestoreReturns, Published, PublishClosed
<1>31. ASSUME NEW o \in Observers, OpenStream(o) PROVE AcceptedInv'
  BY <1>31 DEF OpenStream
<1>32. ASSUME NEW o \in Observers, RegisterStream(o) PROVE AcceptedInv'
  BY <1>32 DEF RegisterStream
<1>33. ASSUME NEW o \in Observers, PublishReconnected(o) PROVE AcceptedInv'
  BY <1>33 DEF PublishReconnected, Published, PublishClosed
<1>34. ASSUME NEW o \in Observers, Consume(o) PROVE AcceptedInv'
  BY <1>34 DEF Consume
<1>35. ASSUME NEW o \in Observers, HandleFrame(o) PROVE AcceptedInv'
  BY <1>35 DEF HandleFrame, Published, PublishClosed
<1>36. ASSUME NEW o \in Observers, ReleaseStream(o) PROVE AcceptedInv'
  BY <1>36 DEF ReleaseStream, AfterRelease
<1>37. ASSUME NEW o \in Observers, ObserveTerminal(o) PROVE AcceptedInv'
  BY <1>37 DEF ObserveTerminal, ClearActiveRun
<1>38. ASSUME NEW o \in Observers, AnnounceReconnecting(o) PROVE AcceptedInv'
  BY <1>38 DEF AnnounceReconnecting, Published, PublishClosed
<1>39. ASSUME NEW o \in Observers, WaitToReconnect(o) PROVE AcceptedInv'
  BY <1>39 DEF WaitToReconnect
<1>40. ASSUME NEW o \in Observers, RestoreLock(o) PROVE AcceptedInv'
  BY <1>40 DEF RestoreLock, LockReconnect
<1>41. ASSUME NEW o \in Observers, RecordFailure(o) PROVE AcceptedInv'
  BY <1>41 DEF RecordFailure
<1>42. ASSUME NEW o \in Observers, ReportFailure(o) PROVE AcceptedInv'
  BY <1>42 DEF ReportFailure, Published, PublishClosed
<1>43. CASE UNCHANGED vars
  BY <1>43
<1> QED
  BY <1>1, <1>2, <1>3, <1>4, <1>5, <1>6, <1>7, <1>8, <1>9, <1>10, <1>11, <1>12, <1>13,
     <1>14, <1>15, <1>16, <1>17, <1>18, <1>19, <1>20, <1>21, <1>22, <1>23, <1>24, <1>25,
     <1>26, <1>27, <1>28, <1>29, <1>30, <1>31, <1>32, <1>33, <1>34, <1>35, <1>36, <1>37,
     <1>38, <1>39, <1>40, <1>41, <1>42, <1>43
     DEF Next, User, System, Initialize, SubmitStep, Observe, Restore, Close, Terminated

(* Only Close closes, and it refuses workers after it has closed. *)
LEMMA CloseStep == TypeOK /\ CloseInv /\ [Next]_vars => CloseInv'
<1> SUFFICES ASSUME TypeOK /\ CloseInv, [Next]_vars PROVE CloseInv'
  OBVIOUS
<1> USE DEF TypeOK, StatesOK, FlagsOK, CloseInv
<1>1. CASE EnsureInitialized
  BY <1>1 DEF EnsureInitialized
<1>2. CASE InitializeFails
  BY <1>2 DEF InitializeFails
<1>3. CASE InitializeRejected
  BY <1>3 DEF InitializeRejected, Acquire
<1>4. CASE InitializeConnected
  BY <1>4 DEF InitializeConnected, Acquire
<1>5. CASE InitializeInstall
  BY <1>5 DEF InitializeInstall
<1>6. CASE InitializeSnapshot
  BY <1>6 DEF InitializeSnapshot, Published, PublishClosed
<1>7. CASE InitializeSpawn
  BY <1>7 DEF InitializeSpawn, StartWorker
<1>8. CASE SubmitLock
  BY <1>8 DEF SubmitLock, LockReconnect
<1>9. CASE StartAccepted
  BY <1>9 DEF StartAccepted
<1>10. CASE SubmitRecord
  BY <1>10 DEF SubmitRecord
<1>11. CASE SubmitHistory
  BY <1>11 DEF SubmitHistory, Published, PublishClosed
<1>12. CASE SubmitSpawn
  BY <1>12 DEF SubmitSpawn, StartWorker
<1>13. CASE Cancel
  BY <1>13 DEF Cancel
<1>14. CASE Receive
  BY <1>14 DEF Receive
<1>15. CASE CloseFence
  BY <1>15 DEF CloseFence
<1>16. CASE CloseOnce
  BY <1>16 DEF CloseOnce
<1>17. CASE CloseWorkers
  BY <1>17 DEF CloseWorkers
<1>18. CASE CloseStreams
  BY <1>18 DEF CloseStreams
<1>19. CASE CloseClient
  BY <1>19 DEF CloseClient
<1>20. CASE CloseWait
  BY <1>20 DEF CloseWait
<1>21. ASSUME NEW r \in Runs, Submit(r) PROVE CloseInv'
  BY <1>21 DEF Submit, Initialized
<1>22. ASSUME NEW err \in StartErrors, StartFailed(err) PROVE CloseInv'
  BY <1>22 DEF StartFailed, RejectedStartCanRetry
<1>23. ASSUME NEW b \in BOOLEAN, CancelReturns(b) PROVE CloseInv'
  BY <1>23 DEF CancelReturns, ClearActiveRun
<1>24. ASSUME NEW t \in Restorers, RestoreCheck(t) PROVE CloseInv'
  BY <1>24 DEF RestoreCheck, RestoreReturns
<1>25. ASSUME NEW t \in Restorers, RestoreReconnect(t) PROVE CloseInv'
  BY <1>25 DEF RestoreReconnect, Acquire, RestoreReturns, RestoreFails, InitializeForRestoreFails
<1>26. ASSUME NEW t \in Restorers, RestoreLost(t) PROVE CloseInv'
  BY <1>26 DEF RestoreLost, RestoreReturns, RestoreFails, ActiveRunExists
<1>27. ASSUME NEW t \in Restorers, RestoreFresh(t) PROVE CloseInv'
  BY <1>27 DEF RestoreFresh, Acquire, RestoreReturns, RestoreFails, InitializeForRestoreFails
<1>28. ASSUME NEW t \in Restorers, RestoreInstall(t) PROVE CloseInv'
  BY <1>28 DEF RestoreInstall, CloseHeld, RestoreReturns, RestoreFails
<1>29. ASSUME NEW t \in Restorers, RestoreCloseOld(t) PROVE CloseInv'
  BY <1>29 DEF RestoreCloseOld, CloseHeld
<1>30. ASSUME NEW t \in Restorers, RestorePublish(t) PROVE CloseInv'
  BY <1>30 DEF RestorePublish, RestoreReturns, Published, PublishClosed
<1>31. ASSUME NEW o \in Observers, OpenStream(o) PROVE CloseInv'
  BY <1>31 DEF OpenStream
<1>32. ASSUME NEW o \in Observers, RegisterStream(o) PROVE CloseInv'
  BY <1>32 DEF RegisterStream
<1>33. ASSUME NEW o \in Observers, PublishReconnected(o) PROVE CloseInv'
  BY <1>33 DEF PublishReconnected, Published, PublishClosed
<1>34. ASSUME NEW o \in Observers, Consume(o) PROVE CloseInv'
  BY <1>34 DEF Consume
<1>35. ASSUME NEW o \in Observers, HandleFrame(o) PROVE CloseInv'
  BY <1>35 DEF HandleFrame, Published, PublishClosed
<1>36. ASSUME NEW o \in Observers, ReleaseStream(o) PROVE CloseInv'
  BY <1>36 DEF ReleaseStream, AfterRelease
<1>37. ASSUME NEW o \in Observers, ObserveTerminal(o) PROVE CloseInv'
  BY <1>37 DEF ObserveTerminal, ClearActiveRun
<1>38. ASSUME NEW o \in Observers, AnnounceReconnecting(o) PROVE CloseInv'
  BY <1>38 DEF AnnounceReconnecting, Published, PublishClosed
<1>39. ASSUME NEW o \in Observers, WaitToReconnect(o) PROVE CloseInv'
  BY <1>39 DEF WaitToReconnect
<1>40. ASSUME NEW o \in Observers, RestoreLock(o) PROVE CloseInv'
  BY <1>40 DEF RestoreLock, LockReconnect
<1>41. ASSUME NEW o \in Observers, RecordFailure(o) PROVE CloseInv'
  BY <1>41 DEF RecordFailure
<1>42. ASSUME NEW o \in Observers, ReportFailure(o) PROVE CloseInv'
  BY <1>42 DEF ReportFailure, Published, PublishClosed
<1>43. CASE UNCHANGED vars
  BY <1>43
<1> QED
  BY <1>1, <1>2, <1>3, <1>4, <1>5, <1>6, <1>7, <1>8, <1>9, <1>10, <1>11, <1>12, <1>13,
     <1>14, <1>15, <1>16, <1>17, <1>18, <1>19, <1>20, <1>21, <1>22, <1>23, <1>24, <1>25,
     <1>26, <1>27, <1>28, <1>29, <1>30, <1>31, <1>32, <1>33, <1>34, <1>35, <1>36, <1>37,
     <1>38, <1>39, <1>40, <1>41, <1>42, <1>43
     DEF Next, User, System, Initialize, SubmitStep, Observe, Restore, Close, Terminated

(* While the session is open no step ends an observer without its reason. *)
LEMMA LoudStep == TypeOK /\ LockInv /\ CloseInv /\ LoudInv /\ [Next]_vars => LoudInv'
<1> SUFFICES ASSUME TypeOK /\ LockInv /\ CloseInv /\ LoudInv, [Next]_vars PROVE LoudInv'
  OBVIOUS
<1> USE DEF TypeOK, StatesOK, FlagsOK, PCs, LockInv, SubmitPCs, CloseInv, LoudInv, ObserversEndLoudly, ActiveRunObserved
<1>1. CASE EnsureInitialized
  BY <1>1 DEF EnsureInitialized
<1>2. CASE InitializeFails
  BY <1>2 DEF InitializeFails
<1>3. CASE InitializeRejected
  BY <1>3 DEF InitializeRejected, Acquire
<1>4. CASE InitializeConnected
  BY <1>4 DEF InitializeConnected, Acquire
<1>5. CASE InitializeInstall
  BY <1>5 DEF InitializeInstall
<1>6. CASE InitializeSnapshot
  BY <1>6 DEF InitializeSnapshot, Published, PublishClosed
<1>7. CASE InitializeSpawn
  BY <1>7 DEF InitializeSpawn, StartWorker
<1>8. CASE SubmitLock
  BY <1>8 DEF SubmitLock, LockReconnect
<1>9. CASE StartAccepted
  BY <1>9 DEF StartAccepted
<1>10. CASE SubmitRecord
  BY <1>10 DEF SubmitRecord
<1>11. CASE SubmitHistory
  BY <1>11 DEF SubmitHistory, Published, PublishClosed
<1>12. CASE SubmitSpawn
  BY <1>12 DEF SubmitSpawn, StartWorker
<1>13. CASE Cancel
  BY <1>13 DEF Cancel
<1>14. CASE Receive
  BY <1>14 DEF Receive
<1>15. CASE CloseFence
  BY <1>15 DEF CloseFence
<1>16. CASE CloseOnce
  BY <1>16 DEF CloseOnce
<1>17. CASE CloseWorkers
  BY <1>17 DEF CloseWorkers
<1>18. CASE CloseStreams
  BY <1>18 DEF CloseStreams
<1>19. CASE CloseClient
  BY <1>19 DEF CloseClient
<1>20. CASE CloseWait
  BY <1>20 DEF CloseWait
<1>21. ASSUME NEW r \in Runs, Submit(r) PROVE LoudInv'
  BY <1>21 DEF Submit, Initialized
<1>22. ASSUME NEW err \in StartErrors, StartFailed(err) PROVE LoudInv'
  BY <1>22 DEF StartFailed, RejectedStartCanRetry
<1>23. ASSUME NEW b \in BOOLEAN, CancelReturns(b) PROVE LoudInv'
  BY <1>23 DEF CancelReturns, ClearActiveRun
<1>24. ASSUME NEW t \in Restorers, RestoreCheck(t) PROVE LoudInv'
  BY <1>24 DEF RestoreCheck, RestoreReturns
<1>25. ASSUME NEW t \in Restorers, RestoreReconnect(t) PROVE LoudInv'
  BY <1>25 DEF RestoreReconnect, Acquire, RestoreReturns, RestoreFails, InitializeForRestoreFails
<1>26. ASSUME NEW t \in Restorers, RestoreLost(t) PROVE LoudInv'
  BY <1>26 DEF RestoreLost, RestoreReturns, RestoreFails, ActiveRunExists
<1>27. ASSUME NEW t \in Restorers, RestoreFresh(t) PROVE LoudInv'
  BY <1>27 DEF RestoreFresh, Acquire, RestoreReturns, RestoreFails, InitializeForRestoreFails
<1>28. ASSUME NEW t \in Restorers, RestoreInstall(t) PROVE LoudInv'
  BY <1>28 DEF RestoreInstall, CloseHeld, RestoreReturns, RestoreFails
<1>29. ASSUME NEW t \in Restorers, RestoreCloseOld(t) PROVE LoudInv'
  BY <1>29 DEF RestoreCloseOld, CloseHeld
<1>30. ASSUME NEW t \in Restorers, RestorePublish(t) PROVE LoudInv'
  BY <1>30 DEF RestorePublish, RestoreReturns, Published, PublishClosed
<1>31. ASSUME NEW o \in Observers, OpenStream(o) PROVE LoudInv'
  BY <1>31 DEF OpenStream
<1>32. ASSUME NEW o \in Observers, RegisterStream(o) PROVE LoudInv'
  BY <1>32 DEF RegisterStream
<1>33. ASSUME NEW o \in Observers, PublishReconnected(o) PROVE LoudInv'
  BY <1>33 DEF PublishReconnected, Published, PublishClosed
<1>34. ASSUME NEW o \in Observers, Consume(o) PROVE LoudInv'
  BY <1>34 DEF Consume
<1>35. ASSUME NEW o \in Observers, HandleFrame(o) PROVE LoudInv'
  BY <1>35 DEF HandleFrame, Published, PublishClosed
<1>36. ASSUME NEW o \in Observers, ReleaseStream(o) PROVE LoudInv'
  BY <1>36 DEF ReleaseStream, AfterRelease
<1>37. ASSUME NEW o \in Observers, ObserveTerminal(o) PROVE LoudInv'
  BY <1>37 DEF ObserveTerminal, ClearActiveRun
<1>38. ASSUME NEW o \in Observers, AnnounceReconnecting(o) PROVE LoudInv'
  BY <1>38 DEF AnnounceReconnecting, Published, PublishClosed
<1>39. ASSUME NEW o \in Observers, WaitToReconnect(o) PROVE LoudInv'
  BY <1>39 DEF WaitToReconnect
<1>40. ASSUME NEW o \in Observers, RestoreLock(o) PROVE LoudInv'
  BY <1>40 DEF RestoreLock, LockReconnect
<1>41. ASSUME NEW o \in Observers, RecordFailure(o) PROVE LoudInv'
  BY <1>41 DEF RecordFailure
<1>42. ASSUME NEW o \in Observers, ReportFailure(o) PROVE LoudInv'
  BY <1>42 DEF ReportFailure, Published, PublishClosed
<1>43. CASE UNCHANGED vars
  BY <1>43
<1> QED
  BY <1>1, <1>2, <1>3, <1>4, <1>5, <1>6, <1>7, <1>8, <1>9, <1>10, <1>11, <1>12, <1>13,
     <1>14, <1>15, <1>16, <1>17, <1>18, <1>19, <1>20, <1>21, <1>22, <1>23, <1>24, <1>25,
     <1>26, <1>27, <1>28, <1>29, <1>30, <1>31, <1>32, <1>33, <1>34, <1>35, <1>36, <1>37,
     <1>38, <1>39, <1>40, <1>41, <1>42, <1>43
     DEF Next, User, System, Initialize, SubmitStep, Observe, Restore, Close, Terminated

(* Workers start only where none ran, and none after the fence. *)
LEMMA JoinStep == TypeOK /\ LockInv /\ InitInv /\ WorkerInv /\ CloseInv /\ JoinInv /\ [Next]_vars => JoinInv'
<1> SUFFICES ASSUME TypeOK /\ LockInv /\ InitInv /\ WorkerInv /\ CloseInv /\ JoinInv, [Next]_vars PROVE JoinInv'
  OBVIOUS
<1> USE DEF TypeOK, StatesOK, FlagsOK, PCs, RestorePCs, LockInv, InitInv, WorkerInv, CloseInv, JoinInv
<1>1. CASE EnsureInitialized
  BY <1>1 DEF EnsureInitialized
<1>2. CASE InitializeFails
  BY <1>2 DEF InitializeFails
<1>3. CASE InitializeRejected
  BY <1>3 DEF InitializeRejected, Acquire
<1>4. CASE InitializeConnected
  BY <1>4 DEF InitializeConnected, Acquire
<1>5. CASE InitializeInstall
  BY <1>5 DEF InitializeInstall
<1>6. CASE InitializeSnapshot
  BY <1>6 DEF InitializeSnapshot, Published, PublishClosed
<1>7. CASE InitializeSpawn
  BY <1>7 DEF InitializeSpawn, StartWorker
<1>8. CASE SubmitLock
  BY <1>8 DEF SubmitLock, LockReconnect
<1>9. CASE StartAccepted
  BY <1>9 DEF StartAccepted
<1>10. CASE SubmitRecord
  BY <1>10 DEF SubmitRecord
<1>11. CASE SubmitHistory
  BY <1>11 DEF SubmitHistory, Published, PublishClosed
<1>12. CASE SubmitSpawn
  BY <1>12 DEF SubmitSpawn, StartWorker
<1>13. CASE Cancel
  BY <1>13 DEF Cancel
<1>14. CASE Receive
  BY <1>14 DEF Receive
<1>15. CASE CloseFence
  BY <1>15 DEF CloseFence
<1>16. CASE CloseOnce
  BY <1>16 DEF CloseOnce
<1>17. CASE CloseWorkers
  BY <1>17 DEF CloseWorkers
<1>18. CASE CloseStreams
  BY <1>18 DEF CloseStreams
<1>19. CASE CloseClient
  BY <1>19 DEF CloseClient
<1>20. CASE CloseWait
  BY <1>20 DEF CloseWait
<1>21. ASSUME NEW r \in Runs, Submit(r) PROVE JoinInv'
  BY <1>21 DEF Submit, Initialized
<1>22. ASSUME NEW err \in StartErrors, StartFailed(err) PROVE JoinInv'
  BY <1>22 DEF StartFailed, RejectedStartCanRetry
<1>23. ASSUME NEW b \in BOOLEAN, CancelReturns(b) PROVE JoinInv'
  BY <1>23 DEF CancelReturns, ClearActiveRun
<1>24. ASSUME NEW t \in Restorers, RestoreCheck(t) PROVE JoinInv'
  BY <1>24 DEF RestoreCheck, RestoreReturns
<1>25. ASSUME NEW t \in Restorers, RestoreReconnect(t) PROVE JoinInv'
  BY <1>25 DEF RestoreReconnect, Acquire, RestoreReturns, RestoreFails, InitializeForRestoreFails
<1>26. ASSUME NEW t \in Restorers, RestoreLost(t) PROVE JoinInv'
  BY <1>26 DEF RestoreLost, RestoreReturns, RestoreFails, ActiveRunExists
<1>27. ASSUME NEW t \in Restorers, RestoreFresh(t) PROVE JoinInv'
  BY <1>27 DEF RestoreFresh, Acquire, RestoreReturns, RestoreFails, InitializeForRestoreFails
<1>28. ASSUME NEW t \in Restorers, RestoreInstall(t) PROVE JoinInv'
  BY <1>28 DEF RestoreInstall, CloseHeld, RestoreReturns, RestoreFails
<1>29. ASSUME NEW t \in Restorers, RestoreCloseOld(t) PROVE JoinInv'
  BY <1>29 DEF RestoreCloseOld, CloseHeld
<1>30. ASSUME NEW t \in Restorers, RestorePublish(t) PROVE JoinInv'
  BY <1>30 DEF RestorePublish, RestoreReturns, Published, PublishClosed
<1>31. ASSUME NEW o \in Observers, OpenStream(o) PROVE JoinInv'
  BY <1>31 DEF OpenStream
<1>32. ASSUME NEW o \in Observers, RegisterStream(o) PROVE JoinInv'
  BY <1>32 DEF RegisterStream
<1>33. ASSUME NEW o \in Observers, PublishReconnected(o) PROVE JoinInv'
  BY <1>33 DEF PublishReconnected, Published, PublishClosed
<1>34. ASSUME NEW o \in Observers, Consume(o) PROVE JoinInv'
  BY <1>34 DEF Consume
<1>35. ASSUME NEW o \in Observers, HandleFrame(o) PROVE JoinInv'
  BY <1>35 DEF HandleFrame, Published, PublishClosed
<1>36. ASSUME NEW o \in Observers, ReleaseStream(o) PROVE JoinInv'
  BY <1>36 DEF ReleaseStream, AfterRelease
<1>37. ASSUME NEW o \in Observers, ObserveTerminal(o) PROVE JoinInv'
  BY <1>37 DEF ObserveTerminal, ClearActiveRun
<1>38. ASSUME NEW o \in Observers, AnnounceReconnecting(o) PROVE JoinInv'
  BY <1>38 DEF AnnounceReconnecting, Published, PublishClosed
<1>39. ASSUME NEW o \in Observers, WaitToReconnect(o) PROVE JoinInv'
  BY <1>39 DEF WaitToReconnect
<1>40. ASSUME NEW o \in Observers, RestoreLock(o) PROVE JoinInv'
  BY <1>40 DEF RestoreLock, LockReconnect
<1>41. ASSUME NEW o \in Observers, RecordFailure(o) PROVE JoinInv'
  BY <1>41 DEF RecordFailure
<1>42. ASSUME NEW o \in Observers, ReportFailure(o) PROVE JoinInv'
  BY <1>42 DEF ReportFailure, Published, PublishClosed
<1>43. CASE UNCHANGED vars
  BY <1>43
<1> QED
  BY <1>1, <1>2, <1>3, <1>4, <1>5, <1>6, <1>7, <1>8, <1>9, <1>10, <1>11, <1>12, <1>13,
     <1>14, <1>15, <1>16, <1>17, <1>18, <1>19, <1>20, <1>21, <1>22, <1>23, <1>24, <1>25,
     <1>26, <1>27, <1>28, <1>29, <1>30, <1>31, <1>32, <1>33, <1>34, <1>35, <1>36, <1>37,
     <1>38, <1>39, <1>40, <1>41, <1>42, <1>43
     DEF Next, User, System, Initialize, SubmitStep, Observe, Restore, Close, Terminated

(* A client session is handed over, closed, or stays where it is. *)
LEMMA HeldStep == TypeOK /\ InitInv /\ WorkerInv /\ HeldInv /\ [Next]_vars => HeldInv'
<1> SUFFICES ASSUME TypeOK /\ InitInv /\ WorkerInv /\ HeldInv, [Next]_vars PROVE HeldInv'
  OBVIOUS
<1> USE DEF TypeOK, StatesOK, InitInv, WorkerInv, HeldInv, OpenClientsOwned
<1>1. CASE EnsureInitialized
  BY <1>1 DEF EnsureInitialized
<1>2. CASE InitializeFails
  BY <1>2 DEF InitializeFails
<1>3. CASE InitializeRejected
  BY <1>3 DEF InitializeRejected, Acquire
<1>4. CASE InitializeConnected
  BY <1>4 DEF InitializeConnected, Acquire
<1>5. CASE InitializeInstall
  <2>1. CASE closed
    BY <1>5, <2>1 DEF InitializeInstall
  <2>2. CASE ~closed
    <3>1. \A t \in Restorers : pc'[t] = "off" /\ held'[t] = NoClient
      BY <1>5 DEF InitializeInstall
    <3>2. held'["init"] = NoClient /\ UNCHANGED <<open, initErr>> /\ client' = held["init"]
      BY <1>5, <2>2 DEF InitializeInstall
    <3>3. ~initErr => \A c \in open : c = held["init"]
      BY <1>5 DEF InitializeInstall
    <3> QED
      BY <3>1, <3>2, <3>3
  <2> QED
    BY <2>1, <2>2
<1>6. CASE InitializeSnapshot
  <2>1. CASE Published /\ Goto("init", "spawn") /\ UNCHANGED <<open, initErr>>
    BY <1>6, <2>1 DEF InitializeSnapshot, Published, PublishClosed
  <2>2. CASE initErr' = TRUE /\ Goto("init", "done")
    BY <1>6, <2>2 DEF InitializeSnapshot, Published, PublishClosed
  <2> QED
    BY <1>6, <2>1, <2>2 DEF InitializeSnapshot, Published, PublishClosed
<1>7. CASE InitializeSpawn
  BY <1>7 DEF InitializeSpawn, StartWorker
<1>8. CASE SubmitLock
  BY <1>8 DEF SubmitLock, LockReconnect
<1>9. CASE StartAccepted
  BY <1>9 DEF StartAccepted
<1>10. CASE SubmitRecord
  BY <1>10 DEF SubmitRecord
<1>11. CASE SubmitHistory
  BY <1>11 DEF SubmitHistory, Published, PublishClosed
<1>12. CASE SubmitSpawn
  BY <1>12 DEF SubmitSpawn, StartWorker
<1>13. CASE Cancel
  BY <1>13 DEF Cancel
<1>14. CASE Receive
  BY <1>14 DEF Receive
<1>15. CASE CloseFence
  BY <1>15 DEF CloseFence
<1>16. CASE CloseOnce
  BY <1>16 DEF CloseOnce
<1>17. CASE CloseWorkers
  BY <1>17 DEF CloseWorkers
<1>18. CASE CloseStreams
  BY <1>18 DEF CloseStreams
<1>19. CASE CloseClient
  BY <1>19 DEF CloseClient
<1>20. CASE CloseWait
  BY <1>20 DEF CloseWait
<1>21. ASSUME NEW r \in Runs, Submit(r) PROVE HeldInv'
  BY <1>21 DEF Submit, Initialized
<1>22. ASSUME NEW err \in StartErrors, StartFailed(err) PROVE HeldInv'
  BY <1>22 DEF StartFailed, RejectedStartCanRetry
<1>23. ASSUME NEW b \in BOOLEAN, CancelReturns(b) PROVE HeldInv'
  BY <1>23 DEF CancelReturns, ClearActiveRun
<1>24. ASSUME NEW t \in Restorers, RestoreCheck(t) PROVE HeldInv'
  BY <1>24 DEF RestoreCheck, RestoreReturns
<1>25. ASSUME NEW t \in Restorers, RestoreReconnect(t) PROVE HeldInv'
  <2>1. \A u \in Threads \ {t} : pc'[u] = pc[u] /\ held'[u] = held[u]
    BY <1>25 DEF RestoreReconnect, Acquire, RestoreReturns, RestoreFails, InitializeForRestoreFails
  <2>2. held[t] = NoClient /\ client' = client /\ initErr' = initErr /\ t # "init"
    BY <1>25 DEF RestoreReconnect, Acquire, RestoreReturns, RestoreFails, InitializeForRestoreFails
  <2>3. \A c \in open : c # NoClient
    OBVIOUS
  <2>4. CASE open' = open /\ held' = held
    BY <2>1, <2>2, <2>3, <2>4
  <2>5. CASE open' = open \cup {held'[t]} /\ pc'[t] = "install"
    BY <2>1, <2>2, <2>3, <2>5
  <2> QED
    BY <1>25, <2>4, <2>5 DEF RestoreReconnect, Acquire, RestoreReturns, RestoreFails, InitializeForRestoreFails
<1>26. ASSUME NEW t \in Restorers, RestoreLost(t) PROVE HeldInv'
  BY <1>26 DEF RestoreLost, RestoreReturns, RestoreFails, ActiveRunExists
<1>27. ASSUME NEW t \in Restorers, RestoreFresh(t) PROVE HeldInv'
  <2>1. \A u \in Threads \ {t} : pc'[u] = pc[u] /\ held'[u] = held[u]
    BY <1>27 DEF RestoreFresh, Acquire, RestoreReturns, RestoreFails, InitializeForRestoreFails
  <2>2. held[t] = NoClient /\ client' = client /\ initErr' = initErr /\ t # "init"
    BY <1>27 DEF RestoreFresh, Acquire, RestoreReturns, RestoreFails, InitializeForRestoreFails
  <2>3. \A c \in open : c # NoClient
    OBVIOUS
  <2>4. CASE open' = open /\ held' = held
    BY <2>1, <2>2, <2>3, <2>4
  <2>5. CASE open' = open \cup {held'[t]} /\ pc'[t] = "install"
    BY <2>1, <2>2, <2>3, <2>5
  <2> QED
    BY <1>27, <2>4, <2>5 DEF RestoreFresh, Acquire, RestoreReturns, RestoreFails, InitializeForRestoreFails
<1>28. ASSUME NEW t \in Restorers, RestoreInstall(t) PROVE HeldInv'
  <2>1. \A u \in Threads \ {t} : pc'[u] = pc[u] /\ held'[u] = held[u]
    BY <1>28 DEF RestoreInstall, CloseHeld, RestoreReturns, RestoreFails
  <2>2. initErr' = initErr /\ t # "init"
    BY <1>28 DEF RestoreInstall, CloseHeld, RestoreReturns, RestoreFails
  <2>3. CASE open' = open \ {held[t]} /\ held'[t] = NoClient /\ client' = client
    BY <2>1, <2>2, <2>3
  <2>4. CASE open' = open /\ client' = held[t] /\ held'[t] = client /\ pc'[t] = "closeOld"
    BY <2>1, <2>2, <2>4
  <2> QED
    BY <1>28, <2>3, <2>4 DEF RestoreInstall, CloseHeld, RestoreReturns, RestoreFails
<1>29. ASSUME NEW t \in Restorers, RestoreCloseOld(t) PROVE HeldInv'
  BY <1>29 DEF RestoreCloseOld, CloseHeld
<1>30. ASSUME NEW t \in Restorers, RestorePublish(t) PROVE HeldInv'
  BY <1>30 DEF RestorePublish, RestoreReturns, Published, PublishClosed
<1>31. ASSUME NEW o \in Observers, OpenStream(o) PROVE HeldInv'
  BY <1>31 DEF OpenStream
<1>32. ASSUME NEW o \in Observers, RegisterStream(o) PROVE HeldInv'
  BY <1>32 DEF RegisterStream
<1>33. ASSUME NEW o \in Observers, PublishReconnected(o) PROVE HeldInv'
  BY <1>33 DEF PublishReconnected, Published, PublishClosed
<1>34. ASSUME NEW o \in Observers, Consume(o) PROVE HeldInv'
  BY <1>34 DEF Consume
<1>35. ASSUME NEW o \in Observers, HandleFrame(o) PROVE HeldInv'
  BY <1>35 DEF HandleFrame, Published, PublishClosed
<1>36. ASSUME NEW o \in Observers, ReleaseStream(o) PROVE HeldInv'
  BY <1>36 DEF ReleaseStream, AfterRelease
<1>37. ASSUME NEW o \in Observers, ObserveTerminal(o) PROVE HeldInv'
  BY <1>37 DEF ObserveTerminal, ClearActiveRun
<1>38. ASSUME NEW o \in Observers, AnnounceReconnecting(o) PROVE HeldInv'
  BY <1>38 DEF AnnounceReconnecting, Published, PublishClosed
<1>39. ASSUME NEW o \in Observers, WaitToReconnect(o) PROVE HeldInv'
  BY <1>39 DEF WaitToReconnect
<1>40. ASSUME NEW o \in Observers, RestoreLock(o) PROVE HeldInv'
  BY <1>40 DEF RestoreLock, LockReconnect
<1>41. ASSUME NEW o \in Observers, RecordFailure(o) PROVE HeldInv'
  BY <1>41 DEF RecordFailure
<1>42. ASSUME NEW o \in Observers, ReportFailure(o) PROVE HeldInv'
  BY <1>42 DEF ReportFailure, Published, PublishClosed
<1>43. CASE UNCHANGED vars
  BY <1>43
<1> QED
  BY <1>1, <1>2, <1>3, <1>4, <1>5, <1>6, <1>7, <1>8, <1>9, <1>10, <1>11, <1>12, <1>13,
     <1>14, <1>15, <1>16, <1>17, <1>18, <1>19, <1>20, <1>21, <1>22, <1>23, <1>24, <1>25,
     <1>26, <1>27, <1>28, <1>29, <1>30, <1>31, <1>32, <1>33, <1>34, <1>35, <1>36, <1>37,
     <1>38, <1>39, <1>40, <1>41, <1>42, <1>43
     DEF Next, User, System, Initialize, SubmitStep, Observe, Restore, Close, Terminated
----------------------------------------------------------------------------
(* The initial state satisfies the inductive invariant. *)
LEMMA InitIInv == Init => IInv
<1> SUFFICES ASSUME Init PROVE IInv
  OBVIOUS
<1> USE DEF Init
<1>1. StatesOK
  BY DEF StatesOK, PCs, Errors, OpenErrors
<1>2. FlagsOK
  BY DEF FlagsOK
<1>3. LockInv /\ InitInv /\ WorkerInv
  BY DEF LockInv, InitInv, WorkerInv, RestorePCs, SubmitPCs
<1>4. GenerationInv /\ FreshInv
  BY DEF GenerationInv, FreshInv
<1>5. AcceptedInv /\ HeldInv
  BY DEF AcceptedInv, StartAcceptedAtMostOnce, HeldInv, OpenClientsOwned, RestorePCs
<1>6. CloseInv /\ LoudInv /\ JoinInv
  BY DEF CloseInv, LoudInv, ObserversEndLoudly, ActiveRunObserved, JoinInv
<1> QED
  BY <1>1, <1>2, <1>3, <1>4, <1>5, <1>6 DEF IInv, TypeOK

(* Every variable of the connection module stays in its type, for every set  *)
(* of runs and every capacity: in particular the update channel never holds  *)
(* more than UpdateCapacity updates.                                         *)
THEOREM TypeCorrect == Spec => []TypeOK
<1>1. Init => TypeOK
  BY InitIInv DEF IInv
<1>2. TypeOK /\ [Next]_vars => TypeOK'
  BY StatesStep, FlagsStep DEF TypeOK
<1> QED
  BY <1>1, <1>2, PTL DEF Spec

(* reconnectMutex and the generation captured under it, the order of the     *)
(* initializer before every worker, and the ownership of client sessions in  *)
(* local variables, the reason of every ended observer and the join of all   *)
(* observers by Close are together inductive.                                *)
THEOREM Inductive == Spec => []IInv
<1>1. IInv /\ [Next]_vars => IInv'
  BY StatesStep, FlagsStep, LockStep, InitStep, WorkerStep, GenerationStep,
     FreshStep, AcceptedStep, HeldStep, CloseStep, LoudStep, JoinStep
     DEF IInv, TypeOK
<1> QED
  BY InitIInv, <1>1, PTL DEF Spec

(* The daemon never accepts one operation twice: startSubmittedRun repeats a *)
(* Start only after rejectedStartCanRetry and under reconnectMutex.          *)
THEOREM AcceptedOnce == Spec => []StartAcceptedAtMostOnce
<1>1. IInv => StartAcceptedAtMostOnce
  BY DEF IInv, AcceptedInv
<1> QED
  BY Inductive, <1>1, PTL

(* A Start is sent on the client session its lane captured, and the retry on *)
(* the fresh session that was installed next.                                *)
THEOREM CapturedClient == Spec => []StartOnCapturedClient
<1>1. IInv => StartOnCapturedClient
  BY DEF IInv, GenerationInv, StartOnCapturedClient
<1> QED
  BY Inductive, <1>1, PTL

(* No client session is dropped: an open one is the current one or in the    *)
(* hands of a thread that is still going to install or close it.             *)
THEOREM ClientsOwned == Spec => []OpenClientsOwned
<1>1. IInv => OpenClientsOwned
  BY DEF IInv, HeldInv
<1> QED
  BY Inductive, <1>1, PTL

(* A fresh daemon session is installed only while no run is active, although *)
(* activeRunExists was asked two remote calls earlier.                       *)
THEOREM FreshIdle == Spec => FreshOnlyWhenIdle
<1>1. IInv => \A t \in Restorers :
                At(t, "install") /\ client' # client /\ fresh[t] => activeRun = NoRun
  BY DEF IInv, FreshInv
<1> QED
  BY Inductive, <1>1, PTL DEF FreshOnlyWhenIdle

(* While the session is open an active run is observed, is about to be, its  *)
(* failure is recorded, or the opening of its stream was canceled: neither   *)
(* submit, cancel nor a restore of another lane leaves a run without         *)
(* observer, only the filter of recordFailure does.                          *)
THEOREM RunObserved == Spec => []ActiveRunObserved
<1>1. IInv => ActiveRunObserved
  BY DEF IInv, LoudInv
<1> QED
  BY Inductive, <1>1, PTL

(* Until Close an observer ends only after the terminal event of its run,    *)
(* with a failure recorded for Receive, or because recordFailure dropped the *)
(* context.Canceled of a failed opening (observeEvents, retryObservation,    *)
(* recordFailure).                                                           *)
THEOREM EndLoudly == Spec => []ObserversEndLoudly
<1>1. IInv => ObserversEndLoudly
  BY DEF IInv, LoudInv
<1> QED
  BY Inductive, <1>1, PTL

(* A returned Close has joined every worker: none runs, holds reconnectMutex *)
(* or has an open stream, also one registered after closeStreams.            *)
THEOREM CloseJoins == Spec => []CloseJoinsWorkers
<1>1. IInv => CloseJoinsWorkers
  BY DEF IInv, JoinInv, CloseJoinsWorkers, RestorePCs
<1> QED
  BY Inductive, <1>1, PTL
=============================================================================
