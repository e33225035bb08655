--------------------------- MODULE TuiConnection ---------------------------
(***************************************************************************)
(* Connection ownership of the TUI session adapter (internal/tuisession):  *)
(* lazy initialization, observation workers, connection restoration, the   *)
(* submit and cancel lanes, and Close.  Every goroutine that outlives one  *)
(* critical section is a thread with a program counter:                    *)
(*   "init"          the goroutine of initializeOnce                       *)
(*   "submit"        the caller inside performSubmit (ordinaryMutex)       *)
(*   "interactions"  the observeInteractions worker                        *)
(*   r \in Runs      the observeEvents worker of run r                     *)
(* and the goroutine of closeOnce is the variable closer.  Client sessions *)
(* are numbered in the order in which the connector returned them.  The    *)
(* daemon and the connector are external: their calls return any outcome   *)
(* that the adapter tells apart.                                           *)
(***************************************************************************)
EXTENDS Integers, FiniteSets

CONSTANTS Runs,            \* start operations; an accepted one names its run
          MaxClients,      \* bound: client sessions the connector ever returns
          UpdateCapacity   \* config.UpdateCapacity, the bound of updates

Observers == Runs \cup {"interactions"}
Restorers == Observers \cup {"submit"}
Threads   == Restorers \cup {"init"}
NoRun     == "none"
Nobody    == "none"
NoClient  == 0

ASSUME RunsAssumption == Runs \cap {"interactions", "submit", "init", "none"} = {}
ASSUME MaxClientsAssumption == MaxClients \in Nat
ASSUME UpdateCapacityAssumption == UpdateCapacity \in Nat \ {0}

VARIABLES
  closed,         \* sessionLifecycle.closed is a closed channel
  closer,         \* progress of the close goroutine
  workersClosed,  \* sessionResources.workersClosed
  initErr,        \* sessionConnection.initializeErr is set
  client,         \* sessionConnection.clientSession
  generation,     \* sessionConnection.clientGeneration
  used,           \* how many client sessions the connector has returned
  open,           \* client sessions whose Close has not been called
  reconnect,      \* holder of reconnectMutex
  pc,             \* program counter of every thread
  seen,           \* the generation a thread captured with its client session
  held,           \* client session a thread has in a local variable only
  fresh,          \* restoredConnection.fresh, for the thread inside a restore
  why,            \* why a stream or a restore ended
  announced,      \* observeEvents' reconnecting flag
  stream,         \* state of the stream an observer owns
  slot,           \* sessionResources.eventStream and interactionStream
  activeRun,      \* sessionState.activeRun, NoRun when hasActiveRun is false
  op,             \* the operation performSubmit is working on
  submitted,      \* operations handed to performSubmit so far
  accepted,       \* how many times the daemon accepted an operation's Start
  cancelling,     \* the run captured by a performCancel in progress
  queued,         \* len(sessionPublisher.updates)
  failed          \* sessionPublisher.failure is set

connVars   == <<client, generation, used, open, reconnect, seen, held, fresh>>
streamVars == <<stream, slot, announced>>
runVars    == <<activeRun, op, submitted, accepted, cancelling>>
closeVars  == <<closed, closer, workersClosed>>
pubVars    == <<queued, failed>>
vars == <<connVars, streamVars, runVars, closeVars, pubVars, initErr, pc, why>>

----------------------------------------------------------------------------
Errors == {"eof", "lost", "fatal"}   \* as canRetryObservation tells them apart

(* A stream whose first page does not arrive is reported by the client as    *)
(* the bare context.Canceled of the stream's own context (streams.go,        *)
(* status.go): not retryable, and filtered by recordFailure.                 *)
OpenErrors == Errors \cup {"canceled"}

PCs == {"new", "connecting", "connected", "snapshot", "spawn", "done",
        "off", "start", "again", "record", "history",
        "open", "register", "reconnected", "consume", "frame", "release",
        "clear", "announce", "wait", "fail", "report",
        "lock", "check", "reconnect", "lost", "fresh", "install",
        "closeOld", "restored"}

FlagsOK ==
  /\ closed \in BOOLEAN /\ workersClosed \in BOOLEAN
  /\ initErr \in BOOLEAN /\ failed \in BOOLEAN
  /\ fresh \in [Restorers -> BOOLEAN]
  /\ announced \in [Runs -> BOOLEAN]

StatesOK ==
  /\ closer \in {"idle", "fenced", "once", "refusing", "streams", "client", "done"}
  /\ client \in 0..MaxClients
  /\ generation \in Nat
  /\ used \in 0..MaxClients
  /\ open \subseteq 1..MaxClients
  /\ reconnect \in Restorers \cup {Nobody}
  /\ pc \in [Threads -> PCs]
  /\ seen \in [Restorers -> Nat]
  /\ held \in [Threads -> 0..MaxClients]
  /\ why \in [Restorers -> OpenErrors \cup {"ok", "terminal"}]
  /\ stream \in [Observers -> {"none", "open", "closed"}]
  /\ slot \in [{"event", "interaction"} -> Observers \cup {Nobody}]
  /\ activeRun \in Runs \cup {NoRun}
  /\ op \in Runs \cup {NoRun}
  /\ submitted \subseteq Runs
  /\ accepted \in [Runs -> Nat]
  /\ cancelling \in Runs \cup {NoRun}
  /\ queued \in 0..UpdateCapacity

TypeOK == StatesOK /\ FlagsOK

Init ==
  /\ closed = FALSE
  /\ closer = "idle"
  /\ workersClosed = FALSE
  /\ initErr = FALSE
  /\ client = NoClient
  /\ generation = 0
  /\ used = 0
  /\ open = {}
  /\ reconnect = Nobody
  /\ pc = [t \in Threads |-> IF t = "init" THEN "new" ELSE "off"]
  /\ seen = [t \in Restorers |-> 0]
  /\ held = [t \in Threads |-> NoClient]
  /\ fresh = [t \in Restorers |-> FALSE]
  /\ why = [t \in Restorers |-> "ok"]
  /\ announced = [r \in Runs |-> FALSE]
  /\ stream = [o \in Observers |-> "none"]
  /\ slot = [k \in {"event", "interaction"} |-> Nobody]
  /\ activeRun = NoRun
  /\ op = NoRun
  /\ submitted = {}
  /\ accepted = [r \in Runs |-> 0]
  /\ cancelling = NoRun
  /\ queued = 0
  /\ failed = FALSE

----------------------------------------------------------------------------
(* Shared idioms *)

At(t, s)   == pc[t] = s
Goto(t, s) == pc' = [pc EXCEPT ![t] = s]

Initialized == pc["init"] = "done" /\ ~initErr

(* publish: publishMutex only orders publishers that are all blocked on the *)
(* same channel, so one publication is one step: the update is sent, or the *)
(* select takes the closed channel.  When both are ready Go picks either.   *)
Published     == queued < UpdateCapacity /\ queued' = queued + 1 /\ UNCHANGED failed
PublishStuck  == FALSE /\ UNCHANGED pubVars               \* mutant: no closed case
PublishClosed == closed /\ UNCHANGED pubVars

(* reconnectMutex.Lock() *)
LockReconnect(t) == reconnect = Nobody /\ reconnect' = t

(* connector.Initialize returned a client session to thread t. *)
Acquire(t) ==
  /\ used < MaxClients
  /\ used' = used + 1
  /\ open' = open \cup {used'}
  /\ held' = [held EXCEPT ![t] = used']

(* The client session thread t holds is closed.  Close is local. *)
DropHeld(t) == UNCHANGED open /\ held' = [held EXCEPT ![t] = NoClient]   \* mutant: leaked
CloseHeld(t) ==
  /\ open' = open \ {held[t]}
  /\ held' = [held EXCEPT ![t] = NoClient]

(* startWorker(o): what pc becomes when thread t starts it and goes to s. *)
StartWorkerAlways(t, s, o) == pc' = [pc EXCEPT ![t] = s, ![o] = "open"]   \* mutant
StartWorker(t, s, o) ==
  pc' = IF workersClosed THEN [pc EXCEPT ![t] = s]
        ELSE [pc EXCEPT ![t] = s, ![o] = "open"]

Kind(o) == IF o = "interactions" THEN "interaction" ELSE "event"
----------------------------------------------------------------------------
(* initialize *)

(* A Receive or Perform caller runs initializeOnce.  It tested closed before, *)
(* so the once may still fire between close(closed) and the closer's own once. *)
EnsureInitialized ==
  /\ At("init", "new")
  /\ closer \in {"idle", "fenced"}
  /\ Goto("init", "connecting")
  /\ UNCHANGED <<connVars, streamVars, runVars, closeVars, pubVars, initErr, why>>

InitializeFails ==
  /\ At("init", "connecting")
  /\ initErr' = TRUE
  /\ Goto("init", "done")
  /\ UNCHANGED <<connVars, streamVars, runVars, closeVars, pubVars, why>>

(* validateConnection refuses the first connection: initialize returns       *)
(* without closing the client session it holds.                              *)
InitializeRejected ==
  /\ At("init", "connecting")
  /\ Acquire("init")
  /\ initErr' = TRUE
  /\ Goto("init", "done")
  /\ UNCHANGED <<client, generation, reconnect, seen, fresh,
                 streamVars, runVars, closeVars, pubVars, why>>

InitializeConnected ==
  /\ At("init", "connecting")
  /\ Acquire("init")
  /\ Goto("init", "connected")
  /\ UNCHANGED <<client, generation, reconnect, seen, fresh,
                 streamVars, runVars, closeVars, pubVars, initErr, why>>

InitializeInstall ==
  /\ At("init", "connected")
  /\ held' = [held EXCEPT !["init"] = NoClient]
  /\ IF closed
       THEN /\ open' = open \ {held["init"]}
            /\ initErr' = TRUE
            /\ Goto("init", "done")
            /\ UNCHANGED <<client, generation>>
       ELSE /\ client' = held["init"]
            /\ generation' = 1
            /\ Goto("init", "snapshot")
            /\ UNCHANGED <<open, initErr>>
  /\ UNCHANGED <<used, reconnect, seen, fresh, streamVars, runVars, closeVars, pubVars, why>>

InitializeSnapshot ==
  /\ At("init", "snapshot")
  /\ \/ /\ Published
        /\ Goto("init", "spawn")
        /\ UNCHANGED <<open, initErr>>
     \/ /\ PublishClosed
        /\ open' = open \ {client}
        /\ initErr' = TRUE
        /\ Goto("init", "done")
  /\ UNCHANGED <<client, generation, used, reconnect, seen, held, fresh,
                 streamVars, runVars, closeVars, why>>

InitializeSpawn ==
  /\ At("init", "spawn")
  /\ StartWorker("init", "done", "interactions")
  /\ UNCHANGED <<connVars, streamVars, runVars, closeVars, pubVars, initErr, why>>

Initialize == \/ InitializeFails \/ InitializeRejected \/ InitializeConnected
              \/ InitializeInstall \/ InitializeSnapshot \/ InitializeSpawn
----------------------------------------------------------------------------
(* restoreConnectionLocked, by a thread that holds reconnectMutex *)

(* The restore returned.  An observer leaves restoreConnection, which unlocks, *)
(* and continues at s; startSubmittedRun goes on to its retry with the lock   *)
(* held, or fails with the original error.                                    *)
RestoreReturns(t, s) ==
  /\ Goto(t, IF t = "submit" /\ s # "again" THEN "off" ELSE s)
  /\ reconnect' = IF s = "again" THEN reconnect ELSE Nobody

RestoreFails(t) == RestoreReturns(t, "fail")

(* closedForRestore turns every error into ErrClosed, which recordFailure    *)
(* ignores; otherwise the error is final.  An error that retryInitialization *)
(* accepts loops with the state unchanged, so it is not a step.              *)
InitializeForRestoreFails(t) == IF closed THEN RestoreReturns(t, "done") ELSE RestoreFails(t)

RestoreCheck(t) ==
  /\ At(t, "check")
  /\ IF generation # seen[t]
       THEN RestoreReturns(t, "open")
       ELSE Goto(t, "reconnect") /\ UNCHANGED reconnect
  /\ UNCHANGED <<client, generation, used, open, seen, held, fresh,
                 streamVars, runVars, closeVars, pubVars, initErr, why>>

(* initializeForRestore with the claim *)
RestoreReconnect(t) ==
  /\ At(t, "reconnect")
  /\ \/ /\ Acquire(t)
        /\ fresh' = [fresh EXCEPT ![t] = FALSE]
        /\ Goto(t, "install")
        /\ UNCHANGED reconnect
     \/ /\ ~closed
        /\ Goto(t, "lost")                    \* reconnectSessionUnavailable
        /\ UNCHANGED <<used, open, held, fresh, reconnect>>
     \/ /\ InitializeForRestoreFails(t)
        /\ UNCHANGED <<used, open, held, fresh>>
  /\ UNCHANGED <<client, generation, seen, streamVars, runVars, closeVars, pubVars, initErr, why>>

NeverActive     == FALSE                                   \* mutant: check dropped
ActiveRunExists == activeRun # NoRun

(* acquireRestoredClient gives up when the lost daemon session had a run. *)
RestoreLost(t) ==
  /\ At(t, "lost")
  /\ IF ActiveRunExists THEN RestoreFails(t)
                        ELSE Goto(t, "fresh") /\ UNCHANGED reconnect
  /\ UNCHANGED <<client, generation, used, open, seen, held, fresh,
                 streamVars, runVars, closeVars, pubVars, initErr, why>>

RestoreFresh(t) ==
  /\ At(t, "fresh")
  /\ \/ /\ Acquire(t)
        /\ fresh' = [fresh EXCEPT ![t] = TRUE]
        /\ Goto(t, "install")
        /\ UNCHANGED reconnect
     \/ /\ InitializeForRestoreFails(t)
        /\ UNCHANGED <<used, open, held, fresh>>
  /\ UNCHANGED <<client, generation, seen, streamVars, runVars, closeVars, pubVars, initErr, why>>

(* The replacement fails validateConnection, or becomes the client session:  *)
(* the previous one is then only held by this thread.  closed is not looked  *)
(* at.  A generation that moved on meanwhile would refuse the replacement.   *)
RestoreInstall(t) ==
  /\ At(t, "install")
  /\ \/ /\ CloseHeld(t)
        /\ RestoreFails(t)
        /\ UNCHANGED <<client, generation>>
     \/ IF generation # seen[t]
          THEN /\ CloseHeld(t)
               /\ RestoreReturns(t, "open")
               /\ UNCHANGED <<client, generation>>
          ELSE /\ client' = held[t]
               /\ generation' = generation + 1
               /\ held' = [held EXCEPT ![t] = client]
               /\ Goto(t, "closeOld")
               /\ UNCHANGED <<open, reconnect>>
  /\ UNCHANGED <<used, seen, fresh, streamVars, runVars, closeVars, pubVars, initErr, why>>

RestoreCloseOld(t) ==
  /\ At(t, "closeOld")
  /\ CloseHeld(t)
  /\ \E err \in {"ok", "fatal"} : why' = [why EXCEPT ![t] = err]   \* closeErr
  /\ Goto(t, "restored")
  /\ UNCHANGED <<client, generation, used, reconnect, seen, fresh,
                 streamVars, runVars, closeVars, pubVars, initErr>>

(* publishActivity("daemon connection restored"); the errors are joined, so  *)
(* an ErrClosed of the publication also silences closeErr.                   *)
RestorePublish(t) ==
  /\ At(t, "restored")
  /\ \/ /\ Published
        /\ RestoreReturns(t, IF why[t] = "fatal" THEN "fail"
                             ELSE IF t = "submit" /\ fresh[t] THEN "again" ELSE "open")
     \/ /\ PublishClosed
        /\ RestoreReturns(t, "done")
  /\ UNCHANGED <<client, generation, used, open, seen, held, fresh,
                 streamVars, runVars, closeVars, initErr, why>>

Restore(t) == \/ RestoreCheck(t) \/ RestoreReconnect(t) \/ RestoreLost(t) \/ RestoreFresh(t)
              \/ RestoreInstall(t) \/ RestoreCloseOld(t) \/ RestorePublish(t)
----------------------------------------------------------------------------
(* performSubmit and startSubmittedRun *)

(* The daemon's answers to Start: accepted, rejected before any dispatch     *)
(* (Unavailable, retryable, uncorrelated), refused for good, or lost on the  *)
(* way, in which case the daemon may or may not have accepted it.            *)
StartErrors == {"rejected", "refused", "uncertain"}
RetryAnyStart(err) == err # "refused"                      \* mutant: ambiguous retried
RejectedStartCanRetry(err) == err = "rejected"

Submit(r) ==
  /\ At("submit", "off")
  /\ Initialized /\ ~closed
  /\ r \notin submitted          \* identifiers.Next never repeats an operation
  /\ activeRun = NoRun
  /\ op' = r
  /\ submitted' = submitted \cup {r}
  /\ Goto("submit", "lock")
  /\ UNCHANGED <<connVars, streamVars, closeVars, pubVars,
                 activeRun, accepted, cancelling, initErr, why>>

SubmitLock ==
  /\ At("submit", "lock")
  /\ LockReconnect("submit")
  /\ seen' = [seen EXCEPT !["submit"] = generation]
  /\ Goto("submit", "start")
  /\ UNCHANGED <<client, generation, used, open, held, fresh,
                 streamVars, runVars, closeVars, pubVars, initErr, why>>

(* A closed client session refuses Start locally. *)
StartAccepted ==
  /\ pc["submit"] \in {"start", "again"}
  /\ client \in open
  /\ accepted' = [accepted EXCEPT ![op] = @ + 1]
  /\ Goto("submit", "record")
  /\ UNCHANGED <<connVars, streamVars, closeVars, pubVars,
                 activeRun, op, submitted, cancelling, initErr, why>>

(* Only the first attempt may lead to a restore; the second ends the command. *)
StartFailed(err) ==
  /\ pc["submit"] \in {"start", "again"}
  /\ client \in open \/ err = "refused"
  /\ \/ UNCHANGED accepted
     \/ /\ err = "uncertain"
        /\ accepted' = [accepted EXCEPT ![op] = @ + 1]
  /\ IF At("submit", "start") /\ RejectedStartCanRetry(err)
       THEN Goto("submit", "check") /\ UNCHANGED reconnect
       ELSE Goto("submit", "off") /\ reconnect' = Nobody
  /\ UNCHANGED <<client, generation, used, open, seen, held, fresh, streamVars,
                 activeRun, op, submitted, cancelling, closeVars, pubVars, initErr, why>>

SubmitRecord ==
  /\ At("submit", "record")
  /\ activeRun' = op
  /\ reconnect' = Nobody
  /\ Goto("submit", "history")
  /\ UNCHANGED <<client, generation, used, open, seen, held, fresh, streamVars,
                 op, submitted, accepted, cancelling, closeVars, pubVars, initErr, why>>

(* publishHistory; its ErrClosed is ignored. *)
SubmitHistory ==
  /\ At("submit", "history")
  /\ Published \/ PublishClosed
  /\ Goto("submit", "spawn")
  /\ UNCHANGED <<connVars, streamVars, runVars, closeVars, initErr, why>>

SubmitSpawn ==
  /\ At("submit", "spawn")
  /\ StartWorker("submit", "off", op)
  /\ UNCHANGED <<connVars, streamVars, runVars, closeVars, pubVars, initErr, why>>

SubmitStep == \/ SubmitLock \/ StartAccepted \/ (\E err \in StartErrors : StartFailed(err))
              \/ SubmitRecord \/ SubmitHistory \/ SubmitSpawn \/ Restore("submit")

(* performCancel: the run is captured under stateMutex, the answer comes later. *)
Cancel ==
  /\ Initialized /\ ~closed
  /\ cancelling = NoRun /\ activeRun # NoRun
  /\ cancelling' = activeRun
  /\ UNCHANGED <<connVars, streamVars, closeVars, pubVars,
                 activeRun, op, submitted, accepted, initErr, pc, why>>

KeepActiveRun(r)  == UNCHANGED activeRun                   \* mutant: not cleared
ClearActiveRun(r) == activeRun' = IF activeRun = r THEN NoRun ELSE activeRun

CancelReturns(alreadyTerminal) ==
  /\ cancelling # NoRun
  /\ cancelling' = NoRun
  /\ IF alreadyTerminal THEN ClearActiveRun(cancelling) ELSE UNCHANGED activeRun
  /\ UNCHANGED <<connVars, streamVars, closeVars, pubVars,
                 op, submitted, accepted, initErr, pc, why>>
----------------------------------------------------------------------------
(* observeEvents and observeInteractions *)

(* currentClientGeneration and Events or Interactions.  A closed client      *)
(* session answers ErrClosed, which is retryable.                            *)
OpenStream(o) ==
  /\ At(o, "open")
  /\ seen' = [seen EXCEPT ![o] = generation]
  /\ \/ /\ client \in open
        /\ stream' = [stream EXCEPT ![o] = "open"]
        /\ why' = [why EXCEPT ![o] = "ok"]
        /\ Goto(o, "register")
     \/ \E err \in (IF client \in open THEN OpenErrors ELSE {"lost"}) :
          /\ why' = [why EXCEPT ![o] = err]
          /\ Goto(o, "release")
          /\ UNCHANGED stream
  /\ UNCHANGED <<client, generation, used, open, reconnect, held, fresh, slot, announced,
                 runVars, closeVars, pubVars, initErr>>

RegisterStream(o) ==
  /\ At(o, "register")
  /\ slot' = [slot EXCEPT ![Kind(o)] = o]
  /\ Goto(o, IF o \in Runs /\ announced[o] THEN "reconnected" ELSE "consume")
  /\ UNCHANGED <<connVars, stream, announced, runVars, closeVars, pubVars, initErr, why>>

(* publishActivity("event stream reconnected ...") *)
PublishReconnected(o) ==
  /\ At(o, "reconnected")
  /\ \/ /\ Published
        /\ announced' = [announced EXCEPT ![o] = FALSE]
        /\ Goto(o, "consume")
        /\ UNCHANGED why
     \/ /\ PublishClosed
        /\ why' = [why EXCEPT ![o] = "lost"]
        /\ Goto(o, "release")
        /\ UNCHANGED announced
  /\ UNCHANGED <<connVars, stream, slot, runVars, closeVars, initErr>>

(* stream.Next: a frame, or the end of the stream.  A bounded event page and *)
(* a clean EOF both reopen from the cursor and are not told apart.           *)
Consume(o) ==
  /\ At(o, "consume")
  /\ \/ /\ stream[o] = "open"
        /\ Goto(o, "frame")
        /\ UNCHANGED why
     \/ \E err \in Errors :
          /\ why' = [why EXCEPT ![o] = err]
          /\ Goto(o, "release")
  /\ UNCHANGED <<connVars, streamVars, runVars, closeVars, pubVars, initErr>>

(* handleEvent or handleInteractionUpdate publishes what the frame changed;  *)
(* a terminal event ends the observation of its run.                         *)
HandleFrame(o) ==
  /\ At(o, "frame")
  /\ \/ /\ Published
        /\ \/ Goto(o, "consume") /\ UNCHANGED why
           \/ /\ o \in Runs
              /\ why' = [why EXCEPT ![o] = "terminal"]
              /\ Goto(o, "release")
     \/ /\ PublishClosed
        /\ why' = [why EXCEPT ![o] = "lost"]
        /\ Goto(o, "release")
  /\ UNCHANGED <<connVars, streamVars, runVars, closeVars, initErr>>

(* What follows the end of a stream or a failed open, by canRetryObservation *)
(* and retryObservation.  What may still be recorded once the session is     *)
(* closed is left to TuiEvents; here a closed session just ends the observer.*)
AfterReleaseSilently(o) ==                                 \* mutant: failure dropped
  IF why[o] = "terminal" THEN "clear"
  ELSE IF closed \/ why[o] \in {"fatal", "canceled"} THEN "done"
  ELSE IF why[o] = "lost" /\ o \in Runs /\ ~announced[o] THEN "announce"
  ELSE "wait"
AfterRelease(o) ==
  IF why[o] = "terminal" THEN "clear"
  ELSE IF closed THEN "done"
  ELSE IF why[o] \in {"fatal", "canceled"} THEN "fail"
  ELSE IF why[o] = "lost" /\ o \in Runs /\ ~announced[o] THEN "announce"
  ELSE "wait"

(* releaseEventStream and releaseInteractionStream: the slot is given back   *)
(* only if it still holds this stream, the stream is closed in any case.     *)
ReleaseStream(o) ==
  /\ At(o, "release")
  /\ slot' = [slot EXCEPT ![Kind(o)] = IF @ = o THEN Nobody ELSE @]
  /\ stream' = [stream EXCEPT ![o] = "none"]
  /\ Goto(o, AfterRelease(o))
  /\ UNCHANGED <<connVars, announced, runVars, closeVars, pubVars, initErr, why>>

ObserveTerminal(o) ==
  /\ At(o, "clear")
  /\ ClearActiveRun(o)
  /\ Goto(o, "done")
  /\ UNCHANGED <<connVars, streamVars, op, submitted, accepted, cancelling,
                 closeVars, pubVars, initErr, why>>

(* publishActivity("event stream reconnecting ...") *)
AnnounceReconnecting(o) ==
  /\ At(o, "announce")
  /\ \/ /\ Published
        /\ announced' = [announced EXCEPT ![o] = TRUE]
        /\ Goto(o, "wait")
     \/ /\ PublishClosed
        /\ Goto(o, "done")
        /\ UNCHANGED announced
  /\ UNCHANGED <<connVars, stream, slot, runVars, closeVars, initErr, why>>

WaitToReconnect(o) ==
  /\ At(o, "wait")
  /\ Goto(o, IF closed THEN "done" ELSE IF why[o] = "eof" THEN "open" ELSE "lock")
  /\ UNCHANGED <<connVars, streamVars, runVars, closeVars, pubVars, initErr, why>>

RestoreLock(o) ==
  /\ At(o, "lock")
  /\ LockReconnect(o)
  /\ Goto(o, "check")
  /\ UNCHANGED <<client, generation, used, open, seen, held, fresh,
                 streamVars, runVars, closeVars, pubVars, initErr, why>>

(* recordFailure returns at once for context.Canceled (the ErrClosed of a    *)
(* closed session never gets here); of the other errors only the first is    *)
(* kept, and only it is sent.                                                *)
RecordFailure(o) ==
  /\ At(o, "fail")
  /\ failed' = (failed \/ why[o] # "canceled")
  /\ Goto(o, IF failed' /\ ~failed THEN "report" ELSE "done")
  /\ UNCHANGED <<connVars, streamVars, runVars, closeVars, queued, initErr, why>>

ReportFailure(o) ==
  /\ At(o, "report")
  /\ Published \/ PublishClosed
  /\ Goto(o, "done")
  /\ UNCHANGED <<connVars, streamVars, runVars, closeVars, initErr, why>>

Observe(o) == \/ OpenStream(o) \/ RegisterStream(o) \/ PublishReconnected(o)
              \/ Consume(o) \/ HandleFrame(o) \/ ReleaseStream(o) \/ ObserveTerminal(o)
              \/ AnnounceReconnecting(o) \/ WaitToReconnect(o) \/ RestoreLock(o)
              \/ RecordFailure(o) \/ ReportFailure(o) \/ Restore(o)
----------------------------------------------------------------------------
(* Receive takes one update; it is the only reader of the bounded channel.   *)
(* Once the session is closed nobody reads it (a Receive that already waits  *)
(* in its select may take one more: TuiEvents), the harder case for Close.   *)
Receive ==
  /\ Initialized /\ ~closed
  /\ queued > 0
  /\ queued' = queued - 1
  /\ UNCHANGED <<connVars, streamVars, runVars, closeVars, failed, initErr, pc, why>>

(* close, one step per resource *)
CloseFence ==
  /\ closer = "idle"
  /\ closer' = "fenced"
  /\ closed' = TRUE
  /\ UNCHANGED <<connVars, streamVars, runVars, workersClosed, pubVars, initErr, pc, why>>

CloseOnce ==
  /\ closer = "fenced"
  /\ closer' = "once"
  /\ IF At("init", "new") THEN Goto("init", "done") /\ initErr' = TRUE
                          ELSE UNCHANGED <<pc, initErr>>
  /\ UNCHANGED <<connVars, streamVars, runVars, closed, workersClosed, pubVars, why>>

CloseWorkers ==
  /\ closer = "once"
  /\ closer' = "refusing"
  /\ workersClosed' = TRUE
  /\ UNCHANGED <<connVars, streamVars, runVars, closed, pubVars, initErr, pc, why>>

CloseStreams ==
  /\ closer = "refusing"
  /\ closer' = "streams"
  /\ stream' = [o \in Observers |-> IF slot[Kind(o)] = o THEN "closed" ELSE stream[o]]
  /\ slot' = [k \in {"event", "interaction"} |-> Nobody]
  /\ UNCHANGED <<connVars, announced, runVars, closed, workersClosed, pubVars, initErr, pc, why>>

CloseClient ==
  /\ closer = "streams"
  /\ At("init", "done")
  /\ closer' = "client"
  /\ open' = open \ {client}
  /\ UNCHANGED <<client, generation, used, reconnect, seen, held, fresh,
                 streamVars, runVars, closed, workersClosed, pubVars, initErr, pc, why>>

CloseWait ==
  /\ closer = "client"
  /\ \A o \in Observers : pc[o] \in {"off", "done"}
  /\ closer' = "done"
  /\ UNCHANGED <<connVars, streamVars, runVars, closed, workersClosed, pubVars, initErr, pc, why>>

Close == CloseOnce \/ CloseWorkers \/ CloseStreams \/ CloseClient \/ CloseWait

(* Nothing is left to do: Close returned and no caller is inside Perform. *)
Terminated ==
  /\ closer = "done"
  /\ At("submit", "off")
  /\ cancelling = NoRun
  /\ UNCHANGED vars
----------------------------------------------------------------------------
User   == EnsureInitialized \/ (\E r \in Runs : Submit(r)) \/ Cancel \/ Receive \/ CloseFence
System == \/ Initialize \/ SubmitStep \/ (\E o \in Observers : Observe(o)) \/ Close
          \/ (\E b \in BOOLEAN : CancelReturns(b))
Next   == User \/ System \/ Terminated

Spec == Init /\ [][Next]_vars

(* Once closed is closed every call a thread is blocked in has a done        *)
(* context, and every publication has a ready select case: some thread that  *)
(* can proceed does.  Nothing is assumed of an open session.                 *)
Fairness == WF_vars(closed /\ System)

FairSpec == Spec /\ Fairness
----------------------------------------------------------------------------
(* Properties *)

(* Every client session the connector returned and nobody closed is either   *)
(* the adapter's current one or still in the hands of a running thread that  *)
(* will install or close it (a rejected first connection apart): no          *)
(* interleaving of restores drops a session on the floor.                    *)
OpenClientsOwned ==
  ~initErr => \A c \in open : \/ c = client
                             \/ \E t \in Threads : held[t] = c /\ pc[t] \notin {"off", "done"}

(* "A Start rejected as unavailable can be retried once with the same        *)
(* operation identity only after a synchronized fresh-daemon restore"        *)
(* (session.go): however restores and errors interleave, the daemon never    *)
(* accepts one operation twice.                                              *)
StartAcceptedAtMostOnce == \A r \in Runs : accepted[r] <= 1

(* A fresh daemon session, which knows no run, replaces the old one only     *)
(* while no run is active; activeRunExists was looked at two remote calls    *)
(* earlier and must still be right when the replacement is installed.        *)
FreshOnlyWhenIdle ==
  [][\A t \in Restorers : At(t, "install") /\ client' # client /\ fresh[t] => activeRun = NoRun]_vars

(* Start is sent on the session the submit lane captured, also for the retry *)
(* (which must meet the restored session): no observer swaps the client      *)
(* session under a Start.                                                    *)
StartOnCapturedClient ==
  /\ At("submit", "start") => generation = seen["submit"]
  /\ At("submit", "again") => generation = seen["submit"] + 1 /\ fresh["submit"]

(* While the session is open an active run has an observer, or is about to   *)
(* get one, or the failure that ended its observer is recorded.  The one     *)
(* exception is a stream whose opening failed with context.Canceled, the     *)
(* error recordFailure drops: no other interleaving of submit, restore,      *)
(* cancel and terminal events leaves a run silently unobserved.              *)
ActiveRunObserved ==
  ~closed /\ activeRun # NoRun =>
    \/ failed
    \/ pc[activeRun] \notin {"off", "done"}
    \/ op = activeRun /\ pc["submit"] \in {"history", "spawn"}
    \/ At(activeRun, "done") /\ why[activeRun] = "canceled"

(* While the session is open an observer ends only after its run's terminal  *)
(* event, with the failure recorded for Receive, or, the same exception,     *)
(* because opening its stream failed with context.Canceled.                  *)
ObserversEndLoudly ==
  ~closed => \A o \in Observers : At(o, "done") => failed \/ why[o] \in {"terminal", "canceled"}

(* The session "resumes an interrupted event stream only after its last      *)
(* published sequence.  A sequence gap fails closed."                        *)
(* (docs/terminal-target.md): once the terminal was told that the stream of  *)
(* its active run is reconnecting, the observation goes on or its failure is *)
(* recorded.                                                                 *)
InterruptedRunResumed ==
  ~closed => \A r \in Runs : announced[r] /\ activeRun = r /\ At(r, "done") => failed

(* When Close returns every worker has been joined, no stream is open and no *)
(* observer can run again; streams registered after closeStreams included.   *)
CloseJoinsWorkers ==
  closer = "done" => \A o \in Observers : /\ pc[o] \in {"off", "done"}
                                          /\ stream[o] # "open"
                                          /\ reconnect # o

(* Close always finishes: no publication, lock or call keeps a worker once   *)
(* closed is closed, even when nobody receives.                              *)
CloseCompletes == closed ~> closer = "done"
=============================================================================
