----------------------------- MODULE TuiEvents -----------------------------
(***************************************************************************)
(* The path of a run's events through the TUI session adapter              *)
(* (internal/tuisession): observeEvents reads the daemon's event stream    *)
(* from its cursor, publish numbers updates and puts them into the bounded *)
(* channel, Receive hands them to the terminal.  Other publishers (the     *)
(* interaction observer, the commands, a restore) share the publisher: they*)
(* are the thread "other".  The daemon's log and its streams are external. *)
(***************************************************************************)
EXTENDS Integers, Sequences, FiniteSets

CONSTANTS MaxEvents,       \* bound: events of the run
          MaxRevision,     \* the revision after which publish refuses, 2^64 - 1 in the code
          UpdateCapacity   \* config.UpdateCapacity

ASSUME EventBounds ==
  MaxEvents \in Nat /\ MaxRevision \in Nat \ {0} /\ UpdateCapacity \in Nat \ {0}

VARIABLES
  faulty,      \* external: streams may lose, repeat or misplace frames
  emitted,     \* external: length of the run's event log
  over,        \* external: the last event of the log is terminal
  pc,          \* progress of both threads
  cursor,      \* observeEvents' cursor
  at,          \* the sequence number up to which its stream has delivered
  event,       \* the event being published
  announced,   \* observeEvents' reconnecting flag
  publisher,   \* holder of publishMutex
  building,    \* the revision a thread's update was built with, 0 for none
  revision,    \* sessionPublisher.revision
  updates,     \* sessionPublisher.updates
  failed,      \* sessionPublisher.failure # nil
  delivered,   \* sessionPublisher.failureDelivered
  reader,      \* progress of Receive
  lastRev,     \* revision of the update Receive returned last
  shown,       \* sequence numbers of the events Receive returned
  closed       \* sessionLifecycle.closed is a closed channel

daemonVars == <<faulty, emitted, over>>
streamVars == <<cursor, at, event, announced>>
pubVars    == <<publisher, building, revision>>
chanVars   == <<updates, failed>>
readVars   == <<delivered, reader, lastRev, shown>>
vars == <<daemonVars, streamVars, pubVars, chanVars, readVars, pc, closed>>

Threads == {"events", "other"}
Nobody  == "nobody"

(* A delivery: an update with its revision and the event it shows (0 for any *)
(* other activity), or the failure.                                          *)
Failure    == [rev |-> 0, event |-> 0]
Deliveries == [rev : 0..MaxRevision, event : 0..MaxEvents]

TypeOK ==
  /\ faulty \in BOOLEAN /\ over \in BOOLEAN
  /\ emitted \in 0..MaxEvents
  /\ pc \in [Threads -> {"idle", "open", "reconnected", "next", "event", "announce", "wait",
                         "restored", "fail", "report", "canceled", "done"}]
  /\ cursor \in 0..MaxEvents
  /\ at \in 0..MaxEvents
  /\ event \in 0..MaxEvents
  /\ announced \in BOOLEAN
  /\ publisher \in Threads \cup {Nobody}
  /\ building \in [Threads -> 0..MaxRevision]
  /\ revision \in 0..MaxRevision
  /\ updates \in Seq(Deliveries) /\ Len(updates) <= UpdateCapacity
  /\ failed \in BOOLEAN /\ delivered \in BOOLEAN /\ closed \in BOOLEAN
  /\ reader \in {"idle", "waiting"}
  /\ lastRev \in 0..MaxRevision
  /\ shown \in Seq(1..MaxEvents)

(* The session is initialized: the snapshot was published as revision 1. *)
Init ==
  /\ faulty \in BOOLEAN /\ over = FALSE
  /\ emitted = 0
  /\ pc = [t \in Threads |-> "idle"]
  /\ cursor = 0 /\ at = 0 /\ event = 0
  /\ announced = FALSE
  /\ publisher = Nobody
  /\ building = [t \in Threads |-> 0]
  /\ revision = 1
  /\ updates = <<[rev |-> 1, event |-> 0]>>
  /\ failed = FALSE /\ delivered = FALSE /\ closed = FALSE
  /\ reader = "idle"
  /\ lastRev = 0
  /\ shown = <<>>

At(t, s)   == pc[t] = s
Goto(t, s) == pc' = [pc EXCEPT ![t] = s]
Terminal(n) == over /\ n = emitted
----------------------------------------------------------------------------
(* The daemon appends to the run's log; a terminal event is its last. *)
Emit ==
  /\ ~At("events", "idle")
  /\ emitted < MaxEvents /\ ~over
  /\ emitted' = emitted + 1
  /\ over' \in BOOLEAN
  /\ UNCHANGED <<faulty, streamVars, pubVars, chanVars, readVars, pc, closed>>
----------------------------------------------------------------------------
(* observeEvents *)

(* performSubmit starts the observer of the accepted run. *)
StartObserver ==
  /\ At("events", "idle")
  /\ ~closed
  /\ Goto("events", "open")
  /\ UNCHANGED <<daemonVars, streamVars, pubVars, chanVars, readVars, closed>>

(* Where an error leads.  Once the session is closed nothing is retried, and *)
(* the error is recorded unless recordFailure filters it (context.Canceled,  *)
(* ErrClosed).                                                               *)
AfterClose == IF closed THEN {"done", "fail"} ELSE {}
AfterFatal == {"fail"} \cup AfterClose
AfterEOF   == {"open"} \cup AfterClose
GiveUp     == {"done"}                                     \* mutant: no retry
AfterLoss  == IF closed THEN AfterClose ELSE {IF announced THEN "wait" ELSE "announce"}

GoOneOf(t, S) == \E s \in S : Goto(t, s)

ResumeAfter      == cursor

OpenEventStream ==
  /\ At("events", "open")
  /\ at' = ResumeAfter
  /\ Goto("events", IF announced THEN "reconnected" ELSE "next")
  /\ UNCHANGED <<daemonVars, cursor, event, announced, pubVars, chanVars, readVars, closed>>

(* Events, Next or the stream's Close returns an error: EOF reopens, a       *)
(* retryable one restores, any other (a cursor gap, say) is final and        *)
(* recorded, but for the one of OpenCanceled.                                *)
StreamFails ==
  /\ pc["events"] \in {"open", "next"}
  /\ GoOneOf("events", AfterEOF \cup AfterLoss \cup AfterFatal)
  /\ UNCHANGED <<daemonVars, streamVars, pubVars, chanVars, readVars, closed>>

(* The first page of a stream does not arrive: the client returns the bare   *)
(* context.Canceled of the stream, which canRetryObservation does not retry  *)
(* and recordFailure drops.  The observer is gone and nothing is recorded.   *)
OpenCanceled ==
  /\ At("events", "open")
  /\ Goto("events", "canceled")
  /\ UNCHANGED <<daemonVars, streamVars, pubVars, chanVars, readVars, closed>>

EventContiguous(n) == n = cursor + 1

(* handleEvent up to its publication.  A faulty stream sends events in any   *)
(* order; one of another run is as foreign as a sequence number out of place.*)
NextEvent ==
  /\ At("events", "next")
  /\ \E n \in 1..emitted :
       /\ faulty \/ n = at + 1
       /\ at' = n
       /\ event' = IF EventContiguous(n) THEN n ELSE event
       /\ GoOneOf("events", IF EventContiguous(n) THEN {"event"} ELSE AfterFatal)
  /\ UNCHANGED <<daemonVars, cursor, announced, pubVars, chanVars, readVars, closed>>

(* A control frame acknowledges the cursor; one with more to come ends the   *)
(* page, and the stream is reopened from the cursor.                         *)
NextControl ==
  /\ At("events", "next")
  /\ \E n \in 0..emitted, hasMore \in BOOLEAN :
       /\ faulty \/ n = at
       /\ GoOneOf("events", IF n # cursor THEN AfterFatal
                            ELSE IF hasMore THEN {"open"} ELSE {"next"})
  /\ UNCHANGED <<daemonVars, streamVars, pubVars, chanVars, readVars, closed>>

(* waitToReconnect and restoreConnection: done by this thread, which then    *)
(* publishes, or by another before it, or failed.                            *)
WaitAndRestore ==
  /\ At("events", "wait")
  /\ GoOneOf("events", {"open", "restored"} \cup AfterFatal)
  /\ UNCHANGED <<daemonVars, streamVars, pubVars, chanVars, readVars, closed>>
----------------------------------------------------------------------------
(* publish *)

Publishing(t) == pc[t] \in {"reconnected", "event", "announce", "restored"}

(* Another lane has something to publish. *)
OtherPublishes ==
  /\ At("other", "idle")
  /\ ~closed
  /\ Goto("other", "announce")
  /\ UNCHANGED <<daemonVars, streamVars, pubVars, chanVars, readVars, closed>>

(* What the caller of publish does after the update was sent; closing the    *)
(* replaced client may fail a restoration.                                   *)
AfterSent(t) ==
  IF t = "other" THEN {"idle"} ELSE
  CASE At(t, "reconnected") -> {"next"}
    [] At(t, "event")       -> IF Terminal(event) THEN {"done"} ELSE {"next"}
    [] At(t, "announce")    -> {"wait"}
    [] OTHER                -> {"open"} \cup AfterFatal

SkipPublishLock(t) == UNCHANGED publisher                  \* mutant: no lock
LockPublisher(t)   == publisher = Nobody /\ publisher' = t

RevisionExhausted == revision = MaxRevision

PublishBegin(t) ==
  /\ Publishing(t) /\ building[t] = 0
  /\ ~RevisionExhausted
  /\ LockPublisher(t)
  /\ building' = [building EXCEPT ![t] = revision + 1]
  /\ UNCHANGED <<daemonVars, streamVars, revision, chanVars, readVars, pc, closed>>

(* An observer records the error, a command returns it to its caller. *)
PublishExhausted(t) ==
  /\ Publishing(t) /\ building[t] = 0
  /\ publisher = Nobody
  /\ RevisionExhausted
  /\ GoOneOf(t, {"fail"} \cup (IF t = "other" THEN {"idle"} ELSE {}))
  /\ UNCHANGED <<daemonVars, streamVars, pubVars, chanVars, readVars, closed>>

KeepCursor(t)    == UNCHANGED cursor                       \* mutant: cursor left behind
AdvanceCursor(t) == cursor' = IF At(t, "event") THEN event ELSE cursor

PublishSent(t) ==
  /\ building[t] # 0
  /\ Len(updates) < UpdateCapacity
  /\ updates' = Append(updates, [rev   |-> building[t],
                                 event |-> IF At(t, "event") THEN event ELSE 0])
  /\ revision' = building[t]
  /\ building' = [building EXCEPT ![t] = 0]
  /\ publisher' = Nobody
  /\ AdvanceCursor(t)
  /\ announced' = IF t = "other" THEN announced
                  ELSE (At(t, "announce") \/ announced) /\ ~At(t, "reconnected")
  /\ GoOneOf(t, AfterSent(t))
  /\ UNCHANGED <<daemonVars, at, event, failed, readVars, closed>>

PublishClosed(t) ==
  /\ building[t] # 0
  /\ closed
  /\ building' = [building EXCEPT ![t] = 0]
  /\ publisher' = Nobody
  /\ Goto(t, "done")
  /\ UNCHANGED <<daemonVars, streamVars, revision, chanVars, readVars, closed>>

Publish(t) == PublishBegin(t) \/ PublishExhausted(t) \/ PublishSent(t) \/ PublishClosed(t)
----------------------------------------------------------------------------
(* recordFailure of an error that its filter lets pass: the first failure is *)
(* kept and sent, past publishMutex.                                         *)

OtherFails ==
  /\ At("other", "idle")
  /\ ~closed
  /\ Goto("other", "fail")
  /\ UNCHANGED <<daemonVars, streamVars, pubVars, chanVars, readVars, closed>>

KeepQuiet(t)    == "done"                                  \* mutant: failure never sent
AfterFailure(t) == IF failed THEN "done" ELSE "report"

RecordFailure(t) ==
  /\ At(t, "fail")
  /\ failed' = TRUE
  /\ Goto(t, AfterFailure(t))
  /\ UNCHANGED <<daemonVars, streamVars, pubVars, updates, readVars, closed>>

ReportFailure(t) ==
  /\ At(t, "report")
  /\ \/ Len(updates) < UpdateCapacity /\ updates' = Append(updates, Failure)
     \/ closed /\ UNCHANGED updates
  /\ Goto(t, "done")
  /\ UNCHANGED <<daemonVars, streamVars, pubVars, failed, readVars, closed>>
----------------------------------------------------------------------------
(* Receive *)

ReceiveAlways == ~closed                                   \* mutant: failure not remembered
ReceiveEnters == ~closed /\ ~delivered

ReceiveCall ==
  /\ reader = "idle"
  /\ ReceiveEnters
  /\ reader' = "waiting"
  /\ UNCHANGED <<daemonVars, streamVars, pubVars, chanVars, delivered, lastRev, shown, pc, closed>>

(* The select takes an update; it may do so although closed is ready too. *)
ReceiveUpdate ==
  /\ reader = "waiting"
  /\ updates # <<>>
  /\ LET d == Head(updates) IN
       /\ delivered' = (delivered \/ d = Failure)
       /\ lastRev' = IF d = Failure THEN lastRev ELSE d.rev
       /\ shown' = IF d.event = 0 THEN shown ELSE Append(shown, d.event)
  /\ updates' = Tail(updates)
  /\ reader' = "idle"
  /\ UNCHANGED <<daemonVars, streamVars, pubVars, failed, pc, closed>>

(* Its context is done, or closed is ready. *)
ReceiveReturns ==
  /\ reader = "waiting"
  /\ reader' = "idle"
  /\ UNCHANGED <<daemonVars, streamVars, pubVars, chanVars, delivered, lastRev, shown, pc, closed>>

Close ==
  /\ ~closed
  /\ closed' = TRUE
  /\ UNCHANGED <<daemonVars, streamVars, pubVars, chanVars, readVars, pc>>

Ended == closed /\ UNCHANGED vars
----------------------------------------------------------------------------
Observe  == OpenEventStream \/ StreamFails \/ OpenCanceled \/ NextEvent \/ NextControl \/ WaitAndRestore
Record   == \E t \in Threads : RecordFailure(t) \/ ReportFailure(t)
Receive  == ReceiveCall \/ ReceiveUpdate \/ ReceiveReturns

Next == Emit \/ StartObserver \/ Observe \/ (\E t \in Threads : Publish(t)) \/ OtherPublishes \/ OtherFails
        \/ Record \/ Receive \/ Close \/ Ended

Spec == Init /\ [][Next]_vars

(* The adapter's goroutines proceed; the shell keeps receiving and does not  *)
(* cancel every Receive that could have taken an update; a link that is tried*)
(* again and again is up, and serves an event, now and then.                 *)
Fairness ==
  /\ \A t \in Threads : WF_vars(Publish(t)) /\ WF_vars(RecordFailure(t)) /\ WF_vars(ReportFailure(t))
  /\ WF_vars(ReceiveCall) /\ SF_vars(ReceiveUpdate)
  /\ WF_vars(Observe)
  /\ SF_vars(OpenEventStream)
  /\ SF_vars(NextEvent)

FairSpec == Spec /\ Fairness
----------------------------------------------------------------------------
(* Properties *)

(* Whatever the streams do, the terminal is shown every event once and in    *)
(* order, and nothing after a failure (handleEvent, publish, Receive).       *)
Log == INSTANCE EventLog WITH failure <- delivered
ShownAsLogged == Log!Spec

(* Receive "returns the next strictly increasing presentation update"        *)
(* (session.go): no revision is skipped, repeated or overtaken, although     *)
(* several goroutines publish and a failure passes by publishMutex.          *)
RevisionsIncrease == [][lastRev' # lastRev => lastRev' = lastRev + 1]_vars

(* The session "resumes event streams only from the last published sequence" *)
(* (ARCHITECTURE.md): a stream in use starts or continues exactly after the  *)
(* events that were put into the channel, received or not.                   *)
Showing(q) == {i \in 1..Len(q) : q[i].event # 0}
Published  == Len(shown) + Cardinality(Showing(updates))
ResumesAfterPublished ==
  /\ cursor = Published
  /\ pc["events"] \in {"next", "reconnected", "event"} /\ ~faulty =>
       at = Published + (IF At("events", "event") THEN 1 ELSE 0)

(* A recorded failure reaches the terminal that keeps receiving, also when   *)
(* the channel was full when it was recorded, unless the session is closed.  *)
FailureReachesTerminal == failed ~> (delivered \/ closed)

(* The terminal that keeps receiving is shown all events of a run that ended *)
(* or a failure, unless the session is closed or an opening of the run's     *)
(* stream was canceled, which recordFailure drops.                           *)
RunShownToTheEnd ==
  over ~> (Len(shown) = emitted \/ delivered \/ closed \/ At("events", "canceled"))
=============================================================================
