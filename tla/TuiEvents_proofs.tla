-------------------------- MODULE TuiEvents_proofs --------------------------
(***************************************************************************)
(* Proofs about TuiEvents, for every number of events, every last revision *)
(* and every capacity of the update channel: the revisions Receive returns *)
(* increase by one, and what the terminal is shown implements EventLog.    *)
(***************************************************************************)
EXTENDS TuiEvents, SequenceTheorems, FunctionTheorems, FiniteSetTheorems, TLAPS

PCs == {"idle", "open", "reconnected", "next", "event", "announce", "wait", "restored", "fail",
        "report", "canceled", "done"}

(* publishMutex is held exactly from the numbering of an update to its send,  *)
(* so the number is still the next one when it is sent.                       *)
PublisherInv ==
  /\ \A t \in Threads :
       building[t] # 0 => /\ publisher = t
                          /\ Publishing(t)
                          /\ building[t] = revision + 1
  /\ pc["other"] \in {"idle", "announce", "fail", "report", "done"}

(* The event being published is the one after the cursor, and was emitted.    *)
CursorInv ==
  /\ cursor <= emitted
  /\ At("events", "event") => event = cursor + 1 /\ event <= emitted

(* ev[i] events, and revisions up to rv[i], have been published with the      *)
(* first i deliveries of the channel: they continue what Receive returned     *)
(* and end with the cursor and the publisher's revision.                      *)
Continues(ev, rv) ==
  /\ ev[0] = Len(shown) /\ ev[Len(updates)] = cursor
  /\ rv[0] = lastRev /\ rv[Len(updates)] = revision
  /\ \A i \in 1..Len(updates) :
       /\ updates[i].event = 0 => ev[i] = ev[i - 1]
       /\ updates[i].event # 0 => updates[i].event = ev[i - 1] + 1 /\ ev[i] = ev[i - 1] + 1
       /\ updates[i] = Failure => rv[i] = rv[i - 1]
       /\ updates[i] # Failure => updates[i].rev = rv[i - 1] + 1 /\ rv[i] = rv[i - 1] + 1

ChannelInv ==
  \E ev \in [0..Len(updates) -> 0..cursor], rv \in [0..Len(updates) -> Nat] : Continues(ev, rv)

(* Receive does not wait any more once it returned the failure.               *)
ReaderInv == delivered => reader = "idle"

(* A stream that loses nothing has delivered up to the cursor, or the event   *)
(* being published besides.                                                   *)
StreamInv ==
  pc["events"] \in {"next", "reconnected", "event"} /\ ~faulty =>
    at = cursor + (IF At("events", "event") THEN 1 ELSE 0)

(* The cursor counts the events that were put into the channel.               *)
CountInv == cursor = Published

IInv == TypeOK /\ PublisherInv /\ CursorInv /\ ChannelInv /\ ReaderInv /\ StreamInv /\ CountInv
----------------------------------------------------------------------------
USE EventBounds
    DEF vars, daemonVars, streamVars, pubVars, chanVars, readVars, At, Goto, GoOneOf, Threads, Nobody,
        Publishing

(* Where an error, or a sent update, leads is a position of the thread.       *)
LEMMA Targets ==
  /\ AfterFatal \subseteq PCs /\ AfterEOF \subseteq PCs /\ AfterLoss \subseteq PCs
  /\ "event" \notin AfterFatal /\ "event" \notin AfterEOF /\ "event" \notin AfterLoss
BY DEF AfterFatal, AfterEOF, AfterLoss, AfterClose, PCs

LEMMA SentTargets ==
  ASSUME NEW t \in Threads
  PROVE  /\ AfterSent(t) \subseteq PCs /\ "event" \notin AfterSent(t)
         /\ t = "other" => AfterSent(t) = {"idle"}
<1>1. CASE t = "other"
  BY <1>1 DEF AfterSent, PCs
<1>2. CASE t = "events"
  <2>1. CASE At(t, "reconnected")
    BY <1>2, <2>1 DEF AfterSent, PCs
  <2>2. CASE At(t, "event")
    BY <1>2, <2>2 DEF AfterSent, PCs
  <2>3. CASE At(t, "announce")
    BY <1>2, <2>3 DEF AfterSent, PCs
  <2>4. CASE pc[t] \notin {"reconnected", "event", "announce"}
    <3>1. AfterSent(t) = {"open"} \cup AfterFatal
      BY <1>2, <2>4 DEF AfterSent
    <3> QED
      BY <1>2, <3>1, Targets DEF PCs
  <2> QED
    BY <2>1, <2>2, <2>3, <2>4
<1> QED
  BY <1>1, <1>2

(* The head and the tail of a channel with something in it.                   *)
LEMMA TailProperties ==
  ASSUME NEW S, NEW q \in Seq(S), q # <<>>
  PROVE  /\ Len(q) \in Nat \ {0} /\ Head(q) = q[1] /\ Head(q) \in S
         /\ Tail(q) \in Seq(S) /\ Len(Tail(q)) = Len(q) - 1
         /\ \A i \in 1..Len(Tail(q)) : Tail(q)[i] = q[i + 1]
<1>1. Len(q) \in Nat \ {0}
  BY EmptySeq, LenProperties
<1>2. Head(q) = q[1] /\ q[1] \in S
  BY <1>1, ElementOfSeq
<1>3. Tail(q) \in Seq(S) /\ Len(Tail(q)) = Len(q) - 1 /\ \A i \in 1..Len(Tail(q)) : Tail(q)[i] = q[i + 1]
  BY HeadTailProperties
<1> QED
  BY <1>1, <1>2, <1>3

LEMMA AppendFacts ==
  ASSUME NEW S, NEW q \in Seq(S), NEW x \in S
  PROVE  /\ Append(q, x) \in Seq(S) /\ Len(q) \in Nat /\ Len(Append(q, x)) = Len(q) + 1
         /\ Append(q, x)[Len(q) + 1] = x
         /\ \A i \in 1..Len(q) : Append(q, x)[i] = q[i]
BY AppendProperties, LenProperties
----------------------------------------------------------------------------
(* Every step keeps every variable in its range and the channel in its bound. *)
LEMMA TypeStep == TypeOK /\ [Next]_vars => TypeOK'
<1> SUFFICES ASSUME TypeOK, [Next]_vars PROVE TypeOK'
  OBVIOUS
<1> USE DEF TypeOK
<1>1. CASE Emit
  BY <1>1 DEF Emit
<1>2. CASE StartObserver
  BY <1>2 DEF StartObserver
<1>3. CASE Observe
  <2>1. CASE OpenEventStream
    BY <2>1 DEF OpenEventStream, ResumeAfter
  <2>2. CASE StreamFails
    BY <2>2, Targets DEF StreamFails, PCs
  <2>3. CASE NextEvent
    BY <2>3, Targets DEF NextEvent, PCs
  <2>4. CASE NextControl
    BY <2>4, Targets DEF NextControl, PCs
  <2>5. CASE WaitAndRestore
    BY <2>5, Targets DEF WaitAndRestore, PCs
  <2>6. CASE OpenCanceled
    BY <2>6 DEF OpenCanceled
  <2> QED
    BY <1>3, <2>1, <2>2, <2>3, <2>4, <2>5, <2>6 DEF Observe
<1>4. ASSUME NEW t \in Threads, Publish(t) PROVE TypeOK'
  <2>1. CASE PublishBegin(t)
    BY <2>1 DEF PublishBegin, RevisionExhausted, LockPublisher
  <2>2. CASE PublishExhausted(t)
    BY <2>2 DEF PublishExhausted
  <2>3. CASE PublishSent(t)
    <3> DEFINE d == [rev |-> building[t], event |-> IF At(t, "event") THEN event ELSE 0]
    <3>1. d \in Deliveries
      BY DEF Deliveries
    <3>2. updates' = Append(updates, d) /\ Len(updates) < UpdateCapacity
      BY <2>3 DEF PublishSent
    <3> HIDE DEF d
    <3>3. updates' \in Seq(Deliveries) /\ Len(updates') <= UpdateCapacity
      BY <3>1, <3>2, AppendFacts
    <3>4. pc' \in [Threads -> PCs]
      BY <2>3, SentTargets DEF PublishSent, PCs
    <3>5. announced' \in BOOLEAN
      BY <2>3, Zenon DEF PublishSent
    <3>6. cursor' \in 0..MaxEvents
      BY <2>3 DEF PublishSent, AdvanceCursor
    <3>7. /\ revision' = building[t] /\ building' = [building EXCEPT ![t] = 0] /\ publisher' = Nobody
          /\ UNCHANGED <<daemonVars, at, event, failed, readVars, closed>>
      BY <2>3 DEF PublishSent
    <3>8. revision' \in 0..MaxRevision /\ building' \in [Threads -> 0..MaxRevision]
      BY <3>7
    <3> QED
      BY <3>3, <3>4, <3>5, <3>6, <3>7, <3>8 DEF PCs
  <2>4. CASE PublishClosed(t)
    BY <2>4 DEF PublishClosed
  <2> QED
    BY <1>4, <2>1, <2>2, <2>3, <2>4 DEF Publish
<1>5. CASE OtherPublishes \/ OtherFails
  BY <1>5 DEF OtherPublishes, OtherFails
<1>6. ASSUME NEW t \in Threads, RecordFailure(t) \/ ReportFailure(t) PROVE TypeOK'
  <2>1. CASE RecordFailure(t)
    BY <2>1 DEF RecordFailure, AfterFailure
  <2>2. CASE ReportFailure(t)
    <3>1. updates' \in Seq(Deliveries) /\ Len(updates') <= UpdateCapacity
      <4>1. Failure \in Deliveries
        BY DEF Failure, Deliveries
      <4>2. CASE Len(updates) < UpdateCapacity /\ updates' = Append(updates, Failure)
        BY <4>1, <4>2, AppendFacts
      <4> QED
        BY <2>2, <4>2 DEF ReportFailure
    <3> QED
      BY <2>2, <3>1 DEF ReportFailure
  <2> QED
    BY <1>6, <2>1, <2>2
<1>7. CASE ReceiveCall \/ ReceiveReturns
  BY <1>7 DEF ReceiveCall, ReceiveReturns
<1>8. CASE ReceiveUpdate
  <2> DEFINE d == Head(updates)
  <2>1. d \in Deliveries /\ Tail(updates) \in Seq(Deliveries) /\ Len(Tail(updates)) = Len(updates) - 1
        /\ Len(updates) \in Nat
    BY <1>8, TailProperties DEF ReceiveUpdate
  <2>2. delivered' = (delivered \/ d = Failure)
    BY <1>8 DEF ReceiveUpdate
  <2>3. lastRev' = IF d = Failure THEN lastRev ELSE d.rev
    BY <1>8 DEF ReceiveUpdate
  <2>4. shown' = IF d.event = 0 THEN shown ELSE Append(shown, d.event)
    BY <1>8 DEF ReceiveUpdate
  <2>5. /\ updates' = Tail(updates) /\ reader' = "idle"
        /\ UNCHANGED <<daemonVars, streamVars, pubVars, failed, pc, closed>>
    BY <1>8 DEF ReceiveUpdate
  <2> HIDE DEF d
  <2>6. d.rev \in 0..MaxRevision /\ d.event \in 0..MaxEvents
    BY <2>1 DEF Deliveries
  <2>7. delivered' \in BOOLEAN
    BY <2>2, Zenon
  <2>8. lastRev' \in 0..MaxRevision
    BY <2>3, <2>6
  <2>9. shown' \in Seq(1..MaxEvents)
    <3>1. CASE d.event = 0
      BY <2>4, <3>1
    <3>2. CASE d.event # 0
      <4>1. d.event \in 1..MaxEvents
        BY <2>6, <3>2
      <4> QED
        BY <2>4, <3>2, <4>1, AppendFacts
    <3> QED
      BY <3>1, <3>2
  <2>10. updates' \in Seq(Deliveries) /\ Len(updates') <= UpdateCapacity
    <3>1. Len(updates) <= UpdateCapacity
      OBVIOUS
    <3> DEFINE n == Len(updates)
               m == Len(Tail(updates))
    <3>2. n \in Nat /\ m = n - 1 /\ n <= UpdateCapacity
      BY <2>1, <3>1
    <3>3. m <= UpdateCapacity
      <4> HIDE DEF n, m
      <4> QED
        BY <3>2
    <3> QED
      BY <2>1, <2>5, <3>3, Zenon
  <2> QED
    BY <2>5, <2>7, <2>8, <2>9, <2>10
<1>9. CASE Close
  BY <1>9 DEF Close
<1>10. CASE UNCHANGED vars
  BY <1>10
<1> QED
  BY <1>1, <1>2, <1>3, <1>4, <1>5, <1>6, <1>7, <1>8, <1>9, <1>10 DEF Next, Record, Receive, Ended

----------------------------------------------------------------------------
(* The publisher's mutex, the cursor and the reader, step by step. *)
LEMMA ThreadStep ==
  TypeOK /\ PublisherInv /\ CursorInv /\ ReaderInv /\ [Next]_vars => (PublisherInv /\ CursorInv /\ ReaderInv)'
<1> SUFFICES ASSUME TypeOK, PublisherInv, CursorInv, ReaderInv, [Next]_vars
             PROVE  (PublisherInv /\ CursorInv /\ ReaderInv)'
  OBVIOUS
<1> USE DEF PublisherInv, CursorInv, ReaderInv
<1>t. /\ pc \in [Threads -> PCs] /\ building \in [Threads -> 0..MaxRevision] /\ revision \in 0..MaxRevision
      /\ emitted \in 0..MaxEvents /\ cursor \in 0..MaxEvents /\ event \in 0..MaxEvents
  BY DEF TypeOK, PCs
<1>1. CASE Emit
  BY <1>t, <1>1 DEF Emit
<1>2. CASE StartObserver
  BY <1>t, <1>2 DEF StartObserver
<1>3. CASE Observe
  <2>0. building["events"] # 0 => pc["events"] \in {"reconnected", "event", "announce", "restored"}
    OBVIOUS
  <2>1. CASE OpenEventStream
    BY <1>t, <2>1 DEF OpenEventStream
  <2>2. CASE StreamFails
    BY <1>t, <2>2, Targets DEF StreamFails
  <2>3. CASE NextEvent
    BY <1>t, <2>3, Targets DEF NextEvent, EventContiguous
  <2>4. CASE NextControl
    BY <1>t, <2>4, Targets DEF NextControl
  <2>5. CASE WaitAndRestore
    BY <1>t, <2>5, Targets DEF WaitAndRestore
  <2>6. CASE OpenCanceled
    BY <1>t, <2>6 DEF OpenCanceled
  <2> QED
    BY <1>3, <2>1, <2>2, <2>3, <2>4, <2>5, <2>6 DEF Observe
<1>4. ASSUME NEW t \in Threads, Publish(t) PROVE (PublisherInv /\ CursorInv /\ ReaderInv)'
  <2>1. CASE PublishBegin(t)
    BY <1>t, <2>1 DEF PublishBegin, LockPublisher
  <2>2. CASE PublishExhausted(t)
    BY <1>t, <2>2 DEF PublishExhausted
  <2>3. CASE PublishSent(t)
    <3>1. /\ building[t] # 0 /\ revision' = building[t] /\ building' = [building EXCEPT ![t] = 0]
          /\ cursor' = IF At(t, "event") THEN event ELSE cursor
          /\ UNCHANGED <<emitted, event, delivered, reader>>
      BY <2>3 DEF PublishSent, AdvanceCursor
    <3>2. PICK s \in AfterSent(t) : pc' = [pc EXCEPT ![t] = s]
      BY <2>3 DEF PublishSent
    <3>3. s \in PCs /\ s # "event" /\ (t = "other" => s = "idle")
      BY <3>2, SentTargets
    <3>4. \A u \in Threads : building'[u] = 0
      BY <1>t, <3>1
    <3>5. CursorInv'
      BY <1>t, <3>1, <3>2, <3>3
    <3>6. PublisherInv'
      BY <1>t, <3>2, <3>3, <3>4
    <3> QED
      BY <3>1, <3>5, <3>6
  <2>4. CASE PublishClosed(t)
    BY <1>t, <2>4 DEF PublishClosed
  <2> QED
    BY <1>4, <2>1, <2>2, <2>3, <2>4 DEF Publish
<1>5. CASE OtherPublishes \/ OtherFails
  BY <1>t, <1>5 DEF OtherPublishes, OtherFails
<1>6. ASSUME NEW t \in Threads, RecordFailure(t) \/ ReportFailure(t)
      PROVE  (PublisherInv /\ CursorInv /\ ReaderInv)'
  BY <1>t, <1>6 DEF RecordFailure, ReportFailure, AfterFailure
<1>7. CASE ReceiveCall \/ ReceiveReturns
  BY <1>t, <1>7 DEF ReceiveCall, ReceiveReturns, ReceiveEnters
<1>8. CASE ReceiveUpdate
  <2>1. reader' = "idle" /\ UNCHANGED <<daemonVars, streamVars, pubVars, pc>>
    BY <1>8 DEF ReceiveUpdate
  <2> QED
    BY <2>1
<1>9. CASE Close
  BY <1>t, <1>9 DEF Close
<1>10. CASE UNCHANGED vars
  BY <1>t, <1>10
<1> QED
  BY <1>1, <1>2, <1>3, <1>4, <1>5, <1>6, <1>7, <1>8, <1>9, <1>10 DEF Next, Record, Receive, Ended
----------------------------------------------------------------------------
(* The witnesses of ChannelInv after one more delivery x, an update with the  *)
(* next revision or the failure.                                              *)
LEMMA ChannelAppend ==
  ASSUME TypeOK, ChannelInv, NEW x \in Deliveries, updates' = Append(updates, x),
         UNCHANGED <<shown, lastRev>>,
         cursor' \in Nat, revision' \in Nat,
         x.event = 0 => cursor' = cursor,
         x.event # 0 => x.event = cursor + 1 /\ cursor' = cursor + 1,
         x = Failure => revision' = revision,
         x # Failure => x.rev = revision + 1 /\ revision' = revision + 1
  PROVE  ChannelInv'
<1> DEFINE n == Len(updates)
<1>1. PICK ev \in [0..n -> 0..cursor], rv \in [0..n -> Nat] : Continues(ev, rv)
  BY DEF ChannelInv
<1>2. /\ n \in Nat /\ Len(updates') = n + 1 /\ updates'[n + 1] = x
      /\ \A i \in 1..n : updates'[i] = updates[i]
  BY AppendFacts DEF TypeOK
<1>3. cursor \in Nat /\ revision \in Nat /\ cursor <= cursor'
  BY DEF TypeOK
<1> DEFINE ew == [i \in 0..n + 1 |-> IF i = n + 1 THEN cursor' ELSE ev[i]]
           rw == [i \in 0..n + 1 |-> IF i = n + 1 THEN revision' ELSE rv[i]]
<1>4. /\ ev[0] = Len(shown) /\ ev[n] = cursor /\ rv[0] = lastRev /\ rv[n] = revision
      /\ \A i \in 1..n :
           /\ updates[i].event = 0 => ev[i] = ev[i - 1]
           /\ updates[i].event # 0 => updates[i].event = ev[i - 1] + 1 /\ ev[i] = ev[i - 1] + 1
           /\ updates[i] = Failure => rv[i] = rv[i - 1]
           /\ updates[i] # Failure => updates[i].rev = rv[i - 1] + 1 /\ rv[i] = rv[i - 1] + 1
  BY <1>1 DEF Continues
<1> HIDE DEF n
<1>5. ew \in [0..n + 1 -> 0..cursor'] /\ rw \in [0..n + 1 -> Nat]
  BY <1>1, <1>2, <1>3
<1>6. /\ ew[0] = Len(shown) /\ ew[n + 1] = cursor' /\ rw[0] = lastRev /\ rw[n + 1] = revision'
      /\ ew[n] = cursor /\ rw[n] = revision
  BY <1>2, <1>4
<1>7. ASSUME NEW i \in 1..n + 1
      PROVE  /\ updates'[i].event = 0 => ew[i] = ew[i - 1]
             /\ updates'[i].event # 0 => updates'[i].event = ew[i - 1] + 1 /\ ew[i] = ew[i - 1] + 1
             /\ updates'[i] = Failure => rw[i] = rw[i - 1]
             /\ updates'[i] # Failure => updates'[i].rev = rw[i - 1] + 1 /\ rw[i] = rw[i - 1] + 1
  <2>1. CASE i = n + 1
    <3>1. updates'[i] = x /\ i - 1 = n
      BY <1>2, <2>1
    <3> HIDE DEF ew, rw
    <3> QED
      BY <1>6, <2>1, <3>1
  <2>2. CASE i \in 1..n
    <3>1. /\ updates'[i] = updates[i] /\ ew[i] = ev[i] /\ ew[i - 1] = ev[i - 1]
          /\ rw[i] = rv[i] /\ rw[i - 1] = rv[i - 1]
      BY <1>2, <2>2
    <3> HIDE DEF ew, rw
    <3> QED
      BY <1>4, <2>2, <3>1
  <2> QED
    BY <1>2, <2>1, <2>2
<1> HIDE DEF ew, rw
<1>8. PICK e \in [0..Len(updates') -> 0..cursor'], r \in [0..Len(updates') -> Nat] :
        /\ e[0] = Len(shown') /\ e[Len(updates')] = cursor'
        /\ r[0] = lastRev' /\ r[Len(updates')] = revision'
        /\ \A i \in 1..Len(updates') :
             /\ updates'[i].event = 0 => e[i] = e[i - 1]
             /\ updates'[i].event # 0 => updates'[i].event = e[i - 1] + 1 /\ e[i] = e[i - 1] + 1
             /\ updates'[i] = Failure => r[i] = r[i - 1]
             /\ updates'[i] # Failure => updates'[i].rev = r[i - 1] + 1 /\ r[i] = r[i - 1] + 1
  <2>1. ew \in [0..Len(updates') -> 0..cursor'] /\ rw \in [0..Len(updates') -> Nat]
    BY <1>2, <1>5
  <2>2. /\ ew[0] = Len(shown') /\ ew[Len(updates')] = cursor'
        /\ rw[0] = lastRev' /\ rw[Len(updates')] = revision'
    BY <1>2, <1>6
  <2>3. \A i \in 1..Len(updates') :
          /\ updates'[i].event = 0 => ew[i] = ew[i - 1]
          /\ updates'[i].event # 0 => updates'[i].event = ew[i - 1] + 1 /\ ew[i] = ew[i - 1] + 1
          /\ updates'[i] = Failure => rw[i] = rw[i - 1]
          /\ updates'[i] # Failure => updates'[i].rev = rw[i - 1] + 1 /\ rw[i] = rw[i - 1] + 1
    BY <1>2, <1>7
  <2> QED
    BY <2>1, <2>2, <2>3, Zenon
<1>9. Failure' = Failure
  BY DEF Failure
<1> QED
  BY <1>8, <1>9 DEF ChannelInv, Continues

(* What the first delivery of the channel is, and the witnesses without it.   *)
LEMMA ChannelHead ==
  ASSUME TypeOK, ChannelInv, updates # <<>>, NEW d, d = Head(updates)
  PROVE  /\ d.event # 0 => d.event = Len(shown) + 1 /\ d.event <= cursor
         /\ d # Failure => d.rev = lastRev + 1
<1> DEFINE n == Len(updates)
<1>1. PICK ev \in [0..n -> 0..cursor], rv \in [0..n -> Nat] : Continues(ev, rv)
  BY DEF ChannelInv
<1>2. n \in Nat \ {0} /\ d = updates[1]
  BY TailProperties DEF TypeOK
<1>3. /\ ev[0] = Len(shown) /\ rv[0] = lastRev
      /\ \A i \in 1..n :
           /\ updates[i].event # 0 => updates[i].event = ev[i - 1] + 1 /\ ev[i] = ev[i - 1] + 1
           /\ updates[i] # Failure => updates[i].rev = rv[i - 1] + 1
  BY <1>1 DEF Continues
<1> HIDE DEF n
<1>4. 1 \in 1..n /\ 1 - 1 = 0 /\ ev[1] \in 0..cursor
  BY <1>1, <1>2
<1>5. cursor \in Nat
  BY DEF TypeOK
<1> QED
  BY <1>2, <1>3, <1>4, <1>5

(* The witnesses of ChannelInv after Receive took the first delivery.         *)
LEMMA ChannelTail ==
  ASSUME TypeOK, ChannelInv, updates # <<>>, NEW d, d = Head(updates),
         updates' = Tail(updates), UNCHANGED <<cursor, revision>>,
         lastRev' = IF d = Failure THEN lastRev ELSE d.rev,
         shown' = IF d.event = 0 THEN shown ELSE Append(shown, d.event)
  PROVE  ChannelInv'
<1> DEFINE n == Len(updates)
<1>1. PICK ev \in [0..n -> 0..cursor], rv \in [0..n -> Nat] : Continues(ev, rv)
  BY DEF ChannelInv
<1>2. /\ n \in Nat \ {0} /\ d = updates[1] /\ d \in Deliveries /\ Len(updates') = n - 1
      /\ \A i \in 1..n - 1 : updates'[i] = updates[i + 1]
  BY TailProperties DEF TypeOK
<1>3. Len(shown') = IF d.event = 0 THEN Len(shown) ELSE Len(shown) + 1
  <2>1. CASE d.event = 0
    BY <2>1
  <2>2. CASE d.event # 0
    <3>1. d.event \in 1..MaxEvents
      BY <1>2, <2>2 DEF Deliveries
    <3> QED
      BY <2>2, <3>1, AppendFacts DEF TypeOK
  <2> QED
    BY <2>1, <2>2
<1> DEFINE ew == [i \in 0..n - 1 |-> ev[i + 1]]
           rw == [i \in 0..n - 1 |-> rv[i + 1]]
<1>4. /\ ev[0] = Len(shown) /\ ev[n] = cursor /\ rv[0] = lastRev /\ rv[n] = revision
      /\ \A i \in 1..n :
           /\ updates[i].event = 0 => ev[i] = ev[i - 1]
           /\ updates[i].event # 0 => updates[i].event = ev[i - 1] + 1 /\ ev[i] = ev[i - 1] + 1
           /\ updates[i] = Failure => rv[i] = rv[i - 1]
           /\ updates[i] # Failure => updates[i].rev = rv[i - 1] + 1 /\ rv[i] = rv[i - 1] + 1
  BY <1>1 DEF Continues
<1> HIDE DEF n
<1>5. ew \in [0..n - 1 -> 0..cursor'] /\ rw \in [0..n - 1 -> Nat]
  BY <1>1, <1>2
<1>6. ew[0] = Len(shown') /\ ew[n - 1] = cursor' /\ rw[0] = lastRev' /\ rw[n - 1] = revision'
  <2>1. 1 \in 1..n /\ 1 - 1 = 0 /\ ew[0] = ev[1] /\ rw[0] = rv[1] /\ ew[n - 1] = ev[n] /\ rw[n - 1] = rv[n]
    BY <1>2
  <2> HIDE DEF ew, rw
  <2>2. ev[1] = IF d.event = 0 THEN Len(shown) ELSE Len(shown) + 1
    BY <1>2, <1>4, <2>1
  <2>3. rv[1] = IF d = Failure THEN lastRev ELSE d.rev
    BY <1>2, <1>4, <2>1
  <2> QED
    BY <1>3, <1>4, <2>1, <2>2, <2>3
<1>7. ASSUME NEW i \in 1..n - 1
      PROVE  /\ updates'[i].event = 0 => ew[i] = ew[i - 1]
             /\ updates'[i].event # 0 => updates'[i].event = ew[i - 1] + 1 /\ ew[i] = ew[i - 1] + 1
             /\ updates'[i] = Failure => rw[i] = rw[i - 1]
             /\ updates'[i] # Failure => updates'[i].rev = rw[i - 1] + 1 /\ rw[i] = rw[i - 1] + 1
  <2>1. /\ i + 1 \in 1..n /\ (i + 1) - 1 = i
        /\ updates'[i] = updates[i + 1] /\ ew[i] = ev[i + 1] /\ ew[i - 1] = ev[i]
        /\ rw[i] = rv[i + 1] /\ rw[i - 1] = rv[i]
    BY <1>2
  <2> HIDE DEF ew, rw
  <2> QED
    BY <1>4, <2>1
<1> HIDE DEF ew, rw
<1>8. PICK e \in [0..Len(updates') -> 0..cursor'], r \in [0..Len(updates') -> Nat] :
        /\ e[0] = Len(shown') /\ e[Len(updates')] = cursor'
        /\ r[0] = lastRev' /\ r[Len(updates')] = revision'
        /\ \A i \in 1..Len(updates') :
             /\ updates'[i].event = 0 => e[i] = e[i - 1]
             /\ updates'[i].event # 0 => updates'[i].event = e[i - 1] + 1 /\ e[i] = e[i - 1] + 1
             /\ updates'[i] = Failure => r[i] = r[i - 1]
             /\ updates'[i] # Failure => updates'[i].rev = r[i - 1] + 1 /\ r[i] = r[i - 1] + 1
  <2>1. ew \in [0..Len(updates') -> 0..cursor'] /\ rw \in [0..Len(updates') -> Nat]
    BY <1>2, <1>5
  <2>2. /\ ew[0] = Len(shown') /\ ew[Len(updates')] = cursor'
        /\ rw[0] = lastRev' /\ rw[Len(updates')] = revision'
    BY <1>2, <1>6
  <2>3. \A i \in 1..Len(updates') :
          /\ updates'[i].event = 0 => ew[i] = ew[i - 1]
          /\ updates'[i].event # 0 => updates'[i].event = ew[i - 1] + 1 /\ ew[i] = ew[i - 1] + 1
          /\ updates'[i] = Failure => rw[i] = rw[i - 1]
          /\ updates'[i] # Failure => updates'[i].rev = rw[i - 1] + 1 /\ rw[i] = rw[i - 1] + 1
    BY <1>2, <1>7
  <2> QED
    BY <2>1, <2>2, <2>3, Zenon
<1>9. Failure' = Failure
  BY DEF Failure
<1> QED
  BY <1>8, <1>9 DEF ChannelInv, Continues

(* A step that leaves the channel and what it joins alone.                    *)
LEMMA ChannelSame ==
  ASSUME ChannelInv, UNCHANGED <<updates, shown, lastRev, cursor, revision>>
  PROVE  ChannelInv'
<1>1. PICK ev \in [0..Len(updates) -> 0..cursor], rv \in [0..Len(updates) -> Nat] : Continues(ev, rv)
  BY DEF ChannelInv
<1>2. Continues(ev, rv)'
  BY <1>1 DEF Continues, Failure
<1>3. ev \in [0..Len(updates') -> 0..cursor'] /\ rv \in [0..Len(updates') -> Nat]
  BY <1>1
<1> QED
  BY <1>2, <1>3 DEF ChannelInv
----------------------------------------------------------------------------
(* What is in the channel keeps continuing what Receive returned.             *)
LEMMA ChannelStep == IInv /\ [Next]_vars => ChannelInv'
<1> SUFFICES ASSUME IInv, [Next]_vars PROVE ChannelInv'
  OBVIOUS
<1> USE DEF IInv
<1>1. CASE UNCHANGED <<updates, shown, lastRev, cursor, revision>>
  BY <1>1, ChannelSame
<1>2. ASSUME NEW t \in Threads, PublishSent(t) PROVE ChannelInv'
  <2> DEFINE x == [rev |-> building[t], event |-> IF At(t, "event") THEN event ELSE 0]
  <2>1. /\ updates' = Append(updates, x) /\ UNCHANGED <<shown, lastRev>> /\ revision' = building[t]
        /\ cursor' = IF At(t, "event") THEN event ELSE cursor
        /\ building[t] # 0
    BY <1>2 DEF PublishSent, AdvanceCursor
  <2>2. x \in Deliveries
    BY DEF TypeOK, Deliveries
  <2>3. building[t] = revision + 1 /\ revision \in Nat /\ cursor \in Nat
    BY <2>1 DEF PublisherInv, TypeOK
  <2>4. At(t, "event") => event = cursor + 1
    BY DEF CursorInv, PublisherInv
  <2>5. x # Failure /\ x.rev = revision + 1 /\ revision' = revision + 1
    BY <2>1, <2>3 DEF Failure
  <2>6. /\ x.event = 0 => cursor' = cursor
        /\ x.event # 0 => x.event = cursor + 1 /\ cursor' = cursor + 1
        /\ cursor' \in Nat /\ revision' \in Nat
    BY <2>1, <2>3, <2>4
  <2> HIDE DEF x
  <2> QED
    BY <2>1, <2>2, <2>5, <2>6, ChannelAppend
<1>3. ASSUME NEW t \in Threads, ReportFailure(t) PROVE ChannelInv'
  <2>1. Failure \in Deliveries /\ Failure.event = 0
    BY DEF Failure, Deliveries
  <2>2. cursor \in Nat /\ revision \in Nat
    BY DEF TypeOK
  <2>3. UNCHANGED <<shown, lastRev, cursor, revision>>
    BY <1>3 DEF ReportFailure
  <2>4. CASE updates' = Append(updates, Failure)
    BY <2>1, <2>2, <2>3, <2>4, ChannelAppend
  <2> QED
    BY <1>1, <1>3, <2>3, <2>4 DEF ReportFailure
<1>4. CASE ReceiveUpdate
  <2> DEFINE d == Head(updates)
  <2>1. updates # <<>> /\ updates' = Tail(updates) /\ UNCHANGED <<cursor, revision>>
    BY <1>4 DEF ReceiveUpdate
  <2>2. lastRev' = IF d = Failure THEN lastRev ELSE d.rev
    BY <1>4 DEF ReceiveUpdate
  <2>3. shown' = IF d.event = 0 THEN shown ELSE Append(shown, d.event)
    BY <1>4 DEF ReceiveUpdate
  <2> QED
    BY <2>1, <2>2, <2>3, ChannelTail
<1>5. ASSUME NEW t \in Threads, Publish(t) PROVE ChannelInv'
  BY <1>1, <1>2, <1>5 DEF Publish, PublishBegin, PublishExhausted, PublishClosed
<1>6. ASSUME NEW t \in Threads, RecordFailure(t) \/ ReportFailure(t) PROVE ChannelInv'
  BY <1>1, <1>3, <1>6 DEF RecordFailure
<1>7. CASE Observe
  BY <1>1, <1>7 DEF Observe, OpenEventStream, StreamFails, OpenCanceled, NextEvent, NextControl, WaitAndRestore
<1>8. CASE ReceiveCall \/ ReceiveReturns
  BY <1>1, <1>8 DEF ReceiveCall, ReceiveReturns
<1>9. CASE Emit \/ StartObserver \/ OtherPublishes \/ OtherFails \/ Close \/ UNCHANGED vars
  BY <1>1, <1>9 DEF Emit, StartObserver, OtherPublishes, OtherFails, Close
<1> QED
  BY <1>4, <1>5, <1>6, <1>7, <1>8, <1>9 DEF Next, Record, Receive, Ended

----------------------------------------------------------------------------
(* The events in a channel are finitely many, and one more after the append   *)
(* of an event.                                                               *)
LEMMA ShowingAppend ==
  ASSUME NEW q \in Seq(Deliveries), NEW x \in Deliveries
  PROVE  /\ IsFiniteSet(Showing(q)) /\ Cardinality(Showing(q)) \in Nat
         /\ Cardinality(Showing(Append(q, x))) = Cardinality(Showing(q)) + (IF x.event = 0 THEN 0 ELSE 1)
<1> DEFINE n == Len(q)
<1>1. /\ n \in Nat /\ Len(Append(q, x)) = n + 1 /\ Append(q, x)[n + 1] = x
      /\ \A i \in 1..n : Append(q, x)[i] = q[i]
  BY AppendFacts
<1>2. IsFiniteSet(1..n)
  BY <1>1, FS_Interval
<1>3. IsFiniteSet(Showing(q)) /\ Cardinality(Showing(q)) \in Nat
  BY <1>2, FS_Subset, FS_CardinalityType DEF Showing
<1>4. CASE x.event = 0
  <2>1. Showing(Append(q, x)) = Showing(q)
    BY <1>1, <1>4 DEF Showing
  <2> QED
    BY <1>3, <1>4, <2>1
<1>5. CASE x.event # 0
  <2>1. Showing(Append(q, x)) = Showing(q) \cup {n + 1} /\ n + 1 \notin Showing(q)
    BY <1>1, <1>5 DEF Showing
  <2> QED
    BY <1>3, <1>5, <2>1, FS_AddElement
<1> QED
  BY <1>3, <1>4, <1>5

(* Receive takes the first delivery away: the others move up by one place.    *)
LEMMA ShowingTail ==
  ASSUME NEW q \in Seq(Deliveries), q # <<>>
  PROVE  Cardinality(Showing(q)) = Cardinality(Showing(Tail(q))) + (IF Head(q).event = 0 THEN 0 ELSE 1)
<1> DEFINE n == Len(q)
           S == Showing(q) \ {1}
           T == Showing(Tail(q))
           f == [i \in T |-> i + 1]
<1>1. /\ n \in Nat \ {0} /\ Head(q) = q[1] /\ Len(Tail(q)) = n - 1
      /\ \A i \in 1..n - 1 : Tail(q)[i] = q[i + 1]
  BY TailProperties
<1>2. IsFiniteSet(1..n) /\ IsFiniteSet(1..n - 1)
  BY <1>1, FS_Interval
<1>3. T \in SUBSET (1..n - 1) /\ Showing(q) \in SUBSET (1..n)
  BY <1>1 DEF Showing
<1>4. IsFiniteSet(T) /\ IsFiniteSet(Showing(q)) /\ Cardinality(Showing(q)) \in Nat
  BY <1>2, <1>3, FS_Subset, FS_CardinalityType
<1>5. f \in [T -> S] /\ \A a, b \in T : f[a] = f[b] => a = b
  <2>1. ASSUME NEW i \in T PROVE i + 1 \in S
    <3>1. i \in 1..n - 1 /\ Tail(q)[i].event # 0
      BY <1>1, <1>3 DEF Showing
    <3>2. i + 1 \in 1..n /\ i + 1 # 1 /\ q[i + 1].event # 0
      BY <1>1, <3>1
    <3> QED
      BY <3>2 DEF Showing
  <2>2. \A a, b \in T : a + 1 = b + 1 => a = b
    BY <1>3
  <2> QED
    BY <2>1, <2>2
<1>6. ASSUME NEW j \in S PROVE \E i \in T : f[i] = j
  <2>1. j \in 1..n /\ j # 1 /\ q[j].event # 0
    BY DEF Showing
  <2>2. /\ j - 1 \in 1..n - 1 /\ (j - 1) + 1 = j
    BY <1>1, <2>1
  <2>3. Tail(q)[j - 1].event # 0
    BY <1>1, <2>1, <2>2
  <2>4. j - 1 \in T
    BY <1>1, <2>2, <2>3 DEF Showing
  <2> QED
    BY <2>2, <2>4
<1> HIDE DEF S, T, f
<1>7. Cardinality(S) = Cardinality(T)
  <2>1. f \in Bijection(T, S)
    BY <1>5, <1>6, Fun_IsBij
  <2>2. ExistsBijection(T, S)
    BY <2>1 DEF ExistsBijection
  <2> QED
    BY <1>4, <2>2, FS_Bijection
<1>8. 1 \in Showing(q) <=> Head(q).event # 0
  BY <1>1 DEF Showing
<1>9. Cardinality(S) = IF 1 \in Showing(q) THEN Cardinality(Showing(q)) - 1 ELSE Cardinality(Showing(q))
  BY <1>4, FS_RemoveElement DEF S
<1> QED
  BY <1>4, <1>7, <1>8, <1>9 DEF T

(* The cursor moves with the event that is put into the channel, and Receive  *)
(* shows what it takes out.                                                   *)
LEMMA CountStep == IInv /\ [Next]_vars => CountInv'
<1> SUFFICES ASSUME IInv, [Next]_vars PROVE CountInv'
  OBVIOUS
<1> USE DEF IInv
<1>t. /\ updates \in Seq(Deliveries) /\ Len(shown) \in Nat /\ cursor \in Nat
      /\ event \in Nat /\ shown \in Seq(1..MaxEvents)
  BY LenProperties DEF TypeOK
<1>1. CASE UNCHANGED <<updates, shown, cursor>>
  BY <1>1 DEF CountInv, Published
<1>2. ASSUME NEW x \in Deliveries, updates' = Append(updates, x), UNCHANGED shown,
             cursor' = cursor + (IF x.event = 0 THEN 0 ELSE 1)
      PROVE  CountInv'
  <2>1. /\ Cardinality(Showing(updates)) \in Nat
        /\ Cardinality(Showing(Append(updates, x)))
              = Cardinality(Showing(updates)) + (IF x.event = 0 THEN 0 ELSE 1)
    BY <1>t, ShowingAppend
  <2>2. Published' = Len(shown) + Cardinality(Showing(Append(updates, x)))
    BY <1>2 DEF Published
  <2>3. cursor = Len(shown) + Cardinality(Showing(updates))
    BY DEF CountInv, Published
  <2>4. cursor' = Published'
    BY <1>t, <1>2, <2>1, <2>2, <2>3
  <2> QED
    BY <2>4 DEF CountInv
<1>3. ASSUME NEW t \in Threads, PublishSent(t) PROVE CountInv'
  <2> DEFINE x == [rev |-> building[t], event |-> IF At(t, "event") THEN event ELSE 0]
  <2>1. /\ updates' = Append(updates, x) /\ UNCHANGED shown
        /\ cursor' = IF At(t, "event") THEN event ELSE cursor
        /\ x \in Deliveries
    BY <1>3 DEF PublishSent, AdvanceCursor, TypeOK, Deliveries
  <2>2. At(t, "event") => event = cursor + 1
    BY DEF CursorInv, PublisherInv
  <2>3. cursor' = cursor + (IF x.event = 0 THEN 0 ELSE 1)
    BY <1>t, <2>1, <2>2
  <2> HIDE DEF x
  <2> QED
    BY <1>2, <2>1, <2>3
<1>4. ASSUME NEW t \in Threads, ReportFailure(t) PROVE CountInv'
  <2>1. Failure \in Deliveries /\ Failure.event = 0
    BY DEF Failure, Deliveries
  <2>2. UNCHANGED <<shown, cursor>> /\ (updates' = Append(updates, Failure) \/ UNCHANGED updates)
    BY <1>4 DEF ReportFailure
  <2> QED
    BY <1>t, <1>1, <1>2, <2>1, <2>2
<1>5. CASE ReceiveUpdate
  <2> DEFINE d == Head(updates)
  <2>1. updates # <<>> /\ updates' = Tail(updates) /\ UNCHANGED cursor
    BY <1>5 DEF ReceiveUpdate
  <2>2. shown' = IF d.event = 0 THEN shown ELSE Append(shown, d.event)
    BY <1>5 DEF ReceiveUpdate
  <2>3. d \in Deliveries
    BY <1>t, <2>1, TailProperties
  <2>4. Len(shown') = Len(shown) + (IF d.event = 0 THEN 0 ELSE 1)
    <3>1. CASE d.event = 0
      BY <1>t, <2>2, <3>1
    <3>2. CASE d.event # 0
      <4>1. d.event \in 1..MaxEvents
        BY <2>3, <3>2 DEF Deliveries
      <4> QED
        BY <1>t, <2>2, <3>2, <4>1, AppendFacts
    <3> QED
      BY <3>1, <3>2
  <2>5. Cardinality(Showing(updates)) = Cardinality(Showing(Tail(updates))) + (IF d.event = 0 THEN 0 ELSE 1)
    BY <1>t, <2>1, ShowingTail
  <2>6. Cardinality(Showing(Tail(updates))) \in Nat
    <3>1. Tail(updates) \in Seq(Deliveries)
      BY <1>t, <2>1, TailProperties
    <3> QED
      BY <2>3, <3>1, ShowingAppend
  <2>7. /\ Published' = Len(shown') + Cardinality(Showing(Tail(updates)))
        /\ cursor = Len(shown) + Cardinality(Showing(updates))
    BY <2>1 DEF Published, CountInv
  <2> HIDE DEF d
  <2>8. cursor' = Published'
    BY <1>t, <2>1, <2>4, <2>5, <2>6, <2>7
  <2> QED
    BY <2>8 DEF CountInv
<1>6. ASSUME NEW t \in Threads, Publish(t) PROVE CountInv'
  BY <1>1, <1>3, <1>6 DEF Publish, PublishBegin, PublishExhausted, PublishClosed
<1>7. ASSUME NEW t \in Threads, RecordFailure(t) \/ ReportFailure(t) PROVE CountInv'
  BY <1>1, <1>4, <1>7 DEF RecordFailure
<1>8. CASE Observe
  BY <1>1, <1>8 DEF Observe, OpenEventStream, StreamFails, OpenCanceled, NextEvent, NextControl, WaitAndRestore
<1>9. CASE \/ Emit \/ StartObserver \/ OtherPublishes \/ OtherFails \/ ReceiveCall \/ ReceiveReturns
           \/ Close \/ UNCHANGED vars
  BY <1>1, <1>9 DEF Emit, StartObserver, OtherPublishes, OtherFails, ReceiveCall, ReceiveReturns, Close
<1> QED
  BY <1>5, <1>6, <1>7, <1>8, <1>9 DEF Next, Record, Receive, Ended

(* A stream is opened at the cursor, and cursor and stream go on together.    *)
LEMMA StreamStep == TypeOK /\ PublisherInv /\ CursorInv /\ StreamInv /\ [Next]_vars => StreamInv'
<1> SUFFICES ASSUME TypeOK, PublisherInv, CursorInv, StreamInv, [Next]_vars PROVE StreamInv'
  OBVIOUS
<1> USE DEF StreamInv
<1>t. /\ pc \in [Threads -> PCs] /\ cursor \in Nat /\ at \in Nat /\ event \in Nat /\ faulty \in BOOLEAN
  BY DEF TypeOK, PCs
<1>1. CASE UNCHANGED <<pc, faulty, at, cursor>>
  BY <1>1
<1>2. CASE pc'["events"] \notin {"next", "reconnected", "event"}
  BY <1>2
<1>3. CASE Observe
  <2>1. CASE OpenEventStream
    BY <1>t, <2>1 DEF OpenEventStream, ResumeAfter
  <2>2. CASE StreamFails
    <3>1. PICK s \in AfterEOF \cup AfterLoss \cup AfterFatal : pc' = [pc EXCEPT !["events"] = s]
      BY <2>2 DEF StreamFails
    <3>2. s \notin {"next", "reconnected", "event"}
      BY <3>1 DEF AfterEOF, AfterLoss, AfterFatal, AfterClose
    <3> QED
      BY <1>t, <1>2, <3>1, <3>2
  <2>3. CASE NextEvent
    <3>1. PICK n \in 1..emitted :
             /\ faulty \/ n = at + 1
             /\ at' = n
             /\ GoOneOf("events", IF EventContiguous(n) THEN {"event"} ELSE AfterFatal)
      BY <2>3 DEF NextEvent
    <3>2. At("events", "next") /\ UNCHANGED <<cursor, faulty>>
      BY <2>3 DEF NextEvent
    <3>3. CASE EventContiguous(n)
      BY <1>t, <3>1, <3>2, <3>3 DEF EventContiguous
    <3>4. CASE ~EventContiguous(n)
      <4>1. pc'["events"] \in AfterFatal
        BY <1>t, <3>1, <3>4
      <4> QED
        BY <1>2, <4>1 DEF AfterFatal, AfterClose
    <3> QED
      BY <3>3, <3>4
  <2>4. CASE NextControl
    <3>1. UNCHANGED <<at, cursor, faulty>> /\ At("events", "next")
      BY <2>4 DEF NextControl
    <3>2. PICK s \in {"open", "next"} \cup AfterFatal : pc' = [pc EXCEPT !["events"] = s]
      BY <2>4 DEF NextControl
    <3>3. s \notin {"reconnected", "event"}
      BY <3>2 DEF AfterFatal, AfterClose
    <3> QED
      BY <1>t, <3>1, <3>2, <3>3
  <2>5. CASE WaitAndRestore
    <3>1. PICK s \in {"open", "restored"} \cup AfterFatal : pc' = [pc EXCEPT !["events"] = s]
      BY <2>5 DEF WaitAndRestore
    <3>2. s \notin {"next", "reconnected", "event"}
      BY <3>1 DEF AfterFatal, AfterClose
    <3> QED
      BY <1>t, <1>2, <3>1, <3>2
  <2>6. CASE OpenCanceled
    BY <1>t, <1>2, <2>6 DEF OpenCanceled
  <2> QED
    BY <1>3, <2>1, <2>2, <2>3, <2>4, <2>5, <2>6 DEF Observe
<1>4. ASSUME NEW t \in Threads, Publish(t) PROVE StreamInv'
  <2>1. CASE PublishBegin(t)
    BY <1>1, <2>1 DEF PublishBegin
  <2>2. CASE PublishExhausted(t)
    BY <1>t, <2>2 DEF PublishExhausted
  <2>3. CASE PublishSent(t)
    <3>1. /\ cursor' = IF At(t, "event") THEN event ELSE cursor
          /\ UNCHANGED <<at, faulty>> /\ building[t] # 0
      BY <2>3 DEF PublishSent, AdvanceCursor
    <3>2. PICK s \in AfterSent(t) : pc' = [pc EXCEPT ![t] = s]
      BY <2>3 DEF PublishSent
    <3>3. CASE t = "other"
      <4>1. pc'["events"] = pc["events"] /\ cursor' = cursor
        BY <1>t, <3>1, <3>2, <3>3 DEF PublisherInv
      <4> QED
        BY <3>1, <4>1
    <3>4. CASE t = "events"
      <4>1. pc'["events"] = s /\ s # "event" /\ s # "reconnected"
        <5>1. s \in {"next", "done", "wait", "open"} \cup AfterFatal
          BY <3>2, <3>4 DEF AfterSent
        <5> QED
          BY <1>t, <3>2, <3>4, <5>1 DEF AfterFatal, AfterClose
      <4>2. s = "next" => At(t, "reconnected") \/ At(t, "event")
        BY <3>2, <3>4 DEF AfterSent, AfterFatal, AfterClose
      <4>3. At(t, "event") => event = cursor + 1
        BY <3>4 DEF CursorInv
      <4> QED
        BY <1>t, <3>1, <3>4, <4>1, <4>2, <4>3
    <3> QED
      BY <3>3, <3>4
  <2>4. CASE PublishClosed(t)
    BY <1>t, <2>4 DEF PublishClosed
  <2> QED
    BY <1>4, <2>1, <2>2, <2>3, <2>4 DEF Publish
<1>5. ASSUME NEW t \in Threads, RecordFailure(t) \/ ReportFailure(t) PROVE StreamInv'
  BY <1>t, <1>5 DEF RecordFailure, ReportFailure, AfterFailure
<1>6. CASE StartObserver \/ OtherPublishes \/ OtherFails
  BY <1>t, <1>6 DEF StartObserver, OtherPublishes, OtherFails
<1>7. CASE Emit \/ ReceiveCall \/ ReceiveUpdate \/ ReceiveReturns \/ Close \/ UNCHANGED vars
  BY <1>1, <1>7 DEF Emit, ReceiveCall, ReceiveUpdate, ReceiveReturns, Close
<1> QED
  BY <1>3, <1>4, <1>5, <1>6, <1>7 DEF Next, Record, Receive, Ended

(* The first update is in the channel, and nothing was shown. *)
LEMMA InitInv == Init => IInv
<1> SUFFICES ASSUME Init PROVE IInv
  OBVIOUS
<1> USE DEF Init
<1> DEFINE x == [rev |-> 1, event |-> 0]
<1>1. x \in Deliveries /\ x # Failure /\ x.rev = 1 /\ x.event = 0
  BY DEF Deliveries, Failure
<1>2. updates = <<x>>
  OBVIOUS
<1> HIDE DEF x
<1>3. updates \in Seq(Deliveries) /\ Len(updates) = 1 /\ updates[1] = x
  BY <1>1, <1>2
<1>4. TypeOK
  <2>1. Len(updates) <= UpdateCapacity
    BY <1>3
  <2>2. shown \in Seq(1..MaxEvents) /\ revision \in 0..MaxRevision /\ lastRev \in 0..MaxRevision
    OBVIOUS
  <2>3. /\ pc \in [Threads -> {"idle", "open", "reconnected", "next", "event", "announce", "wait",
                               "restored", "fail", "report", "canceled", "done"}]
        /\ building \in [Threads -> 0..MaxRevision]
    OBVIOUS
  <2>4. emitted \in 0..MaxEvents /\ cursor \in 0..MaxEvents /\ at \in 0..MaxEvents /\ event \in 0..MaxEvents
    OBVIOUS
  <2>5. /\ faulty \in BOOLEAN /\ over \in BOOLEAN /\ announced \in BOOLEAN /\ failed \in BOOLEAN
        /\ delivered \in BOOLEAN /\ closed \in BOOLEAN
    BY Zenon
  <2>6. publisher \in Threads \cup {Nobody} /\ reader \in {"idle", "waiting"}
    OBVIOUS
  <2> QED
    BY <1>3, <2>1, <2>2, <2>3, <2>4, <2>5, <2>6, Zenon DEF TypeOK
<1>5. PublisherInv /\ CursorInv /\ ReaderInv
  BY DEF PublisherInv, CursorInv, ReaderInv
<1>6. ChannelInv
  <2> DEFINE ev == [i \in 0..1 |-> 0]
             rv == [i \in 0..1 |-> i]
  <2>1. ev \in [0..Len(updates) -> 0..cursor] /\ rv \in [0..Len(updates) -> Nat]
    BY <1>3
  <2>2. Len(shown) = 0
    OBVIOUS
  <2>3. ev[0] = 0 /\ ev[1] = 0 /\ rv[0] = 0 /\ rv[1] = 1
    OBVIOUS
  <2> HIDE DEF ev, rv
  <2>4. \A i \in 1..Len(updates) : i = 1 /\ i - 1 = 0
    BY <1>3
  <2>5. Continues(ev, rv)
    BY <1>1, <1>3, <2>2, <2>3, <2>4 DEF Continues
  <2> QED
    BY <2>1, <2>5 DEF ChannelInv
<1>7. StreamInv
  BY DEF StreamInv
<1>8. CountInv
  <2>1. Showing(updates) = {}
    BY <1>1, <1>3 DEF Showing
  <2>2. Len(shown) = 0 /\ cursor = 0
    OBVIOUS
  <2>3. Cardinality(Showing(updates)) = 0
    BY <2>1, FS_EmptySet
  <2> HIDE DEF Init
  <2>4. Published = 0
    BY <2>2, <2>3 DEF Published
  <2> QED
    BY <2>2, <2>4 DEF CountInv
<1> QED
  BY <1>4, <1>5, <1>6, <1>7, <1>8 DEF IInv

(***************************************************************************)
(* Every variable of the event path keeps its type; in particular the      *)
(* update channel never exceeds config.UpdateCapacity and the revision is  *)
(* never counted past its last value (publish, recordFailure).             *)
(***************************************************************************)
THEOREM TypeCorrect == Spec => []TypeOK
<1>1. Init => TypeOK
  BY InitInv DEF IInv
<1>2. TypeOK /\ [Next]_vars => TypeOK'
  BY TypeStep
<1> QED
  BY <1>1, <1>2, PTL DEF Spec

(***************************************************************************)
(* The type, publisher, cursor, channel and reader invariants are together *)
(* inductive: whatever is in the channel continues what Receive returned.  *)
(***************************************************************************)
THEOREM Inductive == Spec => []IInv
<1>1. Init => IInv
  BY InitInv
<1>2. IInv /\ [Next]_vars => IInv'
  BY TypeStep, ThreadStep, ChannelStep, StreamStep, CountStep DEF IInv
<1> QED
  BY <1>1, <1>2, PTL DEF Spec

(***************************************************************************)
(* Event streams are resumed from the last published sequence: the cursor  *)
(* is the number of events put into the channel, received or not, and an   *)
(* intact stream stands exactly there (observeEvents, handleEvent).        *)
(***************************************************************************)
THEOREM Resumption == Spec => []ResumesAfterPublished
<1>1. IInv => ResumesAfterPublished
  BY DEF IInv, StreamInv, CountInv, ResumesAfterPublished
<1> QED
  BY <1>1, Inductive, PTL

(***************************************************************************)
(* However many goroutines publish and whenever a failure passes them,     *)
(* Receive returns updates whose revisions increase by exactly one.        *)
(***************************************************************************)
THEOREM RevisionsOrdered == Spec => RevisionsIncrease
<1>1. IInv /\ [Next]_vars => [lastRev' # lastRev => lastRev' = lastRev + 1]_vars
  <2> SUFFICES ASSUME IInv, [Next]_vars, lastRev' # lastRev PROVE lastRev' = lastRev + 1
    OBVIOUS
  <2>1. CASE ReceiveUpdate
    <3> DEFINE d == Head(updates)
    <3>1. updates # <<>> /\ lastRev' = IF d = Failure THEN lastRev ELSE d.rev
      BY <2>1 DEF ReceiveUpdate
    <3>2. d # Failure => d.rev = lastRev + 1
      BY <3>1, ChannelHead DEF IInv
    <3> QED
      BY <3>1, <3>2
  <2>2. CASE ~ReceiveUpdate
    <3>1. ASSUME NEW t \in Threads, Publish(t) \/ RecordFailure(t) \/ ReportFailure(t)
          PROVE  UNCHANGED lastRev
      BY <3>1 DEF Publish, PublishBegin, PublishExhausted, PublishSent, PublishClosed,
                  RecordFailure, ReportFailure
    <3>2. CASE Observe
      BY <3>2 DEF Observe, OpenEventStream, StreamFails, OpenCanceled, NextEvent, NextControl, WaitAndRestore
    <3>3. CASE Emit \/ StartObserver \/ OtherPublishes \/ OtherFails \/ ReceiveCall \/ ReceiveReturns
                 \/ Close \/ UNCHANGED vars
      BY <3>3 DEF Emit, StartObserver, OtherPublishes, OtherFails, ReceiveCall, ReceiveReturns, Close
    <3> QED
      BY <2>2, <3>1, <3>2, <3>3 DEF Next, Record, Receive, Ended
  <2> QED
    BY <2>1, <2>2
<1> QED
  BY <1>1, Inductive, PTL DEF Spec, RevisionsIncrease

(***************************************************************************)
(* What the terminal is shown implements EventLog: whatever the streams    *)
(* lose, repeat or misplace, it is a prefix of the daemon's log, each      *)
(* event once and in order, and nothing after a failure (handleEvent,      *)
(* publish, Receive).                                                      *)
(***************************************************************************)
THEOREM ImplementsLog == Spec => ShownAsLogged
<1>1. Init => Log!Init
  BY DEF Init, Log!Init
<1>2. IInv /\ [Next]_vars => [Log!Next]_(Log!vars)
  <2> SUFFICES ASSUME IInv, [Next]_vars PROVE [Log!Next]_(Log!vars)
    OBVIOUS
  <2> USE DEF Log!vars
  <2>1. CASE Emit
    BY <2>1 DEF Emit, Log!Next, Log!Emit
  <2>2. CASE ReceiveUpdate
    <3> DEFINE d == Head(updates)
    <3>1. updates # <<>> /\ reader = "waiting" /\ UNCHANGED emitted
      BY <2>2 DEF ReceiveUpdate
    <3>2. delivered' = (delivered \/ d = Failure)
      BY <2>2 DEF ReceiveUpdate
    <3>3. shown' = IF d.event = 0 THEN shown ELSE Append(shown, d.event)
      BY <2>2 DEF ReceiveUpdate
    <3>4. delivered = FALSE
      BY <3>1 DEF IInv, ReaderInv, TypeOK
    <3>5. d.event # 0 => d.event = Len(shown) + 1 /\ d.event <= cursor
      BY <3>1, ChannelHead DEF IInv
    <3>6. cursor <= emitted /\ cursor \in Nat /\ emitted \in Nat /\ Len(shown) \in Nat
      BY LenProperties DEF IInv, CursorInv, TypeOK
    <3> HIDE DEF d
    <3>7. CASE d = Failure
      <4>1. d.event = 0 /\ delivered' = TRUE
        BY <3>2, <3>7 DEF Failure
      <4> QED
        BY <3>1, <3>3, <3>4, <4>1 DEF Log!Next, Log!ShowFailure
    <3>8. CASE d # Failure /\ d.event = 0
      <4>1. delivered' = delivered
        BY <3>2, <3>4, <3>8
      <4> QED
        BY <3>1, <3>3, <3>8, <4>1
    <3>9. CASE d # Failure /\ d.event # 0
      <4>1. delivered' = delivered
        BY <3>2, <3>4, <3>9
      <4>2. Len(shown) < emitted /\ d.event = Len(shown) + 1
        BY <3>5, <3>6, <3>9
      <4>3. shown' = Append(shown, Len(shown) + 1)
        BY <3>3, <3>9, <4>2
      <4> QED
        BY <3>1, <3>4, <4>1, <4>2, <4>3 DEF Log!Next, Log!Show
    <3> QED
      BY <3>7, <3>8, <3>9
  <2>3. CASE ~Emit /\ ~ReceiveUpdate
    <3>1. ASSUME NEW t \in Threads, Publish(t) \/ RecordFailure(t) \/ ReportFailure(t)
          PROVE  UNCHANGED <<emitted, shown, delivered>>
      BY <3>1 DEF Publish, PublishBegin, PublishExhausted, PublishSent, PublishClosed,
                  RecordFailure, ReportFailure
    <3>2. CASE Observe
      BY <3>2 DEF Observe, OpenEventStream, StreamFails, OpenCanceled, NextEvent, NextControl, WaitAndRestore
    <3>3. CASE StartObserver \/ OtherPublishes \/ OtherFails \/ ReceiveCall \/ ReceiveReturns
                 \/ Close \/ UNCHANGED vars
      BY <3>3 DEF StartObserver, OtherPublishes, OtherFails, ReceiveCall, ReceiveReturns, Close
    <3> QED
      BY <2>3, <3>1, <3>2, <3>3 DEF Next, Record, Receive, Ended
  <2> QED
    BY <2>1, <2>2, <2>3
<1> QED
  BY <1>1, <1>2, Inductive, PTL DEF Spec, ShownAsLogged, Log!Spec
=============================================================================
