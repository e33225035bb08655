----------------------- MODULE TuiInteractions_proofs -----------------------
(***************************************************************************)
(* Proofs about TuiInteractions, for every set of interactions and every   *)
(* number of daemons, revisions and client generations: what the merged    *)
(* pending set is, when a frame is accepted, and which interaction is      *)
(* answered.                                                               *)
(***************************************************************************)
EXTENDS TuiInteractions, SequenceTheorems, WellFoundedInduction, TLAPS

(* The merged state is one the attached daemon had.                          *)
Authority == revision <= Latest(attached) /\ pending = SetAt(attached, revision)

Streaming == pc \in {"next", "merge", "publish"}

(* What the steps below need of the types, and that an incarnation starts    *)
(* without a pending interaction.                                            *)
DataInv ==
  /\ hist \in [1..MaxDaemons -> Seq(SUBSET Keys)]
  /\ \A d \in 1..MaxDaemons : Len(hist[d]) >= 1 /\ hist[d][1] = {}
  /\ daemon \in 1..MaxDaemons /\ attached \in 1..MaxDaemons
  /\ generation \in Nat /\ revision \in Nat
  /\ stream \in [src : 1..MaxDaemons, gen : Nat, at : Nat]
  /\ frame \in [kind : {"none", "snapshot", "change", "control"}, rev : Nat]
  /\ want \in BOOLEAN /\ faulty \in BOOLEAN /\ commands \in BOOLEAN
  /\ restorer \in {"none", "observer", "command"}

(* A stream of the current generation comes from the attached daemon, and    *)
(* no stream or frame is ahead of its daemon.                                *)
StreamInv ==
  /\ stream.gen <= generation
  /\ stream.gen = generation => stream.src = attached
  /\ stream.at <= Latest(stream.src)
  /\ pc = "merge" => frame.rev = stream.at /\ frame.kind # "none"

(* The observer restores only in its own step; without other lanes its       *)
(* stream is the current one.                                                *)
RestoreInv ==
  /\ restorer = "observer" => pc = "restore"
  /\ restorer = "none" => step = "idle"
  /\ ~commands => restorer # "command" /\ (Streaming => stream.gen = generation)

(* The merged state is the daemon's: for a stream of the current generation  *)
(* whose snapshot was merged, and without other lanes always but between the *)
(* swap and the reset.                                                       *)
MergeInv ==
  /\ Streaming /\ stream.gen = generation /\ ~want => Authority
  /\ ~commands /\ pc \notin {"rejected", "failed"} /\ step # "reset" => Authority

(* What a healthy stream sends is what the merge expects.                    *)
OrderInv ==
  ~commands /\ ~faulty =>
    /\ pc # "rejected"
    /\ pc \in {"next", "publish"} /\ ~want => stream.at = revision
    /\ pc = "publish" => ~want
    /\ pc = "merge" /\ want => frame.kind = "snapshot" /\ frame.rev >= revision
    /\ pc = "merge" /\ ~want => \/ frame.kind = "control" /\ frame.rev = revision
                                \/ frame.kind = "change" /\ frame.rev = revision + 1

IInv == DataInv /\ StreamInv /\ RestoreInv /\ MergeInv /\ OrderInv
----------------------------------------------------------------------------
USE InteractionBounds DEF vars, env, prompt

(* The history of an incarnation only grows. *)
LEMMA HistoryGrows ==
  ASSUME DataInv, NEW k \in Keys, DaemonChange(k)
  PROVE  /\ hist' \in [1..MaxDaemons -> Seq(SUBSET Keys)]
         /\ \A d \in 1..MaxDaemons :
              /\ Len(hist[d]) \in Nat /\ Len(hist'[d]) \in Nat /\ Len(hist[d]) <= Len(hist'[d])
              /\ \A n \in 1..Len(hist[d]) : hist'[d][n] = hist[d][n]
<1> DEFINE now == SetAt(daemon, Latest(daemon))
           next == IF k \in now THEN now \ {k} ELSE now \cup {k}
<1>1. hist' = [hist EXCEPT ![daemon] = Append(hist[daemon], next)]
  BY DEF DaemonChange
<1>2. hist[daemon] \in Seq(SUBSET Keys) /\ Len(hist[daemon]) \in Nat /\ Len(hist[daemon]) >= 1
  BY LenProperties DEF DataInv
<1>3. next \in SUBSET Keys
  <2>1. now \in SUBSET Keys
    BY <1>2, ElementOfSeq DEF SetAt, Latest
  <2> HIDE DEF now
  <2> QED
    BY <2>1
<1> HIDE DEF next
<1>4. /\ Append(hist[daemon], next) \in Seq(SUBSET Keys)
      /\ Len(Append(hist[daemon], next)) = Len(hist[daemon]) + 1
      /\ \A n \in 1..Len(hist[daemon]) : Append(hist[daemon], next)[n] = hist[daemon][n]
  BY <1>2, <1>3, AppendProperties
<1>5. \A d \in 1..MaxDaemons : hist[d] \in Seq(SUBSET Keys) /\ Len(hist[d]) \in Nat
  BY LenProperties DEF DataInv
<1>6. \A d \in 1..MaxDaemons : hist'[d] = IF d = daemon THEN Append(hist[daemon], next) ELSE hist[d]
  BY <1>1 DEF DataInv
<1>7. hist' \in [1..MaxDaemons -> Seq(SUBSET Keys)]
  BY <1>1, <1>4 DEF DataInv
<1>8. ASSUME NEW d \in 1..MaxDaemons
      PROVE  /\ Len(hist[d]) \in Nat /\ Len(hist'[d]) \in Nat /\ Len(hist[d]) <= Len(hist'[d])
             /\ \A n \in 1..Len(hist[d]) : hist'[d][n] = hist[d][n]
  <2>1. CASE d = daemon
    <3>1. hist'[d] = Append(hist[daemon], next)
      BY <1>6, <2>1
    <3> QED
      BY <1>2, <1>4, <2>1, <3>1
  <2>2. CASE d # daemon
    BY <1>5, <1>6, <2>2
  <2> QED
    BY <2>1, <2>2
<1> QED
  BY <1>7, <1>8

LEMMA DaemonChangeStep ==
  ASSUME IInv, NEW k \in Keys, DaemonChange(k)
  PROVE  IInv'
<1>1. /\ hist' \in [1..MaxDaemons -> Seq(SUBSET Keys)]
      /\ \A d \in 1..MaxDaemons :
           /\ Len(hist[d]) \in Nat /\ Len(hist'[d]) \in Nat /\ Len(hist[d]) <= Len(hist'[d])
           /\ \A n \in 1..Len(hist[d]) : hist'[d][n] = hist[d][n]
  BY HistoryGrows DEF IInv
<1>2. UNCHANGED <<env, daemon, attached, generation, pending, revision, active, prompt, pc, stream, want,
                  frame, restorer, step>>
  BY DEF DaemonChange
<1>3. DataInv'
  <2>1. ASSUME NEW d \in 1..MaxDaemons PROVE Len(hist'[d]) >= 1 /\ hist'[d][1] = {}
    <3>1. Len(hist[d]) >= 1 /\ hist[d][1] = {}
      BY DEF IInv, DataInv
    <3>2. 1 \in 1..Len(hist[d])
      BY <1>1, <3>1
    <3>3. hist'[d][1] = hist[d][1]
      BY <1>1, <3>2
    <3>4. Len(hist'[d]) >= 1
      BY <1>1, <3>1
    <3> QED
      BY <3>1, <3>3, <3>4
  <2> QED
    BY <1>1, <1>2, <2>1 DEF IInv, DataInv
<1>4. Authority => Authority'
  BY <1>1, <1>2 DEF IInv, DataInv, Authority, Latest, SetAt
<1>5. StreamInv'
  BY <1>1, <1>2 DEF IInv, DataInv, StreamInv, Latest
<1>6. RestoreInv' /\ OrderInv'
  BY <1>2 DEF IInv, RestoreInv, OrderInv, Streaming
<1>7. MergeInv'
  BY <1>2, <1>4 DEF IInv, MergeInv, Streaming
<1> QED
  BY <1>3, <1>5, <1>6, <1>7 DEF IInv
----------------------------------------------------------------------------
(* Merging an accepted frame of the attached daemon.  A change is merged into *)
(* the set that was pending before it.                                       *)
LEMMA MergeAuthority ==
  ASSUME IInv, MergeFrame, Accepted, frame.kind # "control", stream.src = attached,
         frame.kind = "change" => Authority
  PROVE  Authority'
<1>1. /\ revision' = frame.rev /\ UNCHANGED <<hist, attached>>
      /\ pending' = IF frame.kind = "snapshot" THEN After ELSE (pending \cup Opened) \ Closed
  BY DEF MergeFrame
<1>2. frame.rev <= Latest(attached)
  BY DEF IInv, StreamInv, MergeFrame
<1>3. CASE frame.kind = "snapshot"
  BY <1>1, <1>2, <1>3 DEF Authority, After, SetAt, Latest
<1>4. CASE frame.kind = "change"
  <2>1. frame.rev = revision + 1
    BY <1>4 DEF Accepted, ChangeContiguous
  <2>2. Before = pending
    BY <1>4, <2>1 DEF Before, Authority, IInv, DataInv
  <2>3. pending' = After
    BY <1>1, <1>4, <2>2 DEF Opened, Closed
  <2> QED
    BY <1>1, <1>2, <2>3 DEF Authority, After, SetAt, Latest
<1> QED
  BY <1>3, <1>4 DEF IInv, DataInv, StreamInv, MergeFrame

LEMMA MergeStep ==
  ASSUME IInv, MergeFrame
  PROVE  IInv'
<1> USE DEF IInv
<1>1. /\ pc = "merge" /\ frame' = NoFrame
      /\ UNCHANGED <<env, hist, daemon, attached, generation, stream, restorer, step>>
      /\ pc' \in {"rejected", "publish", "next"}
      /\ ~Accepted => pc' = "rejected"
      /\ Accepted => pc' # "rejected"
  BY DEF MergeFrame
<1>2. CASE Accepted /\ frame.kind # "control"
  <2>1. revision' = frame.rev /\ want' = FALSE
    BY <1>2 DEF MergeFrame
  <2>2. DataInv'
    BY <1>1, <2>1 DEF DataInv, NoFrame
  <2>3. StreamInv' /\ RestoreInv'
    BY <1>1 DEF DataInv, StreamInv, RestoreInv, Latest, Streaming
  <2>4. frame.kind = "change" => ~want
    BY <1>2 DEF Accepted
  <2>5. stream.gen = generation => Authority'
    BY <1>1, <1>2, <2>4, MergeAuthority DEF StreamInv, MergeInv, Streaming
  <2>6. MergeInv'
    BY <1>1, <2>5 DEF MergeInv, RestoreInv, Streaming
  <2>7. OrderInv'
    BY <1>1, <1>2, <2>1 DEF OrderInv, StreamInv
  <2> QED
    BY <2>2, <2>3, <2>6, <2>7
<1>3. CASE Accepted /\ frame.kind = "control"
  <2>1. UNCHANGED <<pending, revision, want>>
    BY <1>3 DEF MergeFrame
  <2>2. ~want /\ frame.rev = revision
    BY <1>3 DEF Accepted
  <2>3. DataInv' /\ StreamInv' /\ RestoreInv'
    BY <1>1, <2>1 DEF DataInv, StreamInv, RestoreInv, Latest, Streaming, NoFrame
  <2>4. Authority => Authority'
    BY <1>1, <2>1 DEF Authority, Latest, SetAt
  <2>5. MergeInv'
    BY <1>1, <2>1, <2>4 DEF MergeInv, Streaming
  <2>6. OrderInv'
    BY <1>1, <1>3, <2>1, <2>2 DEF OrderInv, StreamInv
  <2> QED
    BY <2>3, <2>5, <2>6
<1>4. CASE ~Accepted
  <2>1. UNCHANGED <<pending, revision, want>> /\ pc' = "rejected"
    BY <1>1, <1>4 DEF MergeFrame
  <2>2. DataInv' /\ StreamInv' /\ RestoreInv'
    BY <1>1, <2>1 DEF DataInv, StreamInv, RestoreInv, Latest, Streaming, NoFrame
  <2>3. MergeInv'
    BY <2>1 DEF MergeInv, Streaming
  <2>4. ~(~commands /\ ~faulty)
    <3> SUFFICES ASSUME ~commands, ~faulty PROVE Accepted
      BY <1>4
    <3>1. (stream.src = attached /\ Authority) \/ want
      BY <1>1 DEF RestoreInv, StreamInv, MergeInv, Streaming
    <3>2. CASE want
      BY <1>1, <3>2 DEF OrderInv, Accepted, SnapshotAccepted
    <3>3. CASE ~want /\ frame.kind = "control"
      BY <1>1, <3>3 DEF OrderInv, Accepted
    <3>4. CASE ~want /\ frame.kind = "change"
      <4>1. frame.rev = revision + 1
        BY <1>1, <3>4 DEF OrderInv
      <4>2. Before = pending
        BY <3>1, <3>4, <4>1 DEF Before, Authority, DataInv
      <4> QED
        BY <3>4, <4>1, <4>2 DEF Accepted, ChangeContiguous, Opened, Closed
    <3> QED
      BY <1>1, <3>2, <3>3, <3>4 DEF OrderInv
  <2>5. OrderInv'
    BY <1>1, <2>4 DEF OrderInv
  <2> QED
    BY <2>2, <2>3, <2>5
<1> QED
  BY <1>2, <1>3, <1>4

LEMMA NextFrameStep ==
  ASSUME IInv, NextFrame
  PROVE  IInv'
<1> USE DEF IInv
<1>1. PICK f \in Sendable : frame' = f /\ stream' = [stream EXCEPT !.at = f.rev]
  BY DEF NextFrame
<1>2. /\ pc = "next" /\ pc' = "merge"
      /\ UNCHANGED <<env, hist, daemon, attached, generation, pending, revision, want, restorer, step>>
  BY DEF NextFrame
<1>3. \A d \in 1..MaxDaemons : Len(hist[d]) \in Nat \ {0}
  BY LenProperties DEF DataInv
<1>4. /\ f \in [kind : {"none", "snapshot", "change", "control"}, rev : Nat]
      /\ f.kind # "none" /\ f.rev <= Latest(stream.src)
  BY <1>3 DEF Sendable, Frames, DataInv, StreamInv, Latest
<1>5. ~faulty => /\ want => f.kind = "snapshot" /\ f.rev = Latest(stream.src)
                 /\ ~want => \/ f.kind = "control" /\ f.rev = stream.at
                             \/ f.kind = "change" /\ f.rev = stream.at + 1
  BY DEF Sendable
<1>6. stream' = [src |-> stream.src, gen |-> stream.gen, at |-> f.rev]
  BY <1>1 DEF DataInv
<1>7. DataInv' /\ StreamInv'
  BY <1>1, <1>2, <1>4, <1>6 DEF DataInv, StreamInv, Latest
<1>8. RestoreInv'
  BY <1>2, <1>6 DEF RestoreInv, Streaming
<1>9. Authority => Authority'
  BY <1>2 DEF Authority, Latest, SetAt
<1>10. MergeInv'
  BY <1>2, <1>6, <1>9 DEF MergeInv, Streaming
<1>11. OrderInv'
  <2> SUFFICES ASSUME ~commands, ~faulty PROVE OrderInv'
    BY <1>2 DEF OrderInv
  <2>1. Authority /\ stream.src = attached
    BY <1>2 DEF DataInv, MergeInv, RestoreInv, StreamInv, Streaming
  <2>2. want => f.rev >= revision
    BY <1>3, <1>4, <1>5, <2>1 DEF Authority, Latest, DataInv
  <2> QED
    BY <1>1, <1>2, <1>5, <2>2 DEF OrderInv
<1> QED
  BY <1>7, <1>8, <1>10, <1>11

LEMMA OpenStep ==
  ASSUME IInv, OpenInteractionStream
  PROVE  IInv'
<1> USE DEF IInv
<1>1. /\ pc = "open" /\ pc' \in {"next", "lost"} /\ want' = TRUE
      /\ stream' = [src |-> attached, gen |-> generation, at |-> 0]
      /\ UNCHANGED <<env, hist, daemon, attached, generation, pending, revision, frame, restorer, step>>
  BY DEF OpenInteractionStream
<1>2. Len(hist[attached]) \in Nat \ {0}
  BY LenProperties DEF DataInv
<1>3. DataInv' /\ StreamInv' /\ RestoreInv'
  BY <1>1, <1>2 DEF DataInv, StreamInv, RestoreInv, Latest, Streaming
<1>4. Authority => Authority'
  BY <1>1 DEF Authority, Latest, SetAt
<1>5. MergeInv' /\ OrderInv'
  BY <1>1, <1>4 DEF MergeInv, OrderInv, Streaming
<1> QED
  BY <1>3, <1>5

LEMMA RestoreStep ==
  ASSUME IInv, Restore
  PROVE  IInv'
<1> USE DEF IInv
<1>1. CASE RestoreSwap
  <2>1. /\ restorer # "none" /\ step = "idle" /\ attached' = daemon /\ generation' = generation + 1
        /\ step' = IF daemon # attached THEN "reset" ELSE "close"
        /\ UNCHANGED <<env, hist, daemon, pending, revision, pc, stream, want, frame, restorer>>
    BY <1>1 DEF RestoreSwap
  <2>2. DataInv' /\ stream'.gen < generation'
    BY <2>1 DEF DataInv, StreamInv
  <2>3. StreamInv' /\ RestoreInv'
    BY <2>1, <2>2 DEF DataInv, StreamInv, RestoreInv, Latest, Streaming
  <2>4. MergeInv'
    <3>1. CASE daemon = attached
      <4>1. Authority => Authority'
        BY <2>1, <3>1 DEF Authority, Latest, SetAt
      <4> QED
        BY <2>1, <2>2, <4>1 DEF MergeInv, DataInv
    <3>2. CASE daemon # attached
      BY <2>1, <2>2, <3>2 DEF MergeInv, DataInv
    <3> QED
      BY <3>1, <3>2
  <2>5. OrderInv'
    BY <2>1 DEF OrderInv
  <2> QED
    BY <2>2, <2>3, <2>4, <2>5
<1>2. CASE RestoreFails
  <2>1. /\ restorer # "none" /\ step = "idle" /\ restorer' = "none"
        /\ pc' = IF restorer = "observer" THEN "failed" ELSE pc
        /\ UNCHANGED <<env, hist, daemon, attached, generation, pending, revision, stream, want, frame, step>>
    BY <1>2 DEF RestoreFails
  <2>2. DataInv' /\ StreamInv' /\ RestoreInv'
    BY <2>1 DEF DataInv, StreamInv, RestoreInv, Latest, Streaming
  <2>3. Authority => Authority'
    BY <2>1 DEF Authority, Latest, SetAt
  <2>4. MergeInv' /\ OrderInv'
    BY <2>1, <2>3 DEF MergeInv, OrderInv, Streaming
  <2> QED
    BY <2>2, <2>4
<1>3. CASE RestoreReset
  <2>1. /\ step = "reset" /\ step' = "close" /\ pending' = {} /\ revision' = 0
        /\ UNCHANGED <<env, hist, daemon, attached, generation, pc, stream, want, frame, restorer>>
    BY <1>3 DEF RestoreReset, ResetDaemonInteractionState
  <2>2. DataInv' /\ StreamInv' /\ RestoreInv'
    BY <2>1 DEF DataInv, StreamInv, RestoreInv, Latest, Streaming
  <2>3. Authority'
    <3>1. Len(hist[attached]) \in Nat \ {0} /\ hist[attached][1] = {}
      BY LenProperties DEF DataInv
    <3> QED
      BY <2>1, <3>1 DEF Authority, Latest, SetAt
  <2>4. MergeInv'
    BY <2>3 DEF MergeInv
  <2>5. ~commands => pc = "restore"
    BY <2>1 DEF RestoreInv, DataInv
  <2>6. OrderInv'
    BY <2>1, <2>5 DEF OrderInv
  <2> QED
    BY <2>2, <2>4, <2>6
<1>4. CASE RestoreClose
  <2>1. /\ step = "close" /\ step' = "idle" /\ restorer' = "none"
        /\ pc' = IF restorer = "observer" THEN "open" ELSE pc
        /\ UNCHANGED <<env, hist, daemon, attached, generation, pending, revision, stream, want, frame>>
    BY <1>4 DEF RestoreClose
  <2>2. DataInv' /\ StreamInv' /\ RestoreInv'
    BY <2>1 DEF DataInv, StreamInv, RestoreInv, Latest, Streaming
  <2>3. Authority => Authority'
    BY <2>1 DEF Authority, Latest, SetAt
  <2>4. MergeInv' /\ OrderInv'
    BY <2>1, <2>3 DEF MergeInv, OrderInv, RestoreInv, Streaming
  <2> QED
    BY <2>2, <2>4
<1> QED
  BY <1>1, <1>2, <1>3, <1>4 DEF Restore

LEMMA Step == IInv /\ [Next]_vars => IInv'
<1> SUFFICES ASSUME IInv, [Next]_vars PROVE IInv'
  OBVIOUS
<1>a. ASSUME UNCHANGED <<env, hist, attached, generation, pending, revision, stream, want, frame, step>>,
             daemon' \in 1..MaxDaemons,
             restorer' \in {"none", "observer", "command"},
             RestoreInv',
             pc' \in {"merge", "next", "publish"} => (pc' = pc \/ (pc = "publish" /\ pc' = "next")),
             pc' = "rejected" => pc = "rejected",
             pc \in {"rejected", "failed"} => pc' = pc
      PROVE  IInv'
  <2> USE DEF IInv
  <2>1. DataInv' /\ StreamInv'
    BY <1>a DEF DataInv, StreamInv, Latest
  <2>2. Authority => Authority'
    BY <1>a DEF Authority, Latest, SetAt
  <2>3. MergeInv'
    BY <1>a, <2>2 DEF MergeInv, Streaming
  <2>4. OrderInv'
    BY <1>a DEF OrderInv
  <2> QED
    BY <1>a, <2>1, <2>3, <2>4
<1>1. ASSUME NEW k \in Keys, DaemonChange(k) PROVE IInv'
  BY <1>1, DaemonChangeStep
<1>2. CASE DaemonReplaced
  <2>1. /\ UNCHANGED <<env, hist, attached, generation, pending, revision, stream, want, frame, step>>
        /\ daemon < MaxDaemons /\ daemon' = daemon + 1 /\ UNCHANGED <<pc, restorer>>
    BY <1>2 DEF DaemonReplaced
  <2>2. daemon \in 1..MaxDaemons /\ restorer \in {"none", "observer", "command"} /\ RestoreInv
    BY DEF IInv, DataInv
  <2>3. daemon' \in 1..MaxDaemons /\ restorer' \in {"none", "observer", "command"}
    BY <2>1, <2>2
  <2>4. RestoreInv'
    BY <2>1, <2>2 DEF RestoreInv, Streaming
  <2> QED
    BY <1>a, <2>1, <2>3, <2>4
<1>3. CASE OpenInteractionStream
  BY <1>3, OpenStep
<1>4. CASE NextFrame
  BY <1>4, NextFrameStep
<1>5. CASE StreamEnds
  BY <1>a, <1>5 DEF StreamEnds, IInv, DataInv, RestoreInv, Streaming
<1>6. CASE MergeFrame
  BY <1>6, MergeStep
<1>7. CASE PublishCurrentInteraction
  BY <1>a, <1>7 DEF PublishCurrentInteraction, IInv, DataInv, RestoreInv, Streaming
<1>8. CASE ChangeActiveRun
  <2>1. /\ UNCHANGED <<env, hist, attached, generation, pending, revision, stream, want, frame, step>>
        /\ UNCHANGED <<daemon, pc, restorer>>
    BY <1>8 DEF ChangeActiveRun
  <2>2. daemon \in 1..MaxDaemons /\ restorer \in {"none", "observer", "command"} /\ RestoreInv
    BY DEF IInv, DataInv
  <2>3. daemon' \in 1..MaxDaemons /\ restorer' \in {"none", "observer", "command"}
    BY <2>1, <2>2
  <2>4. RestoreInv'
    BY <2>1, <2>2 DEF RestoreInv, Streaming
  <2> QED
    BY <1>a, <2>1, <2>3, <2>4
<1>9. CASE ObserverLock
  <2>1. /\ UNCHANGED <<env, hist, attached, generation, pending, revision, stream, want, frame, step>>
        /\ pc = "lost" /\ restorer = "none" /\ UNCHANGED daemon
        /\ \/ pc' = "open" /\ UNCHANGED restorer
           \/ pc' = "restore" /\ restorer' = "observer"
    BY <1>9 DEF ObserverLock
  <2>2. daemon \in 1..MaxDaemons /\ restorer \in {"none", "observer", "command"} /\ RestoreInv
    BY DEF IInv, DataInv
  <2>3. daemon' \in 1..MaxDaemons /\ restorer' \in {"none", "observer", "command"}
    BY <2>1, <2>2
  <2>4. RestoreInv'
    BY <2>1, <2>2 DEF RestoreInv, Streaming
  <2> QED
    BY <1>a, <2>1, <2>3, <2>4
<1>10. CASE CommandLock
  <2>1. /\ UNCHANGED <<env, hist, attached, generation, pending, revision, stream, want, frame, step>>
        /\ commands /\ restorer = "none" /\ restorer' = "command" /\ UNCHANGED <<daemon, pc>>
    BY <1>10 DEF CommandLock
  <2>2. daemon \in 1..MaxDaemons /\ restorer \in {"none", "observer", "command"} /\ RestoreInv
    BY DEF IInv, DataInv
  <2>3. daemon' \in 1..MaxDaemons /\ restorer' \in {"none", "observer", "command"}
    BY <2>1, <2>2
  <2>4. RestoreInv'
    BY <2>1, <2>2 DEF RestoreInv, Streaming
  <2> QED
    BY <1>a, <2>1, <2>3, <2>4
<1>11. CASE Restore
  BY <1>11, RestoreStep
<1>12. CASE UNCHANGED vars
  <2>1. RestoreInv' /\ daemon' \in 1..MaxDaemons /\ restorer' \in {"none", "observer", "command"}
    BY <1>12 DEF IInv, DataInv, RestoreInv, Streaming
  <2> QED
    BY <1>a, <1>12, <2>1
<1> QED
  BY <1>1, <1>2, <1>3, <1>4, <1>5, <1>6, <1>7, <1>8, <1>9, <1>10, <1>11, <1>12 DEF Next, Failed

LEMMA InitInv == Init => IInv
<1> SUFFICES ASSUME Init PROVE IInv
  OBVIOUS
<1> USE DEF Init
<1>1. <<{}>> \in Seq(SUBSET Keys) /\ Len(<<{}>>) = 1 /\ <<{}>>[1] = {}
  OBVIOUS
<1>2. \A d \in 1..MaxDaemons : hist[d] = <<{}>>
  OBVIOUS
<1>3. hist \in [1..MaxDaemons -> Seq(SUBSET Keys)]
  BY <1>1
<1>4. DataInv
  BY <1>1, <1>2, <1>3 DEF DataInv, NoFrame
<1>5. Latest(1) = 0 /\ SetAt(1, 0) = {}
  BY <1>1, <1>2 DEF Latest, SetAt
<1>6. StreamInv /\ RestoreInv /\ MergeInv /\ OrderInv
  BY <1>5 DEF StreamInv, RestoreInv, MergeInv, OrderInv, Authority, Streaming
<1> QED
  BY <1>4, <1>6 DEF IInv

(* An announced interaction stays the current one until another lane moves    *)
(* it or the observer is about to announce the next.                          *)
LEMMA AnnouncedStep == IInv /\ AnsweredAsAnnounced /\ [Next]_vars => AnsweredAsAnnounced'
<1> SUFFICES ASSUME IInv, AnsweredAsAnnounced, [Next]_vars PROVE AnsweredAsAnnounced'
  OBVIOUS
<1> USE DEF AnsweredAsAnnounced
<1>a. UNCHANGED <<pending, active>> => Current' = Current
  BY DEF Current, SelectCurrent
<1>1. ASSUME NEW k \in Keys, DaemonChange(k) PROVE AnsweredAsAnnounced'
  BY <1>a, <1>1 DEF DaemonChange
<1>2. CASE DaemonReplaced \/ OpenInteractionStream \/ NextFrame \/ StreamEnds
  BY <1>a, <1>2 DEF DaemonReplaced, OpenInteractionStream, NextFrame, StreamEnds
<1>3. CASE MergeFrame
  <2>1. pc = "merge" /\ UNCHANGED <<announced, settled>>
    BY <1>3 DEF MergeFrame
  <2>2. pc' = "rejected" \/ pc' = "publish" \/ Current' = Current
    BY <1>3 DEF MergeFrame, Changed
  <2> QED
    BY <2>1, <2>2
<1>4. CASE PublishCurrentInteraction
  BY <1>a, <1>4 DEF PublishCurrentInteraction
<1>5. CASE ChangeActiveRun
  BY <1>5 DEF ChangeActiveRun, Unsettle
<1>6. CASE ObserverLock \/ CommandLock
  BY <1>a, <1>6 DEF ObserverLock, CommandLock
<1>7. CASE Restore
  <2>1. CASE RestoreSwap
    BY <1>a, <2>1 DEF RestoreSwap
  <2>2. CASE RestoreFails
    BY <1>a, <2>2 DEF RestoreFails
  <2>3. CASE RestoreReset
    BY <2>3 DEF RestoreReset, Unsettle
  <2>4. CASE RestoreClose
    BY <1>a, <2>4 DEF RestoreClose, IInv, RestoreInv
  <2> QED
    BY <1>7, <2>1, <2>2, <2>3, <2>4 DEF Restore
<1>8. CASE UNCHANGED vars
  BY <1>a, <1>8
<1> QED
  BY <1>1, <1>2, <1>3, <1>4, <1>5, <1>6, <1>7, <1>8 DEF Next, Failed
----------------------------------------------------------------------------
(***************************************************************************)
(* The stream, restore, merge and order invariants are together inductive. *)
(***************************************************************************)
THEOREM Inductive == Spec => []IInv
<1> QED
  BY InitInv, Step, PTL DEF Spec

(***************************************************************************)
(* Whatever a stream loses, repeats or misplaces and however often the     *)
(* daemon is replaced, the merged pending set is one the attached daemon   *)
(* had, as long as only the observer restores (mergeInteraction).          *)
(***************************************************************************)
THEOREM MergedAuthority == Spec => []MergedByObserver
<1>1. IInv => MergedByObserver
  BY DEF IInv, MergeInv, RestoreInv, MergedByObserver, MergedIsAuthoritative, Authority
<1> QED
  BY <1>1, Inductive, PTL

(***************************************************************************)
(* Also when other lanes restore at any moment, once the snapshot of a     *)
(* stream of the current client session is merged the pending set is that  *)
(* daemon's (mergeInteraction, restoreConnectionLocked).                   *)
(***************************************************************************)
THEOREM SnapshotAuthority == Spec => []SnapshotRestoresAuthority
<1>1. IInv => SnapshotRestoresAuthority
  BY DEF IInv, MergeInv, SnapshotRestoresAuthority, Authority, Streaming
<1> QED
  BY <1>1, Inductive, PTL

(***************************************************************************)
(* A session whose observer alone restores never refuses a frame of a      *)
(* daemon whose streams are in order, across reconnects and replacements   *)
(* (handleInteractionFrame, resetDaemonInteractionState).                  *)
(***************************************************************************)
THEOREM OrderedAccepted == Spec => []OrderedByObserver
<1>1. IInv => OrderedByObserver
  BY DEF IInv, OrderInv, OrderedByObserver, OrderedFramesAccepted
<1> QED
  BY <1>1, Inductive, PTL

(***************************************************************************)
(* The interaction performRespond answers is the one the terminal was told *)
(* of last, unless another lane moved it or the observer is about to       *)
(* announce the next.                                                      *)
(***************************************************************************)
THEOREM AnswersAnnounced == Spec => []AnsweredAsAnnounced
<1>1. Init => AnsweredAsAnnounced
  BY DEF Init, AnsweredAsAnnounced, Current, SelectCurrent
<1>2. IInv /\ AnsweredAsAnnounced /\ [Next]_vars => AnsweredAsAnnounced'
  BY AnnouncedStep
<1> QED
  BY <1>1, <1>2, Inductive, PTL DEF Spec

----------------------------------------------------------------------------
(* Types *)

(* No incarnation goes beyond the last revision. *)
TypeInv == TypeOK /\ \A d \in 1..MaxDaemons : Latest(d) <= MaxRevision

LEMMA MinMember ==
  ASSUME NEW S \in SUBSET Nat, S # {}
  PROVE  Min(S) \in S
<1> DEFINE R == {ss \in Nat \X Nat : ss[1] < ss[2]}
<1>1. PICK x \in S : \A y \in S : ~(<<y, x>> \in R)
  <2>1. IsWellFoundedOn(R, Nat)
    BY NatLessThanWellFounded, Zenon DEF OpToRel
  <2> HIDE DEF R
  <2> QED
    BY <2>1, WFMin
<1>2. ASSUME NEW y \in S PROVE x <= y
  <2>1. y < x => <<y, x>> \in R
    OBVIOUS
  <2> HIDE DEF R
  <2> QED
    BY <1>1, <2>1
<1> QED
  BY <1>2 DEF Min

(* What is chosen is pending, or 0. *)
LEMMA CurrentType == TypeOK => Current \in Keys \cup {0}
<1> SUFFICES ASSUME TypeOK PROVE Current \in Keys \cup {0}
  OBVIOUS
<1> DEFINE ofRun == {k \in pending : RunOf[k] = active}
<1>1. pending \in SUBSET Nat /\ ofRun \in SUBSET Nat /\ ofRun \subseteq pending /\ pending \subseteq Keys
  BY DEF TypeOK
<1>2. pending # {} => Min(pending) \in pending
  BY <1>1, MinMember
<1>3. ofRun # {} => Min(ofRun) \in ofRun
  BY <1>1, MinMember
<1>4. Current = IF pending = {} THEN 0 ELSE IF ofRun # {} THEN Min(ofRun) ELSE Min(pending)
  BY DEF Current, SelectCurrent
<1> HIDE DEF ofRun
<1> QED
  BY <1>1, <1>2, <1>3, <1>4

LEMMA TypeStep == IInv /\ TypeInv /\ [Next]_vars => TypeInv'
<1> SUFFICES ASSUME IInv, TypeInv, [Next]_vars PROVE TypeInv'
  OBVIOUS
<1>a. UNCHANGED hist => (\A d \in 1..MaxDaemons : Latest(d) <= MaxRevision)'
  BY DEF TypeInv, Latest
<1>1. ASSUME NEW k \in Keys, DaemonChange(k) PROVE TypeInv'
  <2>1. hist' \in [1..MaxDaemons -> Seq(SUBSET Keys)]
    BY <1>1, HistoryGrows DEF IInv
  <2>2. TypeOK'
    <3>1. /\ commands' = commands /\ faulty' = faulty /\ daemon' = daemon /\ attached' = attached
          /\ generation' = generation /\ pending' = pending /\ revision' = revision /\ active' = active
          /\ announced' = announced /\ settled' = settled /\ pc' = pc /\ stream' = stream /\ want' = want
          /\ frame' = frame /\ restorer' = restorer /\ step' = step
      BY <1>1 DEF DaemonChange
    <3>2. RunIDs' = RunIDs /\ Frames' = Frames
      BY DEF RunIDs, Frames
    <3> QED
      BY <2>1, <3>1, <3>2, ZenonT(30) DEF TypeInv, TypeOK
  <2>3. ASSUME NEW d \in 1..MaxDaemons PROVE Latest(d)' <= MaxRevision
    <3>1. CASE d # daemon
      BY <1>1, <3>1 DEF DaemonChange, TypeInv, TypeOK, Latest
    <3>2. CASE d = daemon
      <4>1. hist[d] \in Seq(SUBSET Keys) /\ d \in DOMAIN hist /\ Len(hist[d]) \in Nat
        BY LenProperties DEF TypeInv, TypeOK
      <4>2. \E e : hist'[d] = Append(hist[d], e)
        BY <1>1, <3>2, <4>1 DEF DaemonChange
      <4>3. Len(hist'[d]) = Len(hist[d]) + 1
        BY <4>1, <4>2
      <4> QED
        BY <1>1, <3>2, <4>1, <4>3 DEF DaemonChange, Latest
    <3> QED
      BY <3>1, <3>2
  <2> QED
    BY <2>2, <2>3 DEF TypeInv
<1>2. CASE DaemonReplaced
  BY <1>a, <1>2 DEF DaemonReplaced, TypeInv, TypeOK
<1>3. CASE OpenInteractionStream
  BY <1>a, <1>3 DEF OpenInteractionStream, TypeInv, TypeOK
<1>4. CASE NextFrame
  <2>1. PICK f \in Sendable : frame' = f /\ stream' = [stream EXCEPT !.at = f.rev]
    BY <1>4 DEF NextFrame
  <2>2. f \in Frames
    <3>1. CASE faulty
      BY <2>1, <3>1 DEF Sendable
    <3>2. CASE ~faulty /\ want
      <4>1. stream.src \in 1..MaxDaemons /\ Len(hist[stream.src]) \in Nat /\ Latest(stream.src) <= MaxRevision
        BY LenProperties DEF TypeInv, TypeOK
      <4>2. Latest(stream.src) \in 0..MaxRevision
        BY <4>1 DEF Latest, IInv, DataInv
      <4> QED
        BY <2>1, <3>2, <4>2 DEF Sendable, Frames
    <3>3. CASE ~faulty /\ ~want
      <4>1. stream.at \in 0..MaxRevision
        BY DEF TypeInv, TypeOK
      <4> QED
        BY <2>1, <3>3, <4>1 DEF Sendable, Frames
    <3> QED
      BY <3>1, <3>2, <3>3
  <2>3. f.rev \in 0..MaxRevision
    BY <2>2 DEF Frames
  <2> QED
    BY <1>a, <1>4, <2>1, <2>2, <2>3 DEF NextFrame, TypeInv, TypeOK
<1>5. CASE StreamEnds
  BY <1>a, <1>5 DEF StreamEnds, TypeInv, TypeOK
<1>6. CASE MergeFrame
  <2>1. frame.rev \in 0..MaxRevision /\ NoFrame \in Frames
    BY DEF TypeInv, TypeOK, Frames, NoFrame
  <2>2. After \subseteq Keys
    <3>1. stream.src \in 1..MaxDaemons /\ hist[stream.src] \in Seq(SUBSET Keys)
      BY DEF TypeInv, TypeOK
    <3>2. frame.rev + 1 \in 1..Len(hist[stream.src])
      BY <1>6, <2>1, <3>1, LenProperties DEF MergeFrame, IInv, StreamInv, Latest
    <3> QED
      BY <3>1, <3>2, ElementOfSeq DEF After, SetAt
  <2>3. Opened \subseteq After
    BY DEF Opened
  <2>4. pending' \subseteq Keys /\ revision' \in 0..MaxRevision /\ want' \in BOOLEAN
    <3>1. CASE Accepted /\ frame.kind # "control"
      <4>1. pending' = After \/ pending' = (pending \cup Opened) \ Closed
        BY <1>6, <3>1 DEF MergeFrame
      <4>2. revision' = frame.rev /\ want' = FALSE
        BY <1>6, <3>1 DEF MergeFrame
      <4>3. pending \subseteq Keys
        BY DEF TypeInv, TypeOK
      <4> QED
        BY <2>1, <2>2, <2>3, <4>1, <4>2, <4>3
    <3>2. CASE ~(Accepted /\ frame.kind # "control")
      BY <1>6, <3>2 DEF MergeFrame, TypeInv, TypeOK
    <3> QED
      BY <3>1, <3>2
  <2>5. pc' \in {"rejected", "publish", "next"} /\ frame' = NoFrame
        /\ UNCHANGED <<env, hist, daemon, attached, generation, active, prompt, stream, restorer, step>>
    BY <1>6 DEF MergeFrame
  <2> QED
    BY <1>a, <2>1, <2>4, <2>5 DEF TypeInv, TypeOK
<1>7. CASE PublishCurrentInteraction
  <2>1. Current \in Keys \cup {0}
    BY CurrentType DEF TypeInv
  <2> QED
    BY <1>a, <1>7, <2>1 DEF PublishCurrentInteraction, TypeInv, TypeOK
<1>8. CASE ChangeActiveRun
  <2>1. active' \in RunIDs \cup {0} /\ settled' \in BOOLEAN
    BY <1>8 DEF ChangeActiveRun, Unsettle, TypeInv, TypeOK
  <2> QED
    BY <1>a, <1>8, <2>1 DEF ChangeActiveRun, TypeInv, TypeOK
<1>9. CASE ObserverLock \/ CommandLock
  BY <1>a, <1>9 DEF ObserverLock, CommandLock, TypeInv, TypeOK
<1>10. CASE Restore
  <2>1. CASE RestoreSwap
    BY <1>a, <2>1 DEF RestoreSwap, TypeInv, TypeOK
  <2>2. CASE RestoreFails
    BY <1>a, <2>2 DEF RestoreFails, TypeInv, TypeOK
  <2>3. CASE RestoreReset
    <3>1. settled' \in BOOLEAN /\ pending' = {} /\ revision' = 0
      BY <2>3 DEF RestoreReset, Unsettle, ResetDaemonInteractionState, TypeInv, TypeOK
    <3> QED
      BY <1>a, <2>3, <3>1 DEF RestoreReset, TypeInv, TypeOK
  <2>4. CASE RestoreClose
    BY <1>a, <2>4 DEF RestoreClose, TypeInv, TypeOK
  <2> QED
    BY <1>10, <2>1, <2>2, <2>3, <2>4 DEF Restore
<1>11. CASE UNCHANGED vars
  BY <1>a, <1>11 DEF TypeInv, TypeOK
<1> QED
  BY <1>1, <1>2, <1>3, <1>4, <1>5, <1>6, <1>7, <1>8, <1>9, <1>10, <1>11 DEF Next, Failed

(***************************************************************************)
(* Every variable keeps its type: the merged set holds interactions only,  *)
(* no frame or stream passes the last revision, and the attached daemon is *)
(* one that has run (sessionState, restoreConnectionLocked).               *)
(***************************************************************************)
THEOREM TypeCorrect == Spec => []TypeOK
<1>1. Init => TypeInv
  <2> SUFFICES ASSUME Init PROVE TypeInv
    OBVIOUS
  <2>1. <<{}>> \in Seq(SUBSET Keys) /\ Len(<<{}>>) = 1
    OBVIOUS
  <2>2. NoFrame \in Frames
    BY DEF NoFrame, Frames
  <2>3. TypeOK
    BY <2>1, <2>2 DEF Init, TypeOK
  <2>4. \A d \in 1..MaxDaemons : Latest(d) <= MaxRevision
    BY <2>1 DEF Init, Latest
  <2> QED
    BY <2>3, <2>4 DEF TypeInv
<1>2. IInv /\ TypeInv /\ [Next]_vars => TypeInv'
  BY TypeStep
<1>3. TypeInv => TypeOK
  BY DEF TypeInv
<1> QED
  BY <1>1, <1>2, <1>3, Inductive, PTL DEF Spec
=============================================================================
