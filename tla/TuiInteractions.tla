-------------------------- MODULE TuiInteractions --------------------------
(***************************************************************************)
(* Pending interactions of the TUI session adapter (internal/tuisession):  *)
(* the observer that merges the daemon's interaction stream into           *)
(* sessionState, and the restore that swaps the client session and resets  *)
(* that state when the replacement belongs to a fresh daemon.              *)
(*                                                                         *)
(* A daemon incarnation is one session on the daemon's side: a reconnect   *)
(* with the claim meets it again, a fresh connection meets another one.  It*)
(* is abstracted to the history of its pending set: hist[d][n + 1] is the  *)
(* set after revision n.  A stream is the incarnation                      *)
(* and the client generation it was opened with, and the last revision it  *)
(* delivered.  A restore may be run by the observer itself or by another   *)
(* lane (a rejected Start, an event observer), the restorer "command".     *)
(***************************************************************************)
EXTENDS Integers, Sequences, FiniteSetsExt

CONSTANTS Keys,            \* interactions, numbered in the order of (run, id)
          RunOf,           \* interactionKey.run
          MaxDaemons,      \* bound: daemon incarnations
          MaxRevision,     \* bound: revisions of one incarnation
          MaxGenerations   \* bound: client generations

ASSUME InteractionBounds ==
  /\ Keys \subseteq Nat \ {0} /\ RunOf \in [Keys -> Nat \ {0}]
  /\ MaxDaemons \in Nat \ {0} /\ MaxRevision \in Nat /\ MaxGenerations \in Nat \ {0}

VARIABLES
  commands,    \* external: other lanes restore the connection too
  faulty,      \* external: streams may lose, repeat or misplace frames
  hist,        \* external: history of every incarnation's pending set
  daemon,      \* external: the incarnation now running
  attached,    \* incarnation behind sessionConnection.clientSession
  generation,  \* sessionConnection.clientGeneration
  pending,     \* sessionState.pending
  revision,    \* sessionState.interactionRevision
  active,      \* sessionState.activeRun, 0: hasActiveRun is false
  announced,   \* the interaction of the last published prompt, 0: "resolved"
  settled,     \* no other lane changed the current interaction since then
  pc,          \* progress of observeInteractions
  stream,      \* its stream: incarnation, generation, last delivered revision
  want,        \* wantSnapshot
  frame,       \* the frame stream.Next returned
  restorer,    \* who is inside restoreConnectionLocked
  step         \* its progress after the swap

env  == <<commands, faulty>>   \* chosen once, in Init
prompt == <<announced, settled>>
vars == <<env, hist, daemon, attached, generation, pending, revision, active, prompt, pc,
          stream, want, frame, restorer, step>>

Latest(d)  == Len(hist[d]) - 1
SetAt(d, n) == hist[d][n + 1]

RunIDs == {RunOf[k] : k \in Keys}

(* interactionSelector.selectCurrent: the interactions of the active run     *)
(* first, then by run and id.                                                *)
SelectCurrent(values, run) ==
  LET ofRun == {k \in values : RunOf[k] = run}
  IN IF values = {} THEN 0 ELSE IF ofRun # {} THEN Min(ofRun) ELSE Min(values)

Current == SelectCurrent(pending, active)

NoFrame == [kind |-> "none", rev |-> 0]
Frames  == [kind : {"none", "snapshot", "change", "control"}, rev : 0..MaxRevision]

TypeOK ==
  /\ commands \in BOOLEAN /\ faulty \in BOOLEAN
  /\ hist \in [1..MaxDaemons -> Seq(SUBSET Keys)]
  /\ daemon \in 1..MaxDaemons
  /\ attached \in 1..daemon
  /\ generation \in 1..MaxGenerations
  /\ pending \subseteq Keys
  /\ revision \in 0..MaxRevision
  /\ active \in RunIDs \cup {0}
  /\ announced \in Keys \cup {0} /\ settled \in BOOLEAN
  /\ pc \in {"open", "next", "merge", "publish", "lost", "restore", "rejected", "failed"}
  /\ stream \in [src : 1..MaxDaemons, gen : 1..MaxGenerations, at : 0..MaxRevision]
  /\ want \in BOOLEAN
  /\ frame \in Frames
  /\ restorer \in {"none", "observer", "command"}
  /\ step \in {"idle", "reset", "close"}

Init ==
  /\ commands \in BOOLEAN
  /\ faulty \in BOOLEAN
  /\ hist = [d \in 1..MaxDaemons |-> <<{}>>]
  /\ daemon = 1
  /\ attached = 1
  /\ generation = 1
  /\ pending = {}
  /\ revision = 0
  /\ active = 0
  /\ announced = 0
  /\ settled = TRUE
  /\ pc = "open"
  /\ stream = [src |-> 1, gen |-> 1, at |-> 0]
  /\ want = TRUE
  /\ frame = NoFrame
  /\ restorer = "none"
  /\ step = "idle"
----------------------------------------------------------------------------
(* The daemon *)

(* An interaction opens or closes: one revision. *)
DaemonChange(k) ==
  /\ Latest(daemon) < MaxRevision
  /\ LET now == SetAt(daemon, Latest(daemon))
     IN hist' = [hist EXCEPT ![daemon] = Append(@, IF k \in now THEN now \ {k} ELSE now \cup {k})]
  /\ UNCHANGED <<env, daemon, attached, generation, pending, revision, active, prompt, pc, stream, want,
                 frame, restorer, step>>

(* The daemon process is replaced.  Frames already sent stay readable. *)
DaemonReplaced ==
  /\ daemon < MaxDaemons
  /\ daemon' = daemon + 1
  /\ UNCHANGED <<env, hist, attached, generation, pending, revision, active, prompt, pc, stream, want,
                 frame, restorer, step>>
----------------------------------------------------------------------------
(* observeInteractions *)

OpenInteractionStream ==
  /\ pc = "open"
  /\ \/ attached = daemon /\ pc' = "next"
     \/ pc' = "lost"
  /\ stream' = [src |-> attached, gen |-> generation, at |-> 0]
  /\ want' = TRUE
  /\ UNCHANGED <<env, hist, daemon, attached, generation, pending, revision, active, prompt, frame, restorer, step>>

(* Closing a replaced client session also ends its streams. *)
StreamAlive == stream.gen = generation \/ step # "idle"

Sendable ==
  IF faulty
    THEN {f \in Frames : f.kind # "none" /\ f.rev <= Latest(stream.src)
                         /\ (f.kind = "change" => f.rev > 0)
                         /\ (f.kind = "control" => f.rev = stream.at)}
    ELSE IF want THEN {[kind |-> "snapshot", rev |-> Latest(stream.src)]}
    ELSE {[kind |-> "control", rev |-> stream.at]}
           \cup {f \in Frames : f.kind = "change" /\ f.rev = stream.at + 1
                                /\ f.rev <= Latest(stream.src)}

NextFrame ==
  /\ pc = "next"
  /\ StreamAlive
  /\ \E f \in Sendable :
       /\ frame' = f
       /\ stream' = [stream EXCEPT !.at = f.rev]
  /\ pc' = "merge"
  /\ UNCHANGED <<env, hist, daemon, attached, generation, pending, revision, active, prompt, want, restorer, step>>

(* A clean EOF reopens; ErrClosed or a retryable status restores first. *)
StreamEnds ==
  /\ pc = "next"
  /\ pc' \in {"open", "lost"}
  /\ UNCHANGED <<env, hist, daemon, attached, generation, pending, revision, active, prompt, stream, want,
                 frame, restorer, step>>

(* mergeInteraction accepts the update? *)
SnapshotAccepted == frame.rev >= revision
ChangeContiguousOrOlder == frame.rev <= revision + 1       \* mutant: duplicates accepted
ChangeNewer == frame.rev > revision                        \* mutant: gaps accepted
ChangeContiguous == frame.rev = revision + 1

Before == SetAt(stream.src, frame.rev - 1)
After  == SetAt(stream.src, frame.rev)
Opened == After \ Before
Closed == Before \ After

(* handleInteractionFrame, handleInteractionUpdate and mergeInteraction. *)
Accepted ==
  CASE frame.kind = "control"  -> ~want /\ frame.rev = revision
    [] frame.kind = "snapshot" -> want /\ SnapshotAccepted
    [] frame.kind = "change"   -> /\ ~want
                                  /\ ChangeContiguous
                                  /\ Opened \cap pending = {}      \* opened twice
                                  /\ Closed \subseteq pending      \* closed before opening

(* interactionSelector.same, negated. *)
ChangedPresence == (Current = 0) # (Current' = 0)          \* mutant: another prompt is the same
Changed == Current # Current'

MergeFrame ==
  /\ pc = "merge"
  /\ IF Accepted /\ frame.kind # "control"
       THEN /\ revision' = frame.rev
            /\ want' = FALSE
            /\ pending' = IF frame.kind = "snapshot" THEN After
                          ELSE (pending \cup Opened) \ Closed
       ELSE UNCHANGED <<pending, revision, want>>
  /\ frame' = NoFrame
  /\ UNCHANGED <<env, hist, daemon, attached, generation, active, prompt, stream, restorer, step>>
  /\ pc' = IF ~Accepted THEN "rejected" ELSE IF Changed THEN "publish" ELSE "next"

(* publishCurrentInteraction reads the current interaction again. *)
PublishCurrentInteraction ==
  /\ pc = "publish"
  /\ announced' = Current
  /\ settled' = TRUE
  /\ pc' = "next"
  /\ UNCHANGED <<env, hist, daemon, attached, generation, pending, revision, active, stream,
                 want, frame, restorer, step>>

(* A lane outside the observer may move the current interaction; it does not *)
(* announce that.                                                            *)
Unsettle == settled' = (settled /\ Current' = Current)

(* startSubmittedRun records an accepted run, clearActiveRun forgets it. *)
ChangeActiveRun ==
  /\ \/ active = 0 /\ active' \in RunIDs
     \/ active # 0 /\ active' = 0
  /\ UNCHANGED <<env, hist, daemon, attached, generation, pending, revision, announced, pc,
                 stream, want, frame, restorer, step>>
  /\ Unsettle
----------------------------------------------------------------------------
(* restoreConnection *)

(* waitToReconnect and reconnectMutex.Lock(); a generation that moved on     *)
(* meanwhile needs no restore.                                               *)
ObserverLock ==
  /\ pc = "lost"
  /\ restorer = "none"
  /\ IF generation # stream.gen
       THEN pc' = "open" /\ UNCHANGED restorer
       ELSE pc' = "restore" /\ restorer' = "observer"
  /\ UNCHANGED <<env, hist, daemon, attached, generation, pending, revision, active, prompt, stream, want, frame, step>>

(* Another lane found the connection gone and starts to restore it. *)
CommandLock ==
  /\ commands
  /\ restorer = "none"
  /\ restorer' = "command"
  /\ UNCHANGED <<env, hist, daemon, attached, generation, pending, revision, active, prompt, pc, stream, want, frame, step>>

(* The client session is swapped under clientMutex, the reset comes after it *)
(* and only for a fresh session, which is one of another incarnation.        *)
RestoreSwap ==
  /\ restorer # "none" /\ step = "idle"
  /\ generation < MaxGenerations
  /\ attached' = daemon
  /\ generation' = generation + 1
  /\ step' = IF daemon # attached THEN "reset" ELSE "close"
  /\ UNCHANGED <<env, hist, daemon, pending, revision, active, prompt, pc, stream, want, frame, restorer>>

(* The restore failed: the observer records the failure, a command returns it. *)
RestoreFails ==
  /\ restorer # "none" /\ step = "idle"
  /\ pc' = IF restorer = "observer" THEN "failed" ELSE pc
  /\ restorer' = "none"
  /\ UNCHANGED <<env, hist, daemon, attached, generation, pending, revision, active, prompt, stream, want, frame, step>>

SkipReset == UNCHANGED <<pending, revision>>               \* mutant: no reset
ResetDaemonInteractionState == pending' = {} /\ revision' = 0

RestoreReset ==
  /\ step = "reset"
  /\ ResetDaemonInteractionState
  /\ step' = "close"
  /\ UNCHANGED <<env, hist, daemon, attached, generation, active, announced, pc, stream, want, frame, restorer>>
  /\ Unsettle

RestoreClose ==
  /\ step = "close"
  /\ step' = "idle"
  /\ restorer' = "none"
  /\ pc' = IF restorer = "observer" THEN "open" ELSE pc
  /\ UNCHANGED <<env, hist, daemon, attached, generation, pending, revision, active, prompt, stream, want, frame>>

Restore == RestoreSwap \/ RestoreFails \/ RestoreReset \/ RestoreClose
----------------------------------------------------------------------------
(* recordFailure: the worker has ended and Receive returns the failure. *)
Failed == pc \in {"rejected", "failed"} /\ UNCHANGED vars

Next ==
  \/ \E k \in Keys : DaemonChange(k)
  \/ DaemonReplaced
  \/ OpenInteractionStream \/ NextFrame \/ StreamEnds \/ MergeFrame
  \/ PublishCurrentInteraction \/ ChangeActiveRun
  \/ ObserverLock \/ CommandLock \/ Restore
  \/ Failed

Spec == Init /\ [][Next]_vars
----------------------------------------------------------------------------
(* Properties *)

(* "merges authoritative interaction snapshots/deltas" (terminal-target.md): *)
(* outside a restore and until the observer gave up, the merged pending set  *)
(* is the one the attached daemon had at the merged revision.                *)
MergedIsAuthoritative ==
  pc \notin {"rejected", "failed"} /\ restorer = "none" =>
    /\ revision <= Latest(attached)
    /\ pending = SetAt(attached, revision)

(* That holds whatever a stream loses, repeats or misplaces and however      *)
(* often the daemon is replaced, as long as only the observer restores.      *)
MergedByObserver == ~commands => MergedIsAuthoritative

(* Also when other lanes restore at any moment: once the observer merged the *)
(* snapshot of a stream of the current client session, what is merged is     *)
(* that daemon's state; everything else ends in a failure.  A frame left     *)
(* over from the previous daemon never survives the next snapshot.           *)
SnapshotRestoresAuthority ==
  pc \in {"next", "merge"} /\ restorer = "none" /\ stream.gen = generation /\ ~want =>
    /\ revision <= Latest(attached)
    /\ pending = SetAt(attached, revision)

(* A daemon whose streams are in order never makes the adapter give up on    *)
(* an interaction frame, across reconnects and daemon replacements ("the     *)
(* terminal establishes a fresh session, a second prompt completes through   *)
(* the replacement daemon", development-loop.md).                            *)
OrderedFramesAccepted == ~faulty => pc # "rejected"

(* The same for a session whose observer is the only one that restores.      *)
OrderedByObserver == ~commands => OrderedFramesAccepted

(* "pending prompts are represented as terminal-safe activity text while     *)
(* exact correlation remains typed inside the adapter" (terminal-target.md): *)
(* performRespond answers the interaction that is current when it runs.  It  *)
(* is the one the terminal was last shown whenever the observer is not about *)
(* to announce another, except after a change of the active run or a reset   *)
(* that moved the current interaction, which nobody announces.               *)
AnsweredAsAnnounced == pc \notin {"publish", "rejected", "failed"} /\ settled => announced = Current
=============================================================================
