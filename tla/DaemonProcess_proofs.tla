------------------------ MODULE DaemonProcess_proofs ------------------------
(***************************************************************************)
(* Proofs about DaemonProcess, for every number of failing system calls    *)
(* and partial snapshots and every set of PIDs that the system reuses: a   *)
(* clean Wait means containment of what no snapshot left out, a gated      *)
(* child works only as an owned process, no failure is recorded too late   *)
(* to be reported, and an anchored supervisor signals nobody else on stale *)
(* evidence.                                                               *)
(***************************************************************************)
EXTENDS DaemonProcess, TLAPS

Ours == {Root, Child, Stray}
Descendants == {Child, Stray}

(* Every process of the daemon keeps the PID it was born with. *)
PIDInv ==
    /\ \A p \in Procs : proc[p].st = "absent" => proc[p].pid = SupervisorPID
    /\ proc[Root].st # "absent" => proc[Root].pid = RootPID
    /\ proc[Child].st # "absent" => proc[Child].pid = ChildPID
    /\ proc[Stray].st # "absent" => proc[Stray].pid = StrayPID

(* The root is not reparented, so that only the supervisor reaps it.        *)
FamilyInv ==
    proc[Root].st # "absent" => proc[Root].ppid = SupervisorPID /\ proc[Root].pgid = RootPID

(* The process of somebody else is a child of init in a group of its own.   *)
(* It has the PID of a process that is gone, and no process of the daemon   *)
(* is, or will be, in its group.                                            *)
OtherInv ==
    proc[Other].st # "absent" =>
        /\ proc[Other].ppid = InitPID /\ proc[Other].pgid = proc[Other].pid
        /\ \E p \in Ours : proc[p].st = "gone" /\ proc[p].pid = proc[Other].pid
        /\ \A p \in Ours \cap Visible : proc[p].pgid # proc[Other].pid

Closing == {"join", "kill", "killing", "finish"}

(* Nothing exists before the launch, and the root is in the table until the *)
(* supervisor reaps it.                                                     *)
RootInv ==
    /\ starter \in {"idle", "failed"} => \A p \in Procs : proc[p].st = "absent"
    /\ starter = "anchor" => proc[Root].st # "absent"
    /\ closer \in {"off", "wait"} /\ proc[Root].st # "absent" => Root \in Visible
    /\ closer \notin {"off", "wait"} => proc[Root].st = "gone"

(* Closing, escalating and signalling exclude each other, and the           *)
(* goroutines that record failures have ended when Close kills.             *)
LockInv ==
    /\ starter \in {"idle", "failed"} => tracker = "off" /\ server = "off"
    /\ closer = "off" <=> starter \in {"idle", "failed", "anchor"}
    /\ closer = "off" => escalation = "off"
    /\ supervisor.rootDone <=> closer \in {"close", "done"} \cup Closing
    /\ supervisor.closed <=> closer = "done"
    /\ operation = "close" <=> closer \in Closing
    /\ operation = "escalate" <=> escalation \in {"terminating", "killing"}
    /\ closer = "done" => operation = "free"
    /\ sig.step # "idle" => operation = "escalate" \/ closer = "killing"
    /\ closer \in {"kill", "killing", "finish", "done"} => tracker = "done" /\ server = "done"
    /\ closer = "done" => drain = "done"

(* The anchored root is the root; after a failed anchoring, whatever has    *)
(* its PID. Without an anchor nothing was ever owned.                       *)
AnchorInv ==
    /\ \/ supervisor.root \in {NoProc, Root}
       \/ /\ supervisor.root = Other /\ starter = "unanchored"
          /\ proc[Other].st # "absent" /\ proc[Other].pid = RootPID
    /\ starter = "started" => supervisor.root = Root
    /\ supervisor.root # NoProc => starter \notin {"idle", "failed"}
    /\ starter = "unanchored" => "anchor" \in history

(* Children are descendants of the root, and one that was ever owned is     *)
(* still owned, gone, or was left out by a snapshot.                        *)
ChildrenInv ==
    /\ supervisor.children \subseteq known /\ known \subseteq Descendants
    /\ supervisor.root = NoProc => known = {}
    /\ \A p \in known : proc[p].st # "absent"
    /\ \A p \in known : p \in supervisor.children \/ proc[p].st = "gone" \/ p \in omitted

Answering == server \in {"accept", "reject"}

(* The registry carries one exchange at a time: about the root until it was *)
(* adopted, then about the gated child.                                     *)
ExchangeInv ==
    /\ launcher \in {"adopting", "unadopted"} => wire.request \in {0, RootPID}
    /\ launcher = "registering" => wire.request \in {0, ChildPID}
    /\ launcher \notin {"adopting", "unadopted", "registering"} =>
            wire.request = 0 /\ wire.response = "none" /\ ~Answering
    /\ Answering => wire.request = 0 /\ wire.response = "none"
    /\ wire.response # "none" => wire.request = 0

(* The gated child is born after the registry was adopted.                  *)
BirthInv == launcher \in {"adopt", "adopting", "unadopted", "ready"} => proc[Child].st = "absent"

(* The child is released on an accepted registration, which made it known.  *)
GateInv ==
    /\ launcher = "registering" /\ (server = "accept" \/ wire.response = "accept") => Child \in known
    /\ gate = "released" \/ working => Child \in known

(* Nothing owned is left when Close finishes, unless it says so.            *)
ReportInv ==
    /\ closer \in {"finish", "done"} => supervisor.children = {} \/ "timeout" \in history
    /\ closer = "done" => cleanup = history

(* What a signal of an anchored supervisor will address is not the process  *)
(* of somebody else that the snapshot showed.                               *)
SignalInv ==
    /\ sig.step \in {"idle", "snapshot"} => ~sig.seen
    /\ starter # "unanchored" =>
        /\ sig.seen => /\ proc[Other].st # "absent" /\ proc[Other].pid \notin sig.pids
                       /\ sig.group => proc[Other].pid # RootPID
        /\ ~struck

IInv == TypeOK /\ PIDInv /\ FamilyInv /\ OtherInv /\ RootInv /\ LockInv /\ AnchorInv
        /\ ChildrenInv /\ ExchangeInv /\ BirthInv /\ GateInv /\ ReportInv /\ SignalInv
-----------------------------------------------------------------------------
USE FaultsAssumption, ReusedAssumption
    DEF vars, osVars, daemonVars, ownerVars, threadVars, Procs, Root, Child, Stray, Other, NoProc,
        SupervisorPID, InitPID, RootPID, ChildPID, StrayPID, PIDs, Record, Born, NoProcess, Descendants

(* A death changes nobody's PID or group; it makes the process and its      *)
(* unreaped children leave, and leaves the others to init.                  *)
LEMMA DiedFacts ==
    ASSUME proc \in [Procs -> Record], NEW p \in Procs, proc[p].st = "running"
    PROVE  /\ Died(p) \in [Procs -> Record]
           /\ \A q \in Procs :
                /\ Died(p)[q].pid = proc[q].pid /\ Died(p)[q].pgid = proc[q].pgid
                /\ \/ Died(p)[q].ppid = proc[q].ppid
                   \/ Died(p)[q].ppid = InitPID /\ proc[q].ppid = proc[p].pid
                /\ q = p => Died(p)[q].st = IF p \in {Root, Child} /\ proc[p].ppid # InitPID
                                            THEN "zombie" ELSE "gone"
                /\ q # p => \/ Died(p)[q].st = proc[q].st
                            \/ /\ proc[q].st = "zombie" /\ Died(p)[q].st = "gone"
                               /\ proc[q].ppid = proc[p].pid
<1>1. ASSUME NEW q \in Procs
      PROVE  /\ Died(p)[q] \in Record
             /\ Died(p)[q].pid = proc[q].pid /\ Died(p)[q].pgid = proc[q].pgid
             /\ \/ Died(p)[q].ppid = proc[q].ppid
                \/ Died(p)[q].ppid = InitPID /\ proc[q].ppid = proc[p].pid
             /\ q = p => Died(p)[q].st = IF p \in {Root, Child} /\ proc[p].ppid # InitPID
                                         THEN "zombie" ELSE "gone"
             /\ q # p => \/ Died(p)[q].st = proc[q].st
                         \/ /\ proc[q].st = "zombie" /\ Died(p)[q].st = "gone"
                            /\ proc[q].ppid = proc[p].pid
  <2>1. CASE q = p
    <3>1. Died(p)[q] = [proc[p] EXCEPT !.st = IF p \in {Root, Child} /\ proc[p].ppid # InitPID
                                              THEN "zombie" ELSE "gone"]
      BY <2>1 DEF Died
    <3> QED
      BY <2>1, <3>1
  <2>2. CASE q # p /\ q \in Visible /\ proc[q].ppid = proc[p].pid /\ proc[q].st = "zombie"
    <3>1. Died(p)[q] = [proc[q] EXCEPT !.st = "gone"]
      BY <2>2 DEF Died
    <3> QED
      BY <2>2, <3>1
  <2>3. CASE q # p /\ q \in Visible /\ proc[q].ppid = proc[p].pid /\ proc[q].st # "zombie"
    <3>1. Died(p)[q] = [proc[q] EXCEPT !.ppid = InitPID]
      BY <2>3 DEF Died
    <3> QED
      BY <2>3, <3>1
  <2>4. CASE q # p /\ ~(q \in Visible /\ proc[q].ppid = proc[p].pid)
    <3>1. Died(p)[q] = proc[q]
      BY <2>4 DEF Died
    <3> QED
      BY <2>4, <3>1
  <2> QED
    BY <2>1, <2>2, <2>3, <2>4
<1>2. Died(p) = [q \in Procs |-> Died(p)[q]]
  BY DEF Died
<1> QED
  BY <1>1, <1>2

(* A successful snapshot lists processes of the table, and one that leaves  *)
(* some out is charged as a failure.                                        *)
LEMMA ListingFacts ==
    ASSUME faults \in 0 .. MaxFaults, NEW listed \in Listings(faults)
    PROVE  listed \subseteq Visible /\ FaultsAfter(faults, listed) \in 0 .. MaxFaults
<1>1. CASE listed = Visible
  BY <1>1 DEF FaultsAfter
<1>2. CASE listed # Visible
  <2>1. faults > 0 /\ listed \in SUBSET Visible
    BY <1>2 DEF Listings
  <2> QED
    BY <1>2, <2>1 DEF FaultsAfter
<1> QED
  BY <1>1, <1>2

(* The ancestry closure: it holds its base, adds only processes that are    *)
(* listed, and stays within every closed set around the base.               *)
LEMMA DescendantsFacts ==
    ASSUME NEW base \in SUBSET Procs, NEW listed \in SUBSET Procs
    PROVE  /\ base \subseteq DescendantsOf(base, listed)
           /\ DescendantsOf(base, listed) \subseteq base \cup listed
           /\ \A S \in SUBSET Procs : base \subseteq S /\ ClosedUnderFork(S, listed) =>
                                          DescendantsOf(base, listed) \subseteq S
<1>1. base \subseteq DescendantsOf(base, listed)
  BY DEF DescendantsOf
<1>2. \A S \in SUBSET Procs : base \subseteq S /\ ClosedUnderFork(S, listed) =>
                                 DescendantsOf(base, listed) \subseteq S
  BY DEF DescendantsOf
<1>3. /\ base \cup listed \in SUBSET Procs /\ base \subseteq base \cup listed
      /\ ClosedUnderFork(base \cup listed, listed)
  BY DEF ClosedUnderFork
<1>4. DescendantsOf(base, listed) \subseteq base \cup listed
  BY <1>2, <1>3
<1> QED
  BY <1>1, <1>2, <1>4

(* The PIDs of the daemon's processes, and whose PID a process has.         *)
LEMMA PIDFacts ==
    ASSUME proc \in [Procs -> Record], PIDInv
    PROVE  /\ \A p \in Ours : proc[p].pid # InitPID
           /\ \A p \in Ours : proc[p].st # "absent" =>
                /\ proc[p].pid # SupervisorPID
                /\ proc[p].pid = RootPID <=> p = Root
                /\ proc[p].pid = ChildPID <=> p = Child
                /\ proc[p].pid = StrayPID <=> p = Stray
BY DEF PIDInv, Ours

(* Nobody but the supervisor has the supervisor's PID.                      *)
LEMMA RunningPID ==
    ASSUME proc \in [Procs -> Record], PIDInv, OtherInv, NEW p \in Procs, proc[p].st # "absent"
    PROVE  proc[p].pid # SupervisorPID
<1>1. CASE p = Other
  <2>1. PICK q \in Ours : proc[q].st = "gone" /\ proc[q].pid = proc[Other].pid
    BY <1>1 DEF OtherInv
  <2> QED
    BY <1>1, <2>1, PIDFacts
<1>2. CASE p \in Ours
  BY <1>2, PIDFacts
<1> QED
  BY <1>1, <1>2 DEF Ours

-----------------------------------------------------------------------------
(* The steps that change the process table.                                 *)
Deaths == (\E p \in Procs : Exit(p)) \/ AwaitFails
Births == (\E p \in Procs : Fork(p)) \/ StartProcess \/ StartDescendant
          \/ (\E pid \in ReusedPIDs : Reuse(pid))
TableActions == Deaths \/ Births \/ Detach \/ Reap \/ ReapRoot

LEMMA TableFrame == ASSUME [Next]_vars, ~TableActions PROVE UNCHANGED proc
<1> USE DEF TableActions, Deaths, Births
<1>1. CASE Environment
  BY <1>1 DEF Environment
<1>2. CASE Daemon
  BY <1>2 DEF Daemon, AdoptRegistry, exchange, AdoptionEnds, RegisterDescendant, ReleaseDescendant,
              LaunchCanceled, AbortDescendant, Acknowledge, AwaitReturns
<1>3. CASE StartFails \/ StartProcess \/ AnchorRoot \/ AnchorFails \/ TrackDescendants \/ StopTracking
           \/ DrainStderr \/ BeginShutdown \/ UNCHANGED vars
  BY <1>3 DEF StartFails, AnchorRoot, AnchorFails, TrackDescendants, StopTracking, DrainStderr,
              BeginShutdown
<1>4. CASE Server
  BY <1>4 DEF Server, ServeRoot, registerDescendant, Respond, ServerEnds
<1>5. CASE Signals
  BY <1>5 DEF Signals, SignalSnapshot, signalOriginalGroup, signalEscapedDescendants
<1>6. CASE Escalate
  BY <1>6 DEF Escalate, WaitDone, SignalClosed, SignalAll, SignalAllEnds
<1>7. CASE Reaper
  BY <1>7 DEF Reaper, MarkRootDone, Close, JoinGoroutines, KillOwned, WaitOwned, CloseEnds
<1> QED
  BY <1>1, <1>2, <1>3, <1>4, <1>5, <1>6, <1>7 DEF Next

(* The daemon and the system leave the supervisor alone ...                 *)
LEMMA OutsideFrame == ASSUME Environment \/ Daemon PROVE UNCHANGED <<ownerVars, threadVars>>
<1>1. CASE Environment
  BY <1>1 DEF Environment, Exit, Fork, Detach, Reap, Reuse
<1>2. CASE Daemon
  BY <1>2 DEF Daemon, AdoptRegistry, exchange, AdoptionEnds, StartDescendant, RegisterDescendant,
              ReleaseDescendant, LaunchCanceled, AbortDescendant, Acknowledge, AwaitReturns, AwaitFails
<1> QED
  BY <1>1, <1>2

(* ... and the supervisor leaves the launches of the daemon alone.          *)
LEMMA InsideFrame ==
    ASSUME [Next]_vars, ~(Environment \/ Daemon) PROVE UNCHANGED <<launcher, gate, working>>
<1>1. CASE StartFails \/ StartProcess \/ AnchorRoot \/ AnchorFails \/ TrackDescendants \/ StopTracking
           \/ DrainStderr \/ BeginShutdown \/ UNCHANGED vars
  BY <1>1 DEF StartFails, StartProcess, AnchorRoot, AnchorFails, TrackDescendants, StopTracking,
              DrainStderr, BeginShutdown
<1>2. CASE Server
  BY <1>2 DEF Server, ServeRoot, registerDescendant, Respond, ServerEnds
<1>3. CASE Signals
  BY <1>3 DEF Signals, SignalSnapshot, signalOriginalGroup, signalEscapedDescendants
<1>4. CASE Escalate
  BY <1>4 DEF Escalate, WaitDone, SignalClosed, SignalAll, SignalAllEnds
<1>5. CASE Reaper
  BY <1>5 DEF Reaper, ReapRoot, MarkRootDone, Close, JoinGoroutines, KillOwned, WaitOwned, CloseEnds
<1> QED
  BY <1>1, <1>2, <1>3, <1>4, <1>5 DEF Next

(* A death: who leaves the table, and that nothing else changes.            *)
LEMMA DeathFacts ==
    ASSUME proc \in [Procs -> Record], PIDInv, FamilyInv, OtherInv, Deaths
    PROVE  /\ proc' \in [Procs -> Record]
           /\ \A q \in Procs :
                /\ proc'[q].pid = proc[q].pid /\ proc'[q].pgid = proc[q].pgid
                /\ proc'[q].ppid \in {proc[q].ppid, InitPID}
                /\ proc[q].st = "gone" => proc'[q].st = "gone"
                /\ proc[q].st = "absent" <=> proc'[q].st = "absent"
                /\ q \in Visible' => q \in Visible
           /\ Root \in Visible => Root \in Visible' /\ proc'[Root].ppid = proc[Root].ppid
           /\ \E q \in Procs : proc[q].st = "running"
<1>1. PICK p \in Procs : proc[p].st = "running" /\ proc' = Died(p)
  BY DEF Deaths, Exit, AwaitFails, Active
<1>2. proc[p].pid # SupervisorPID
  BY <1>1, RunningPID
<1>3. /\ proc' \in [Procs -> Record]
      /\ \A q \in Procs :
           /\ proc'[q].pid = proc[q].pid /\ proc'[q].pgid = proc[q].pgid
           /\ \/ proc'[q].ppid = proc[q].ppid
              \/ proc'[q].ppid = InitPID /\ proc[q].ppid = proc[p].pid
           /\ q = p => proc'[q].st = IF p \in {Root, Child} /\ proc[p].ppid # InitPID
                                     THEN "zombie" ELSE "gone"
           /\ q # p => \/ proc'[q].st = proc[q].st
                       \/ /\ proc[q].st = "zombie" /\ proc'[q].st = "gone"
                          /\ proc[q].ppid = proc[p].pid
  BY <1>1, DiedFacts
<1>4. ASSUME NEW q \in Procs
      PROVE  /\ proc'[q].ppid \in {proc[q].ppid, InitPID}
             /\ proc[q].st = "gone" => proc'[q].st = "gone"
             /\ proc[q].st = "absent" <=> proc'[q].st = "absent"
             /\ q \in Visible' => q \in Visible
  BY <1>1, <1>3 DEF Visible
<1>5. ASSUME Root \in Visible PROVE Root \in Visible' /\ proc'[Root].ppid = proc[Root].ppid
  <2>1. proc[Root].ppid = SupervisorPID
    BY <1>5 DEF FamilyInv, Visible
  <2> QED
    BY <1>1, <1>2, <1>3, <1>5, <2>1 DEF Visible
<1> QED
  BY <1>1, <1>3, <1>4, <1>5

(* A process that is gone stays gone, and one that was born keeps its PID.  *)
LEMMA History ==
    ASSUME IInv, [Next]_vars
    PROVE  /\ proc' \in [Procs -> Record]
           /\ \A q \in Procs :
                /\ proc[q].st = "gone" => proc'[q].st = "gone"
                /\ proc[q].st # "absent" => proc'[q].st # "absent" /\ proc'[q].pid = proc[q].pid
<1>t. proc \in [Procs -> Record]
  BY DEF IInv, TypeOK
<1>1. CASE ~TableActions
  BY <1>t, <1>1, TableFrame
<1>2. CASE Deaths
  BY <1>t, <1>2, DeathFacts DEF IInv
<1>3. CASE Detach \/ Reap \/ ReapRoot
  BY <1>t, <1>3 DEF Detach, Active, Reap, ReapRoot
<1>4. CASE StartProcess
  <2>1. proc[Root].st = "absent"
    BY <1>4 DEF StartProcess, IInv, RootInv
  <2> QED
    BY <1>t, <1>4, <2>1 DEF StartProcess
<1>5. CASE StartDescendant
  <2>1. proc[Child].st = "absent"
    BY <1>5 DEF StartDescendant, IInv, BirthInv
  <2> QED
    BY <1>t, <1>5, <2>1 DEF StartDescendant
<1>6. CASE \E p \in Procs : Fork(p)
  <2>1. PICK p \in Procs : Fork(p)
    BY <1>6
  <2> QED
    BY <1>t, <2>1 DEF Fork
<1>7. CASE \E pid \in ReusedPIDs : Reuse(pid)
  <2>1. PICK pid \in ReusedPIDs : Reuse(pid)
    BY <1>7
  <2>2. pid \in PIDs
    BY <1>t, <2>1 DEF Reuse, PIDFree
  <2> QED
    BY <1>t, <2>1, <2>2 DEF Reuse
<1> QED
  BY <1>1, <1>2, <1>3, <1>4, <1>5, <1>6, <1>7 DEF TableActions, Births

(* The types of what a discovery sets, of a signal, of the registry and of  *)
(* the rest.                                                                *)
SupervisorOK ==
    /\ supervisor \in [root : Procs \cup {NoProc}, children : SUBSET Procs, rootDone : BOOLEAN,
                       rootOpened : BOOLEAN, closed : BOOLEAN]
    /\ known \subseteq Procs
    /\ omitted \subseteq Procs

SigOK ==
    sig \in [step : {"idle", "snapshot", "group", "escaped", "end"},
             kind : {"none", "term", "kill"}, group : BOOLEAN, pids : SUBSET PIDs,
             seen : BOOLEAN, failed : BOOLEAN]

WireOK == wire \in [request : PIDs, response : {"none", "accept", "reject"}, closed : BOOLEAN]

FlagsOK == working \in BOOLEAN /\ struck \in BOOLEAN

SystemOK == doomed \subseteq Procs /\ faults \in 0 .. MaxFaults

ThreadOK ==
    /\ starter \in {"idle", "failed", "anchor", "started", "unanchored"}
    /\ tracker \in {"off", "running", "done"}
    /\ server \in {"off", "reading", "accept", "reject", "done"}
    /\ drain \in {"off", "copying", "done"}
    /\ closer \in {"off", "wait", "reaped", "close", "join", "kill", "killing", "finish", "done"}
    /\ escalation \in {"off", "graceful", "terminate", "terminating", "terminated", "kill",
                       "killing", "abandoned", "end"}
    /\ operation \in {"free", "escalate", "close"}

DaemonOK ==
    /\ launcher \in {"adopt", "adopting", "unadopted", "ready", "launching", "registering",
                     "serving", "abort", "joining"}
    /\ gate \in {"none", "await", "acknowledged", "released", "closed"}

FailuresOK == history \subseteq Failures /\ cleanup \subseteq Failures

LEMMA TypeParts ==
    TypeOK <=> /\ proc \in [Procs -> Record] /\ SupervisorOK /\ SigOK /\ WireOK /\ FlagsOK /\ SystemOK
               /\ ThreadOK /\ DaemonOK /\ FailuresOK
BY Zenon DEF TypeOK, SupervisorOK, SigOK, WireOK, FlagsOK, SystemOK, ThreadOK, DaemonOK, FailuresOK

(* The steps that take a snapshot and replace what is owned.                *)
Discovery(listed) ==
    /\ listed \in Listings(faults) /\ Discover(listed)
    /\ \/ AnchorRoot \/ AnchorFails \/ TrackDescendants \/ registerDescendant
       \/ SignalSnapshot \/ SignalAll \/ KillOwned

Discovers == \E listed \in Listings(faults) : Discovery(listed)

(* Steps that do not discover leave the owned processes alone.              *)
LEMMA UndiscoveredStep ==
    ASSUME SupervisorOK, [Next]_vars, ~Discovers
    PROVE  /\ supervisor'.root = supervisor.root /\ supervisor'.children = supervisor.children
           /\ known' = known /\ omitted' = omitted
<1>1. CASE UNCHANGED <<supervisor, known, omitted>>
  BY <1>1
<1>2. CASE Environment \/ Daemon
  BY <1>1, <1>2, OutsideFrame
<1>3. CASE StartFails \/ StartProcess \/ AnchorRoot \/ AnchorFails \/ TrackDescendants \/ StopTracking
           \/ DrainStderr \/ BeginShutdown \/ UNCHANGED vars
  BY <1>1, <1>3 DEF StartFails, StartProcess, AnchorRoot, AnchorFails, SnapshotFails, TrackDescendants,
                    StopTracking, DrainStderr, BeginShutdown, Discovers, Discovery
<1>4. CASE registerDescendant \/ Respond \/ ServerEnds \/ Signals
  BY <1>1, <1>4 DEF registerDescendant, SnapshotFails, Respond, ServerEnds, Signals, SignalSnapshot,
                    signalOriginalGroup, signalEscapedDescendants, Discovers, Discovery
<1>5. CASE Escalate
  BY <1>1, <1>5 DEF Escalate, WaitDone, SignalClosed, SignalAll, SignalAllEnds, RefreshBeforeSignal,
                    SnapshotFails, Discovers, Discovery
<1>6. CASE ReapRoot \/ Close \/ JoinGoroutines \/ KillOwned \/ WaitOwned
  BY <1>1, <1>6 DEF ReapRoot, Close, JoinGoroutines, KillOwned, WaitOwned, RefreshBeforeSignal,
                    SnapshotFails, Discovers, Discovery
<1>7. CASE ServeRoot \/ MarkRootDone \/ CloseEnds
  BY <1>7 DEF ServeRoot, MarkRootDone, CloseEnds, SupervisorOK
<1> QED
  BY <1>2, <1>3, <1>4, <1>5, <1>6, <1>7 DEF Next, Server, Reaper

(* The flags of the supervisor are set once, each by one step.              *)
LEMMA FlagSteps ==
    ASSUME SupervisorOK, [Next]_vars
    PROVE  /\ supervisor'.rootDone = supervisor.rootDone \/ (MarkRootDone /\ supervisor'.rootDone = TRUE)
           /\ supervisor'.closed = supervisor.closed \/ (CloseEnds /\ supervisor'.closed = TRUE)
           /\ supervisor'.rootOpened = supervisor.rootOpened \/ supervisor'.rootOpened = TRUE
<1>1. CASE UNCHANGED supervisor
  BY <1>1
<1>2. ASSUME NEW listed, Discover(listed)
      PROVE  /\ supervisor'.rootDone = supervisor.rootDone /\ supervisor'.closed = supervisor.closed
             /\ supervisor'.rootOpened = supervisor.rootOpened
  BY <1>2 DEF Discover, SupervisorOK
<1>3. CASE Environment \/ Daemon
  BY <1>1, <1>3, OutsideFrame
<1>4. CASE StartFails \/ StartProcess \/ AnchorRoot \/ AnchorFails \/ TrackDescendants \/ StopTracking
           \/ DrainStderr \/ BeginShutdown \/ UNCHANGED vars
  BY <1>1, <1>2, <1>4 DEF StartFails, StartProcess, AnchorRoot, AnchorFails, SnapshotFails,
                          TrackDescendants, StopTracking, DrainStderr, BeginShutdown
<1>5. CASE registerDescendant \/ Respond \/ ServerEnds \/ Signals
  BY <1>1, <1>2, <1>5 DEF registerDescendant, SnapshotFails, Respond, ServerEnds, Signals,
                          SignalSnapshot, signalOriginalGroup, signalEscapedDescendants
<1>6. CASE Escalate
  BY <1>1, <1>2, <1>6 DEF Escalate, WaitDone, SignalClosed, SignalAll, SignalAllEnds,
                          RefreshBeforeSignal, SnapshotFails
<1>7. CASE ReapRoot \/ Close \/ JoinGoroutines \/ KillOwned \/ WaitOwned
  BY <1>1, <1>2, <1>7 DEF ReapRoot, Close, JoinGoroutines, KillOwned, WaitOwned, RefreshBeforeSignal,
                          SnapshotFails
<1>8. CASE ServeRoot
  BY <1>8 DEF ServeRoot, SupervisorOK
<1>9. CASE MarkRootDone
  BY <1>9 DEF MarkRootDone, SupervisorOK
<1>10. CASE CloseEnds
  BY <1>10 DEF CloseEnds, SupervisorOK
<1> QED
  BY <1>3, <1>4, <1>5, <1>6, <1>7, <1>8, <1>9, <1>10 DEF Next, Server, Reaper

(* What is owned.                                                           *)
LEMMA SupervisorStep == SupervisorOK /\ [Next]_vars => SupervisorOK'
<1> SUFFICES ASSUME SupervisorOK, [Next]_vars PROVE SupervisorOK'
  OBVIOUS
<1>1. CASE UNCHANGED <<supervisor, known, omitted>>
  BY <1>1 DEF SupervisorOK
<1>2. ASSUME NEW listed \in Listings(faults), Discover(listed) PROVE SupervisorOK'
  <2>1. listed \subseteq Procs
    BY DEF Listings, Visible
  <2>2. AnchoredRoot(listed) \in Procs \cup {NoProc}
    BY <2>1 DEF AnchoredRoot, At, SupervisorOK
  <2>3. DiscoveredChildren(listed) \subseteq Procs
    BY DEF DiscoveredChildren, Owned, DescendantsOf
  <2> QED
    BY <1>2, <2>2, <2>3 DEF Discover, SupervisorOK
<1>3. CASE Environment \/ Daemon
  BY <1>1, <1>3, OutsideFrame
<1>4. CASE StartFails \/ StartProcess \/ AnchorRoot \/ AnchorFails \/ TrackDescendants \/ StopTracking
           \/ DrainStderr \/ BeginShutdown \/ UNCHANGED vars
  BY <1>1, <1>2, <1>4 DEF StartFails, StartProcess, AnchorRoot, AnchorFails, SnapshotFails,
                          TrackDescendants, StopTracking, DrainStderr, BeginShutdown
<1>5. CASE registerDescendant \/ Respond \/ ServerEnds \/ Signals
  BY <1>1, <1>2, <1>5 DEF registerDescendant, SnapshotFails, Respond, ServerEnds, Signals,
                          SignalSnapshot, signalOriginalGroup, signalEscapedDescendants
<1>6. CASE Escalate
  BY <1>1, <1>2, <1>6 DEF Escalate, WaitDone, SignalClosed, SignalAll, SignalAllEnds,
                          RefreshBeforeSignal, SnapshotFails
<1>7. CASE ReapRoot \/ Close \/ JoinGoroutines \/ KillOwned \/ WaitOwned
  BY <1>1, <1>2, <1>7 DEF ReapRoot, Close, JoinGoroutines, KillOwned, WaitOwned, RefreshBeforeSignal,
                          SnapshotFails
<1>8. CASE ServeRoot
  BY <1>8 DEF ServeRoot, SupervisorOK
<1>9. CASE MarkRootDone
  BY <1>9 DEF MarkRootDone, SupervisorOK
<1>10. CASE CloseEnds
  BY <1>10 DEF CloseEnds, SupervisorOK
<1> QED
  BY <1>3, <1>4, <1>5, <1>6, <1>7, <1>8, <1>9, <1>10 DEF Next, Server, Reaper

(* The forms a signal goes through.                                         *)
SignalForms ==
    \/ UNCHANGED sig
    \/ sig' = NoSignal
    \/ \E k \in {"term", "kill"} : sig' = [NoSignal EXCEPT !.step = "snapshot", !.kind = k]
    \/ \E k \in {"term", "kill"} : sig' = [NoSignal EXCEPT !.step = "snapshot", !.kind = k, !.failed = TRUE]
    \/ SignalSnapshot \/ signalOriginalGroup \/ \E pid \in PIDs : signalEscapedDescendants(pid)

LEMMA SignalFrame == ASSUME [Next]_vars PROVE SignalForms
<1>1. CASE Environment \/ Daemon
  BY <1>1, OutsideFrame DEF SignalForms
<1>2. CASE StartFails \/ StartProcess \/ AnchorRoot \/ AnchorFails \/ TrackDescendants \/ StopTracking
           \/ DrainStderr \/ BeginShutdown \/ UNCHANGED vars
  BY <1>2 DEF StartFails, StartProcess, AnchorRoot, AnchorFails, TrackDescendants, StopTracking,
              DrainStderr,
              BeginShutdown, SignalForms
<1>3. CASE Server
  BY <1>3 DEF Server, ServeRoot, registerDescendant, Respond, ServerEnds, SignalForms
<1>4. CASE Signals
  BY <1>4 DEF Signals, SignalForms
<1>5. CASE Escalate
  BY <1>5 DEF Escalate, WaitDone, SignalClosed, SignalAll, SignalAllEnds, RefreshBeforeSignal,
              SignalForms
<1>6. CASE Reaper
  BY <1>6 DEF Reaper, ReapRoot, MarkRootDone, Close, JoinGoroutines, KillOwned, WaitOwned, CloseEnds,
              RefreshBeforeSignal, SignalForms
<1> QED
  BY <1>1, <1>2, <1>3, <1>4, <1>5, <1>6 DEF Next

LEMMA SigStep == proc \in [Procs -> Record] /\ SigOK /\ [Next]_vars => SigOK'
<1> SUFFICES ASSUME proc \in [Procs -> Record], SigOK, SignalForms PROVE SigOK'
  BY SignalFrame
<1>1. CASE UNCHANGED sig
  BY <1>1 DEF SigOK
<1>6. CASE sig' = NoSignal
  BY <1>6 DEF SigOK, NoSignal
<1>2. ASSUME NEW k \in {"term", "kill"},
             \/ sig' = [NoSignal EXCEPT !.step = "snapshot", !.kind = k]
             \/ sig' = [NoSignal EXCEPT !.step = "snapshot", !.kind = k, !.failed = TRUE]
      PROVE  SigOK'
  BY <1>2 DEF NoSignal, SigOK
<1>3. CASE SignalSnapshot
  <2>1. \A listed : /\ EscapedPIDs(listed) \subseteq PIDs /\ GroupOwned(listed) \in BOOLEAN
                     /\ (Other \in Visible) \in BOOLEAN
    <3>1. \A listed : DiscoveredChildren(listed) \subseteq Procs
      BY DEF DiscoveredChildren, Owned, DescendantsOf
    <3>2. \A p \in Procs : proc[p].pid \in PIDs
      OBVIOUS
    <3> QED
      BY <3>1, <3>2 DEF EscapedPIDs, GroupOwned
  <2>2. ASSUME NEW listed,
               sig' = [sig EXCEPT !.step = "group", !.group = GroupOwned(listed),
                                  !.pids = EscapedPIDs(listed), !.seen = (Other \in Visible)]
        PROVE  SigOK'
    BY <2>1, <2>2 DEF SigOK
  <2>3. CASE sig' = [sig EXCEPT !.step = "end", !.failed = TRUE]
    BY <2>3 DEF SigOK
  <2> QED
    BY <1>3, <2>2, <2>3 DEF SignalSnapshot
<1>4. CASE signalOriginalGroup
  <2>1. \/ sig' = [sig EXCEPT !.step = "escaped"]
        \/ sig' = [sig EXCEPT !.step = "escaped", !.failed = TRUE]
    BY <1>4 DEF signalOriginalGroup
  <2> QED
    BY <2>1 DEF SigOK
<1>5. ASSUME NEW pid \in PIDs, signalEscapedDescendants(pid) PROVE SigOK'
  <2>1. \/ sig' = [sig EXCEPT !.pids = @ \ {pid}]
        \/ sig' = [sig EXCEPT !.pids = @ \ {pid}, !.failed = TRUE]
    BY <1>5 DEF signalEscapedDescendants
  <2> QED
    BY <2>1 DEF SigOK
<1> QED
  BY <1>1, <1>2, <1>3, <1>4, <1>5, <1>6 DEF SignalForms

(* The registry socket pair, by the steps that touch it.                    *)
LEMMA WireFrame ==
    ASSUME [Next]_vars
    PROVE  \/ UNCHANGED wire
           \/ AdoptRegistry \/ RegisterDescendant \/ AdoptionEnds \/ ReleaseDescendant
           \/ ServeRoot \/ registerDescendant \/ Respond \/ Close
<1>1. CASE Environment
  BY <1>1 DEF Environment, Exit, Fork, Detach, Reap, Reuse
<1>2. CASE Daemon
  BY <1>2 DEF Daemon, StartDescendant, LaunchCanceled, AbortDescendant, Acknowledge, AwaitReturns,
              AwaitFails
<1>3. CASE StartFails \/ StartProcess \/ AnchorRoot \/ AnchorFails \/ TrackDescendants \/ StopTracking
           \/ DrainStderr \/ BeginShutdown \/ UNCHANGED vars
  BY <1>3 DEF StartFails, StartProcess, AnchorRoot, AnchorFails, TrackDescendants, StopTracking,
              DrainStderr, BeginShutdown
<1>4. CASE Server
  BY <1>4 DEF Server, ServerEnds
<1>5. CASE Signals
  BY <1>5 DEF Signals, SignalSnapshot, signalOriginalGroup, signalEscapedDescendants
<1>6. CASE Escalate
  BY <1>6 DEF Escalate, WaitDone, SignalClosed, SignalAll, SignalAllEnds
<1>7. CASE Reaper
  BY <1>7 DEF Reaper, ReapRoot, MarkRootDone, JoinGoroutines, KillOwned, WaitOwned, CloseEnds
<1> QED
  BY <1>1, <1>2, <1>3, <1>4, <1>5, <1>6, <1>7 DEF Next

LEMMA WireStep == WireOK /\ [Next]_vars => WireOK'
<1> SUFFICES ASSUME WireOK, [Next]_vars PROVE WireOK'
  OBVIOUS
<1>1. CASE UNCHANGED wire
  BY <1>1 DEF WireOK
<1>2. CASE AdoptRegistry \/ RegisterDescendant
  <2>1. PICK n \in PIDs : wire' = [wire EXCEPT !.request = n]
    BY <1>2 DEF AdoptRegistry, RegisterDescendant, exchange
  <2> QED
    BY <2>1 DEF WireOK
<1>3. CASE AdoptionEnds \/ ReleaseDescendant
  <2>1. wire' = [wire EXCEPT !.response = "none"]
    BY <1>3 DEF AdoptionEnds, ReleaseDescendant
  <2> QED
    BY <2>1 DEF WireOK
<1>4. CASE ServeRoot \/ registerDescendant
  <2>1. wire' = [wire EXCEPT !.request = 0]
    BY <1>4 DEF ServeRoot, registerDescendant
  <2> QED
    BY <2>1 DEF WireOK
<1>5. CASE Respond
  <2>1. server \in {"accept", "reject"} /\ (UNCHANGED wire \/ wire' = [wire EXCEPT !.response = server])
    BY <1>5 DEF Respond
  <2> QED
    BY <2>1 DEF WireOK
<1>6. CASE Close
  <2>1. wire' = [wire EXCEPT !.closed = TRUE]
    BY <1>6 DEF Close
  <2> QED
    BY <2>1 DEF WireOK
<1> QED
  BY <1>1, <1>2, <1>3, <1>4, <1>5, <1>6, WireFrame

(* The release of the child and the witness of a wrong signal.              *)
LEMMA FlagsStep == FlagsOK /\ [Next]_vars => FlagsOK'
<1> SUFFICES ASSUME FlagsOK, [Next]_vars PROVE FlagsOK'
  OBVIOUS
<1> USE DEF FlagsOK
<1>1. CASE UNCHANGED <<working, struck>>
  BY <1>1
<1>2. CASE AwaitReturns
  BY <1>2, Zenon DEF AwaitReturns
<1>3. CASE signalOriginalGroup
  BY <1>3, Zenon DEF signalOriginalGroup, Deliver, KillFails
<1>4. ASSUME NEW pid \in PIDs, signalEscapedDescendants(pid) PROVE FlagsOK'
  BY <1>4, Zenon DEF signalEscapedDescendants, Deliver, KillFails
<1>5. CASE Environment \/ SignalSnapshot
  BY <1>1, <1>5 DEF Environment, Exit, Fork, Detach, Reap, Reuse, SignalSnapshot
<1>6. CASE Daemon /\ ~AwaitReturns
  BY <1>1, <1>6 DEF Daemon, AdoptRegistry, exchange, AdoptionEnds, StartDescendant, RegisterDescendant,
                    ReleaseDescendant, LaunchCanceled, AbortDescendant, Acknowledge, AwaitFails
<1>7. CASE StartFails \/ StartProcess \/ AnchorRoot \/ AnchorFails \/ TrackDescendants \/ StopTracking
           \/ DrainStderr \/ BeginShutdown \/ UNCHANGED vars
  BY <1>1, <1>7 DEF StartFails, StartProcess, AnchorRoot, AnchorFails, TrackDescendants,
                    StopTracking, DrainStderr,
                    BeginShutdown
<1>8. CASE Server \/ Escalate
  BY <1>1, <1>8 DEF Server, ServeRoot, registerDescendant, Respond, ServerEnds, Escalate, WaitDone,
                    SignalClosed, SignalAll, SignalAllEnds
<1>9. CASE Reaper
  BY <1>1, <1>9 DEF Reaper, ReapRoot, MarkRootDone, Close, JoinGoroutines, KillOwned, WaitOwned,
                    CloseEnds
<1> QED
  BY <1>2, <1>3, <1>4, <1>5, <1>6, <1>7, <1>8, <1>9 DEF Next, Signals

(* Pending signals and remaining faults.                                    *)
LEMMA SystemStep == SystemOK /\ [Next]_vars => SystemOK'
<1> SUFFICES ASSUME SystemOK, [Next]_vars PROVE SystemOK'
  OBVIOUS
<1>k. \A T : Killed(T) \subseteq T
  BY DEF Killed
<1>v. \A n : At(Visible, n) \subseteq Procs /\ Group(Visible, n) \subseteq Procs
  BY DEF At, Group, Visible
<1> USE DEF SystemOK
<1>1. CASE UNCHANGED <<doomed, faults>>
  BY <1>1
<1>f. ASSUME NEW listed \in Listings(faults), Discover(listed) PROVE faults' \in 0 .. MaxFaults
  BY <1>f, ListingFacts DEF Discover
<1>r. ASSUME NEW failure, Records(failure) PROVE faults' \in 0 .. MaxFaults
  BY <1>r DEF Records
<1>s. SnapshotFails => faults' \in 0 .. MaxFaults
  BY DEF SnapshotFails
<1>2. CASE UNCHANGED doomed /\ (UNCHANGED faults \/ faults' \in 0 .. MaxFaults)
  BY <1>2
<1>3. CASE Environment
  BY <1>3 DEF Environment, Exit, Fork, Detach, Reap, Reuse
<1>4. CASE AbortDescendant
  BY <1>4, <1>k, <1>v DEF AbortDescendant
<1>5. CASE Daemon /\ ~AbortDescendant
  BY <1>1, <1>5 DEF Daemon, AdoptRegistry, exchange, AdoptionEnds, StartDescendant, RegisterDescendant,
                    ReleaseDescendant, LaunchCanceled, Acknowledge, AwaitReturns, AwaitFails
<1>6. CASE AnchorFails
  <2>1. doomed' \in {doomed, doomed \cup Killed(Group(Visible, RootPID))}
    BY <1>6 DEF AnchorFails
  <2>2. Killed(Group(Visible, RootPID)) \subseteq Procs
    BY <1>k, <1>v
  <2>3. faults' \in 0 .. MaxFaults
    BY <1>6, <1>f, <1>s DEF AnchorFails
  <2>4. doomed' \subseteq Procs
    BY <2>1, <2>2
  <2> QED
    BY <2>3, <2>4
<1>7. CASE StartFails \/ StartProcess \/ AnchorRoot \/ TrackDescendants \/ StopTracking
           \/ DrainStderr \/ BeginShutdown
           \/ UNCHANGED vars
  BY <1>2, <1>f, <1>r, <1>s, <1>7 DEF StartFails, StartProcess, AnchorRoot, TrackDescendants,
                                      StopTracking, DrainStderr, BeginShutdown
<1>8. CASE Server
  <2>1. CASE registerDescendant
    BY <1>2, <1>f, <1>s, <2>1 DEF registerDescendant
  <2>2. CASE ServeRoot \/ Respond \/ ServerEnds
    BY <2>2 DEF ServeRoot, Respond, ServerEnds
  <2> QED
    BY <1>8, <2>1, <2>2 DEF Server
<1>9. CASE SignalSnapshot
  BY <1>2, <1>f, <1>s, <1>9 DEF SignalSnapshot
<1>10. CASE signalOriginalGroup
  BY <1>10, <1>k, <1>v DEF signalOriginalGroup, Deliver, KillFails
<1>11. ASSUME NEW pid \in PIDs, signalEscapedDescendants(pid) PROVE SystemOK'
  BY <1>11, <1>k, <1>v DEF signalEscapedDescendants, Deliver, KillFails
<1>12. CASE Escalate
  BY <1>2, <1>f, <1>s, <1>12 DEF Escalate, WaitDone, SignalClosed, SignalAll, SignalAllEnds,
                                 RefreshBeforeSignal
<1>13. CASE Reaper
  <2>1. CASE KillOwned
    BY <1>2, <1>f, <1>s, <2>1 DEF KillOwned, RefreshBeforeSignal
  <2>2. CASE ReapRoot \/ MarkRootDone \/ Close \/ JoinGoroutines \/ WaitOwned
    BY <1>1, <2>2 DEF ReapRoot, MarkRootDone, Close, JoinGoroutines, WaitOwned
  <2>3. CASE CloseEnds
    BY <2>3 DEF CloseEnds
  <2> QED
    BY <1>13, <2>1, <2>2, <2>3 DEF Reaper
<1> QED
  BY <1>3, <1>4, <1>5, <1>6, <1>7, <1>8, <1>9, <1>10, <1>11, <1>12, <1>13 DEF Next, Signals

(* The goroutines of the supervisor.                                        *)
LEMMA ThreadOKStep == ThreadOK /\ [Next]_vars => ThreadOK'
<1> SUFFICES ASSUME ThreadOK, [Next]_vars PROVE ThreadOK'
  OBVIOUS
<1> USE DEF ThreadOK
<1>1. CASE UNCHANGED <<starter, tracker, server, drain, closer, escalation, operation>>
  BY <1>1
<1>2. CASE Environment \/ Daemon
  BY <1>1, <1>2, OutsideFrame
<1>3. CASE StartFails \/ StartProcess \/ AnchorRoot \/ AnchorFails
  BY <1>3 DEF StartFails, StartProcess, AnchorRoot, AnchorFails
<1>4. CASE TrackDescendants \/ StopTracking \/ DrainStderr \/ BeginShutdown \/ UNCHANGED vars
  BY <1>4 DEF TrackDescendants, StopTracking, DrainStderr, BeginShutdown
<1>5. CASE Server
  BY <1>5 DEF Server, ServeRoot, registerDescendant, Respond, ServerEnds
<1>6. CASE Signals
  BY <1>1, <1>6 DEF Signals, SignalSnapshot, signalOriginalGroup, signalEscapedDescendants
<1>7. CASE Escalate
  BY <1>7 DEF Escalate, WaitDone, SignalClosed, SignalAll, SignalAllEnds, AfterSignal
<1>8. CASE Reaper
  BY <1>8 DEF Reaper, ReapRoot, MarkRootDone, Close, JoinGoroutines, KillOwned, WaitOwned, CloseEnds
<1> QED
  BY <1>2, <1>3, <1>4, <1>5, <1>6, <1>7, <1>8 DEF Next

(* The launches of the daemon.                                              *)
LEMMA DaemonStep == DaemonOK /\ [Next]_vars => DaemonOK'
<1> SUFFICES ASSUME DaemonOK, [Next]_vars PROVE DaemonOK'
  OBVIOUS
<1> USE DEF DaemonOK
<1>1. CASE Environment
  BY <1>1 DEF Environment, Exit, Fork, Detach, Reap, Reuse
<1>2. CASE Daemon
  BY <1>2 DEF Daemon, AdoptRegistry, exchange, AdoptionEnds, StartDescendant, RegisterDescendant,
              ReleaseDescendant, LaunchCanceled, AbortDescendant, Acknowledge, AwaitReturns, AwaitFails
<1>3. CASE ~(Environment \/ Daemon)
  BY <1>3, InsideFrame
<1> QED
  BY <1>1, <1>2, <1>3

(* Failures are recorded and never dropped, except that the last step of    *)
(* Close also publishes them.                                               *)
LEMMA HistoryStep ==
    ASSUME [Next]_vars
    PROVE  /\ history \subseteq history'
           /\ history' \subseteq history \cup Failures
           /\ UNCHANGED cleanup \/ (CloseEnds /\ cleanup' = history')
           /\ \/ UNCHANGED history
              \/ StartProcess \/ AnchorFails \/ TrackDescendants \/ DrainStderr
              \/ registerDescendant \/ Respond \/ ServerEnds \/ SignalAllEnds
              \/ WaitOwned \/ CloseEnds
<1> USE DEF Failures
<1>1. CASE UNCHANGED <<history, cleanup>>
  BY <1>1
<1>2. CASE Environment \/ Daemon
  BY <1>1, <1>2, OutsideFrame
<1>3. CASE StartFails \/ AnchorRoot \/ StopTracking \/ BeginShutdown \/ UNCHANGED vars
  BY <1>1, <1>3 DEF StartFails, AnchorRoot, StopTracking, BeginShutdown
<1>13. CASE StartProcess \/ DrainStderr
  BY <1>13 DEF StartProcess, DrainStderr, Records
<1>4. CASE AnchorFails \/ TrackDescendants
  BY <1>4 DEF AnchorFails, TrackDescendants
<1>14. CASE ServerEnds
  BY <1>14 DEF ServerEnds
<1>5. CASE ServeRoot \/ Signals
  BY <1>1, <1>5 DEF ServeRoot, Signals, SignalSnapshot, signalOriginalGroup,
                    signalEscapedDescendants
<1>6. CASE registerDescendant
  <2>1. history' \in {history, history \cup {"rejected"}} /\ UNCHANGED cleanup
    BY <1>6 DEF registerDescendant
  <2> QED
    BY <1>6, <2>1
<1>7. CASE Respond
  <2>1. history' \in {history, history \cup {"answer"}} /\ UNCHANGED cleanup
    BY <1>7 DEF Respond
  <2> QED
    BY <1>7, <2>1
<1>8. CASE WaitDone \/ SignalClosed \/ SignalAll
  BY <1>1, <1>8 DEF WaitDone, SignalClosed, SignalAll
<1>9. CASE SignalAllEnds
  BY <1>9 DEF SignalAllEnds
<1>10. CASE ReapRoot \/ MarkRootDone \/ Close \/ JoinGoroutines \/ KillOwned
  BY <1>1, <1>10 DEF ReapRoot, MarkRootDone, Close, JoinGoroutines, KillOwned
<1>11. CASE WaitOwned
  BY <1>11 DEF WaitOwned
<1>12. CASE CloseEnds
  BY <1>12 DEF CloseEnds
<1> QED
  BY <1>2, <1>3, <1>4, <1>5, <1>6, <1>7, <1>8, <1>9, <1>10, <1>11, <1>12, <1>13, <1>14
  DEF Next, Server, Escalate, Reaper

(* Every variable keeps its type.                                           *)
LEMMA TypeStep == IInv /\ [Next]_vars => TypeOK'
<1> SUFFICES ASSUME IInv, [Next]_vars PROVE TypeOK'
  OBVIOUS
<1>1. /\ proc \in [Procs -> Record] /\ SupervisorOK /\ SigOK /\ WireOK /\ FlagsOK /\ SystemOK
      /\ ThreadOK /\ DaemonOK /\ FailuresOK
  BY TypeParts DEF IInv
<1>2. SupervisorOK' /\ SigOK' /\ WireOK' /\ FlagsOK' /\ SystemOK' /\ ThreadOK' /\ DaemonOK'
  BY <1>1, SupervisorStep, SigStep, WireStep, FlagsStep, SystemStep, ThreadOKStep, DaemonStep
<1>3. FailuresOK'
  BY <1>1, HistoryStep DEF FailuresOK
<1>4. proc' \in [Procs -> Record]
  BY History
<1> QED
  BY <1>2, <1>3, <1>4, Zenon DEF TypeOK, SupervisorOK, SigOK, WireOK, FlagsOK, SystemOK, ThreadOK,
                                 DaemonOK, FailuresOK

-----------------------------------------------------------------------------
(* The process table: PIDs, the root's family and the process of somebody   *)
(* else.                                                                    *)
LEMMA TableStep == IInv /\ [Next]_vars => (PIDInv /\ FamilyInv /\ OtherInv)'
<1> SUFFICES ASSUME IInv, [Next]_vars PROVE (PIDInv /\ FamilyInv /\ OtherInv)'
  OBVIOUS
<1> USE DEF IInv
<1>t. proc \in [Procs -> Record]
  BY DEF TypeOK
<1>1. CASE ~TableActions
  BY <1>1, TableFrame DEF PIDInv, FamilyInv, OtherInv, Visible
<1>2. CASE Deaths
  <2>1. /\ \A q \in Procs :
                /\ proc'[q].pid = proc[q].pid /\ proc'[q].pgid = proc[q].pgid
                /\ proc'[q].ppid \in {proc[q].ppid, InitPID}
                /\ proc[q].st = "gone" => proc'[q].st = "gone"
                /\ proc[q].st = "absent" <=> proc'[q].st = "absent"
                /\ q \in Visible' => q \in Visible
        /\ Root \in Visible => proc'[Root].ppid = proc[Root].ppid
    BY <1>t, <1>2, DeathFacts
  <2>2. proc[Root].st # "absent" /\ Root \notin Visible => proc'[Root].ppid = proc[Root].ppid
    <3>1. PICK p \in Procs : proc[p].st = "running" /\ proc' = Died(p)
      BY <1>2 DEF Deaths, Exit, AwaitFails, Active
    <3>2. p # Root /\ Root \notin Visible => proc'[Root] = proc[Root]
      BY <1>t, <3>1 DEF Died
    <3> QED
      BY <3>1, <3>2 DEF Visible
  <2>3. PIDInv' /\ FamilyInv'
    BY <2>1, <2>2 DEF PIDInv, FamilyInv
  <2>4. OtherInv'
    BY <2>1 DEF OtherInv, Ours
  <2> QED
    BY <2>3, <2>4
<1>3. CASE \E p \in Procs : Fork(p)
  <2>1. PICK p \in {Root, Child} : Fork(p)
    BY <1>3 DEF Fork
  <2>2. /\ proc[p].st = "running" /\ proc[Stray].st = "absent"
        /\ proc' = [proc EXCEPT ![Stray] = Born(StrayPID, proc[p].pid, proc[p].pgid)]
    BY <2>1 DEF Fork, Active
  <2>3. PIDInv' /\ FamilyInv'
    BY <1>t, <2>2 DEF PIDInv, FamilyInv
  <2>4. proc[Other].st # "absent" => proc[Other].pid # proc[p].pgid
    BY <2>1, <2>2 DEF OtherInv, Visible, Ours
  <2>5. /\ \A q \in Procs \ {Stray} : proc'[q] = proc[q] /\ (q \in Visible' <=> q \in Visible)
        /\ proc'[Stray].pgid = proc[p].pgid
    BY <1>t, <2>2 DEF Visible
  <2>6. OtherInv'
    BY <2>2, <2>4, <2>5 DEF OtherInv, Ours
  <2> QED
    BY <2>3, <2>6
<1>4. CASE StartDescendant
  <2>1. /\ proc[Child].st = "absent"
        /\ proc' = [proc EXCEPT ![Child] = Born(ChildPID, RootPID, ChildPID)]
    BY <1>4 DEF StartDescendant, BirthInv
  <2>2. PIDInv' /\ FamilyInv'
    BY <1>t, <2>1 DEF PIDInv, FamilyInv
  <2>3. proc[Other].st # "absent" => proc[Other].pid # ChildPID
    BY <1>t, <2>1, PIDFacts DEF OtherInv
  <2>4. /\ \A q \in Procs \ {Child} : proc'[q] = proc[q] /\ (q \in Visible' <=> q \in Visible)
        /\ proc'[Child].pgid = ChildPID
    BY <1>t, <2>1 DEF Visible
  <2>5. OtherInv'
    BY <2>1, <2>3, <2>4 DEF OtherInv, Ours
  <2> QED
    BY <2>2, <2>5
<1>5. CASE Detach
  <2>1. /\ proc[Stray].st = "running"
        /\ proc' = [proc EXCEPT ![Stray].pgid = StrayPID]
    BY <1>5 DEF Detach, Active
  <2>2. PIDInv' /\ FamilyInv'
    BY <1>t, <2>1 DEF PIDInv, FamilyInv
  <2>3. proc[Other].st # "absent" => proc[Other].pid # StrayPID
    BY <1>t, <2>1, PIDFacts DEF OtherInv
  <2>4. /\ \A q \in Procs \ {Stray} : proc'[q] = proc[q] /\ (q \in Visible' <=> q \in Visible)
        /\ proc'[Stray].pgid = StrayPID /\ proc'[Stray].st = "running" /\ proc'[Stray].pid = proc[Stray].pid
    BY <1>t, <2>1 DEF Visible
  <2>5. OtherInv'
    BY <2>1, <2>3, <2>4 DEF OtherInv, Ours
  <2> QED
    BY <2>2, <2>5
<1>6. CASE \E pid \in ReusedPIDs : Reuse(pid)
  <2>0. PICK pid \in ReusedPIDs : Reuse(pid)
    BY <1>6
  <2>1. /\ proc[Other].st = "absent" /\ PIDFree(pid)
        /\ proc' = [proc EXCEPT ![Other] = Born(pid, InitPID, pid)]
    BY <2>0 DEF Reuse
  <2>2. PIDInv' /\ FamilyInv'
    BY <1>t, <2>1 DEF PIDInv, FamilyInv
  <2>3. PICK q \in Ours : proc[q].st = "gone" /\ proc[q].pid = pid
    BY <2>1 DEF PIDFree, Ours
  <2>4. \A r \in Ours \cap Visible : proc[r].pgid # pid
    BY <2>1 DEF PIDFree, Group
  <2>5. /\ \A r \in Ours : proc'[r] = proc[r] /\ (r \in Visible' <=> r \in Visible)
        /\ proc'[Other].ppid = InitPID /\ proc'[Other].pgid = pid /\ proc'[Other].pid = pid
    BY <1>t, <2>1 DEF Visible, Ours
  <2>6. OtherInv'
    BY <2>3, <2>4, <2>5 DEF OtherInv
  <2> QED
    BY <2>2, <2>6
<1>7. CASE StartProcess
  <2>1. /\ \A q \in Procs : proc[q].st = "absent"
        /\ proc' = [proc EXCEPT ![Root] = Born(RootPID, SupervisorPID, RootPID)]
    BY <1>7 DEF StartProcess, RootInv
  <2> QED
    BY <1>t, <2>1 DEF PIDInv, FamilyInv, OtherInv
<1>8. CASE Reap \/ ReapRoot
  <2>1. PICK p \in {Root, Child} : proc[p].st = "zombie" /\ proc' = [proc EXCEPT ![p].st = "gone"]
    BY <1>8 DEF Reap, ReapRoot
  <2>2. PIDInv' /\ FamilyInv'
    BY <1>t, <2>1 DEF PIDInv, FamilyInv
  <2>3. /\ \A q \in Procs \ {p} : proc'[q] = proc[q] /\ (q \in Visible' <=> q \in Visible)
        /\ p \notin Visible' /\ proc'[p].pid = proc[p].pid
    BY <1>t, <2>1 DEF Visible
  <2>4. OtherInv'
    BY <2>1, <2>3 DEF OtherInv, Ours
  <2> QED
    BY <2>2, <2>4
<1> QED
  BY <1>1, <1>2, <1>3, <1>4, <1>5, <1>6, <1>7, <1>8 DEF TableActions, Births

(* The root stays in the table until the supervisor reaps it.               *)
LEMMA RootStep == IInv /\ [Next]_vars => RootInv'
<1> SUFFICES ASSUME IInv, [Next]_vars PROVE RootInv'
  OBVIOUS
<1>t. proc \in [Procs -> Record] /\ ThreadOK
  BY TypeParts DEF IInv
<1>i. RootInv /\ (closer = "off" <=> starter \in {"idle", "failed", "anchor"})
  BY DEF IInv, LockInv
<1>0. CASE UNCHANGED <<proc, starter, closer>>
  BY <1>i, <1>0 DEF RootInv, Visible
<1>1. CASE Deaths
  <2>1. UNCHANGED <<starter, closer>>
    BY <1>1 DEF Deaths, Exit, AwaitFails
  <2>2. /\ Root \in Visible => Root \in Visible'
        /\ \E q \in Procs : proc[q].st = "running"
        /\ proc[Root].st = "gone" => proc'[Root].st = "gone"
        /\ proc[Root].st = "absent" <=> proc'[Root].st = "absent"
    BY <1>t, <1>1, DeathFacts DEF IInv
  <2> QED
    BY <1>i, <2>1, <2>2 DEF RootInv
<1>2. CASE (\E p \in Procs : Fork(p)) \/ Detach \/ StartDescendant \/ Reap
  <2>1. UNCHANGED <<starter, closer>> /\ \E q \in Procs : proc[q].st = "running"
    BY <1>2 DEF Fork, Detach, StartDescendant, Reap, Active
  <2>2. proc'[Root] = proc[Root]
    BY <1>t, <1>2 DEF Fork, Detach, StartDescendant, Reap
  <2> QED
    BY <1>i, <2>1, <2>2 DEF RootInv, Visible
<1>3. CASE \E pid \in ReusedPIDs : Reuse(pid)
  <2>1. PICK pid \in ReusedPIDs : Reuse(pid)
    BY <1>3
  <2>2. UNCHANGED <<starter, closer>> /\ proc'[Root] = proc[Root] /\ \E q \in Procs : proc[q].st = "gone"
    BY <1>t, <2>1 DEF Reuse, PIDFree
  <2> QED
    BY <1>i, <2>2 DEF RootInv, Visible
<1>4. CASE StartProcess
  <2>1. starter = "idle" /\ starter' = "anchor" /\ UNCHANGED closer /\ proc'[Root].st = "running"
    BY <1>t, <1>4 DEF StartProcess
  <2> QED
    BY <1>i, <2>1 DEF RootInv, Visible
<1>5. CASE ReapRoot
  <2>1. UNCHANGED starter /\ closer = "wait" /\ closer' = "reaped" /\ proc'[Root].st = "gone"
    BY <1>t, <1>5 DEF ReapRoot
  <2> QED
    BY <1>i, <2>1 DEF RootInv
<1>6. CASE ~TableActions
  <2>1. UNCHANGED proc
    BY <1>6, TableFrame
  <2>2. CASE Environment \/ Daemon
    BY <1>0, <2>1, <2>2, OutsideFrame
  <2>3. CASE StartFails
    BY <1>i, <2>1, <2>3 DEF StartFails, RootInv, Visible
  <2>4. CASE AnchorRoot \/ AnchorFails
    <3>1. starter = "anchor" /\ starter' \in {"started", "unanchored"} /\ closer' = "wait"
      BY <2>4 DEF AnchorRoot, AnchorFails
    <3> QED
      BY <1>i, <2>1, <3>1 DEF RootInv, Visible
  <2>5. CASE TrackDescendants \/ StopTracking \/ DrainStderr \/ BeginShutdown \/ Server \/ Signals
             \/ UNCHANGED vars
    BY <1>0, <2>1, <2>5 DEF TrackDescendants, StopTracking, DrainStderr, BeginShutdown, Server,
                            ServeRoot,
         registerDescendant, Respond, ServerEnds, Signals, SignalSnapshot, signalOriginalGroup,
         signalEscapedDescendants
  <2>6. CASE Escalate
    BY <1>0, <2>1, <2>6 DEF Escalate, WaitDone, SignalClosed, SignalAll, SignalAllEnds
  <2>7. CASE Reaper
    <3>1. UNCHANGED starter /\ closer \notin {"off", "wait"} /\ closer' \notin {"off", "wait"}
      BY <1>6, <2>7 DEF Reaper, TableActions, MarkRootDone, Close, JoinGoroutines, KillOwned, WaitOwned,
                        CloseEnds
    <3> QED
      BY <1>i, <2>1, <3>1 DEF RootInv
  <2> QED
    BY <1>6, <2>2, <2>3, <2>4, <2>5, <2>6, <2>7 DEF Next, TableActions, Births
<1> QED
  BY <1>1, <1>2, <1>3, <1>4, <1>5, <1>6 DEF TableActions, Births

(* The goroutines exclude each other.                                       *)
LEMMA LockStep == IInv /\ [Next]_vars => LockInv'
<1> SUFFICES ASSUME IInv, [Next]_vars PROVE LockInv'
  OBVIOUS
<1>i. LockInv /\ ThreadOK /\ SupervisorOK /\ SigOK
  BY TypeParts DEF IInv
<1>f. /\ supervisor'.rootDone = supervisor.rootDone \/ (MarkRootDone /\ supervisor'.rootDone = TRUE)
      /\ supervisor'.closed = supervisor.closed \/ (CloseEnds /\ supervisor'.closed = TRUE)
  BY <1>i, FlagSteps
<1>0. CASE UNCHANGED <<starter, tracker, server, drain, closer, escalation, operation, supervisor, sig>>
  BY <1>i, <1>0 DEF LockInv
<1>1. CASE Environment \/ Daemon
  BY <1>0, <1>1, OutsideFrame
<1>2. CASE UNCHANGED vars
  BY <1>0, <1>2
<1> USE DEF LockInv, ThreadOK, Closing
<1>3. CASE StartFails \/ StartProcess
  <2>1. /\ UNCHANGED <<closer, escalation, operation, supervisor, sig>> /\ starter = "idle"
        /\ \/ starter' = "failed" /\ UNCHANGED <<tracker, server>>
           \/ starter' = "anchor"
    BY <1>3 DEF StartFails, StartProcess
  <2> QED
    BY <1>i, <2>1
<1>4. CASE AnchorRoot \/ AnchorFails
  <2>1. /\ UNCHANGED <<tracker, server, drain, escalation, operation, sig>> /\ starter = "anchor"
        /\ starter' \in {"started", "unanchored"} /\ closer' = "wait"
        /\ ~MarkRootDone /\ ~CloseEnds
    BY <1>i, <1>4 DEF AnchorRoot, AnchorFails, MarkRootDone, CloseEnds
  <2>2. supervisor'.rootDone = supervisor.rootDone /\ supervisor'.closed = supervisor.closed
    BY <1>f, <2>1
  <2> QED
    BY <1>i, <2>1, <2>2
<1>14. CASE DrainStderr
  <2>1. /\ UNCHANGED <<starter, tracker, server, closer, escalation, operation, supervisor, sig>>
        /\ drain' = "done"
    BY <1>14 DEF DrainStderr
  <2> QED
    BY <1>i, <2>1
<1>5. CASE TrackDescendants \/ StopTracking \/ Server
  <2>1. /\ UNCHANGED <<starter, drain, closer, escalation, operation, sig>>
        /\ UNCHANGED tracker \/ (tracker = "running" /\ tracker' = "done")
        /\ UNCHANGED server \/ server \in {"reading", "accept", "reject"}
    BY <1>5 DEF TrackDescendants, StopTracking, Server, ServeRoot, registerDescendant, Respond,
                ServerEnds
  <2>2. supervisor'.rootDone = supervisor.rootDone /\ supervisor'.closed = supervisor.closed
    <3>1. closer' # closer \/ (~MarkRootDone /\ ~CloseEnds)
      BY DEF MarkRootDone, CloseEnds
    <3> QED
      BY <1>f, <2>1, <3>1
  <2> QED
    BY <1>i, <2>1, <2>2
<1>6. CASE Signals
  <2>1. /\ UNCHANGED <<starter, tracker, server, drain, closer, escalation, operation>> /\ sig.step # "idle"
    BY <1>6 DEF Signals, SignalSnapshot, signalOriginalGroup, signalEscapedDescendants
  <2>2. supervisor'.rootDone = supervisor.rootDone /\ supervisor'.closed = supervisor.closed
    <3>1. closer' # closer \/ (~MarkRootDone /\ ~CloseEnds)
      BY DEF MarkRootDone, CloseEnds
    <3> QED
      BY <1>f, <2>1, <3>1
  <2> QED
    BY <1>i, <2>1, <2>2
<1>7. CASE BeginShutdown \/ WaitDone \/ SignalClosed
  <2>1. UNCHANGED <<starter, tracker, server, drain, closer, operation, supervisor, sig>>
    BY <1>7 DEF BeginShutdown, WaitDone, SignalClosed
  <2>2. /\ escalation \notin {"terminating", "killing"} /\ escalation' \notin {"terminating", "killing"}
        /\ closer # "off"
    BY <1>i, <1>7 DEF BeginShutdown, WaitDone, SignalClosed, AfterSignal
  <2> QED
    BY <1>i, <2>1, <2>2
<1>8. CASE SignalAll
  <2>1. /\ UNCHANGED <<starter, tracker, server, drain, closer>> /\ escalation \in {"terminate", "kill"}
        /\ operation = "free" /\ ~supervisor.closed /\ operation' = "escalate"
        /\ escalation' \in {"terminating", "killing"}
    BY <1>8 DEF SignalAll
  <2>2. supervisor'.rootDone = supervisor.rootDone /\ supervisor'.closed = supervisor.closed
    <3>1. closer' # closer \/ (~MarkRootDone /\ ~CloseEnds)
      BY DEF MarkRootDone, CloseEnds
    <3> QED
      BY <1>f, <2>1, <3>1
  <2> QED
    BY <1>i, <2>1, <2>2
<1>9. CASE SignalAllEnds
  <2>1. /\ UNCHANGED <<starter, tracker, server, drain, closer, supervisor>> /\ operation = "escalate"
        /\ operation' = "free" /\ sig'.step = "idle" /\ escalation' \notin {"terminating", "killing"}
    BY <1>9 DEF SignalAllEnds, AfterSignal, NoSignal
  <2> QED
    BY <1>i, <2>1
<1>10. CASE ReapRoot \/ MarkRootDone
  <2>1. /\ UNCHANGED <<starter, tracker, server, drain, escalation, operation, sig>>
        /\ \/ closer = "wait" /\ closer' = "reaped" /\ UNCHANGED supervisor
           \/ closer = "reaped" /\ closer' = "close" /\ supervisor' = [supervisor EXCEPT !.rootDone = TRUE]
    BY <1>10 DEF ReapRoot, MarkRootDone
  <2> QED
    BY <1>i, <2>1 DEF SupervisorOK
<1>11. CASE Close \/ JoinGoroutines
  <2>1. /\ UNCHANGED <<starter, tracker, server, drain, escalation, sig, supervisor>>
        /\ \/ closer = "close" /\ closer' = "join" /\ operation = "free" /\ operation' = "close"
           \/ /\ closer = "join" /\ closer' = "kill" /\ UNCHANGED operation
              /\ tracker = "done" /\ server = "done"
    BY <1>11 DEF Close, JoinGoroutines
  <2> QED
    BY <1>i, <2>1
<1>12. CASE KillOwned \/ WaitOwned
  <2>1. /\ UNCHANGED <<starter, tracker, server, drain, escalation, operation>>
        /\ \/ closer = "kill" /\ closer' = "killing"
           \/ closer = "killing" /\ closer' \in {"kill", "finish"} /\ sig'.step = "idle"
    BY <1>12 DEF KillOwned, WaitOwned, NoSignal
  <2>2. supervisor'.rootDone = supervisor.rootDone /\ supervisor'.closed = supervisor.closed
    <3>1. closer \notin {"kill", "killing"} \/ (~MarkRootDone /\ ~CloseEnds)
      BY DEF MarkRootDone, CloseEnds
    <3> QED
      BY <1>f, <2>1, <3>1
  <2> QED
    BY <1>i, <2>1, <2>2
<1>13. CASE CloseEnds
  <2>1. /\ drain = "done"
        /\ UNCHANGED <<starter, tracker, server, drain, escalation, sig>> /\ closer = "finish"
        /\ closer' = "done" /\ operation' = "free" /\ supervisor' = [supervisor EXCEPT !.closed = TRUE]
    BY <1>13 DEF CloseEnds
  <2> QED
    BY <1>i, <2>1 DEF SupervisorOK
<1> QED
  BY <1>1, <1>2, <1>3, <1>4, <1>5, <1>6, <1>7, <1>8, <1>9, <1>10, <1>11, <1>12, <1>13, <1>14
  DEF Next, Escalate, Reaper

-----------------------------------------------------------------------------
(* The supervisor looks for processes only once it launched the root, and   *)
(* not any more when Close has finished killing.                            *)
LEMMA DiscoveryThread ==
    ASSUME IInv, NEW listed, Discovery(listed)
    PROVE  /\ starter \notin {"idle", "failed"} /\ closer \notin {"finish", "done"}
           /\ starter' = starter \/ AnchorRoot \/ AnchorFails
           /\ UNCHANGED proc
           /\ listed \in SUBSET Visible
<1>i. ThreadOK /\ LockInv /\ faults \in 0 .. MaxFaults
  BY TypeParts DEF IInv, TypeOK
<1>l. listed \in SUBSET Visible
  BY <1>i, ListingFacts DEF Discovery
<1>1. CASE AnchorRoot \/ AnchorFails
  BY <1>i, <1>l, <1>1 DEF AnchorRoot, AnchorFails, LockInv
<1>2. CASE TrackDescendants \/ registerDescendant
  BY <1>i, <1>l, <1>2 DEF TrackDescendants, registerDescendant, LockInv
<1>3. CASE SignalSnapshot
  BY <1>i, <1>l, <1>3 DEF SignalSnapshot, LockInv, Closing, ThreadOK
<1>4. CASE SignalAll
  BY <1>i, <1>l, <1>4 DEF SignalAll, LockInv, Closing, ThreadOK
<1>5. CASE KillOwned
  BY <1>i, <1>l, <1>5 DEF KillOwned, LockInv, ThreadOK
<1> QED
  BY <1>1, <1>2, <1>3, <1>4, <1>5 DEF Discovery

(* Who is anchored: the root while it is there, later whoever has its PID.  *)
LEMMA AnchorFacts ==
    ASSUME IInv, starter \notin {"idle", "failed"}, NEW listed \in SUBSET Visible
    PROVE  /\ starter = "started" => AnchoredRoot(listed) = Root
           /\ \/ AnchoredRoot(listed) = NoProc /\ supervisor.root = NoProc
              \/ AnchoredRoot(listed) = Root
              \/ /\ AnchoredRoot(listed) = Other /\ starter = "unanchored"
                 /\ proc[Other].st # "absent" /\ proc[Other].pid = RootPID
<1>t. proc \in [Procs -> Record] /\ ThreadOK
  BY TypeParts DEF IInv
<1>1. CASE supervisor.root # NoProc
  BY <1>t, <1>1 DEF AnchoredRoot, IInv, AnchorInv
<1>2. CASE supervisor.root = NoProc /\ (supervisor.rootDone \/ At(listed, RootPID) = {})
  <2>1. AnchoredRoot(listed) = NoProc
    BY <1>2 DEF AnchoredRoot
  <2>2. starter # "started"
    BY <1>2 DEF IInv, AnchorInv
  <2> QED
    BY <1>2, <2>1, <2>2
<1>3. CASE supervisor.root = NoProc /\ ~supervisor.rootDone /\ At(listed, RootPID) # {}
  <2>1. AnchoredRoot(listed) \in At(listed, RootPID)
    BY <1>3 DEF AnchoredRoot
  <2>2. /\ AnchoredRoot(listed) \in Procs /\ proc[AnchoredRoot(listed)].pid = RootPID
        /\ proc[AnchoredRoot(listed)].st # "absent"
    BY <2>1 DEF At, Visible
  <2>3. AnchoredRoot(listed) \in {Root, Other}
    BY <1>t, <2>2, PIDFacts DEF IInv, Ours
  <2>5. starter # "started"
    BY <1>3 DEF IInv, AnchorInv
  <2>4. ASSUME AnchoredRoot(listed) = Other PROVE starter = "unanchored"
    <3>1. PICK q \in Ours : proc[q].st = "gone" /\ proc[q].pid = RootPID
      BY <2>2, <2>4 DEF IInv, OtherInv
    <3>2. proc[Root].st = "gone"
      BY <1>t, <3>1, PIDFacts DEF IInv
    <3>3. starter # "anchor"
      BY <3>2 DEF IInv, RootInv, LockInv, Visible
    <3> QED
      BY <1>t, <2>5, <3>3 DEF ThreadOK
  <2> QED
    BY <2>2, <2>3, <2>4, <2>5
<1> QED
  BY <1>1, <1>2, <1>3

(* A discovery finds descendants that are listed and keeps the known ones   *)
(* that are; a process with the PID of the child is the child.              *)
LEMMA DiscoveryFacts ==
    ASSUME IInv, starter \notin {"idle", "failed"}, NEW listed \in SUBSET Visible
    PROVE  /\ DiscoveredChildren(listed) \subseteq Descendants \cap listed
           /\ supervisor.children \cap listed \subseteq DiscoveredChildren(listed)
           /\ AnchoredRoot(listed) = NoProc => DiscoveredChildren(listed) = {}
           /\ (\E p \in Owned(listed) : proc[p].pid = ChildPID) => Child \in DiscoveredChildren(listed)
<1>t. proc \in [Procs -> Record]
  BY DEF IInv, TypeOK
<1>v. listed \in SUBSET Procs /\ \A p \in listed : p \in Visible
  BY DEF Visible
<1>a. \/ AnchoredRoot(listed) = NoProc /\ supervisor.root = NoProc
      \/ AnchoredRoot(listed) = Root
      \/ /\ AnchoredRoot(listed) = Other /\ proc[Other].st # "absent" /\ proc[Other].pid = RootPID
  BY AnchorFacts
<1>c. supervisor.children \subseteq Descendants
  BY DEF IInv, ChildrenInv
<1> DEFINE base == OwnedBase(listed)
           root == AnchoredRoot(listed)
           found == Owned(listed)
<1>1. base \in SUBSET Procs /\ found = DescendantsOf(base, listed)
  BY <1>v DEF OwnedBase, Owned
<1>2. /\ base = (supervisor.children \cup {root}) \cap listed
      /\ DiscoveredChildren(listed) = found \ {root}
  BY DEF OwnedBase, DiscoveredChildren
<1> HIDE DEF base, root, found
<1>b. \/ root = NoProc /\ supervisor.root = NoProc
      \/ root = Root
      \/ root = Other /\ proc[Other].st # "absent" /\ proc[Other].pid = RootPID
  BY <1>a DEF root
<1>3. /\ found \subseteq listed /\ base \subseteq found
      /\ \A S \in SUBSET Procs : base \subseteq S /\ ClosedUnderFork(S, listed) => found \subseteq S
  BY <1>v, <1>1, <1>2, DescendantsFacts
<1>4. supervisor.children \cap listed \subseteq DiscoveredChildren(listed)
  BY <1>b, <1>c, <1>2, <1>3
<1>5. ASSUME root = NoProc PROVE DiscoveredChildren(listed) = {}
  <2>1. supervisor.children = {}
    BY <1>b, <1>5 DEF IInv, ChildrenInv
  <2>2. base = {}
    BY <1>v, <1>2, <1>5, <2>1
  <2>3. {} \in SUBSET Procs /\ base \subseteq {} /\ ClosedUnderFork({}, listed)
    BY <2>2 DEF ClosedUnderFork
  <2>4. found \subseteq {}
    BY <1>3, <2>3
  <2> QED
    BY <1>2, <2>4
<1>6. DiscoveredChildren(listed) \subseteq Descendants
  <2>1. CASE root = Root
    <3>1. base \subseteq Ours
      BY <1>c, <1>2, <2>1 DEF Ours
    <3>2. ClosedUnderFork(Ours, listed)
      <4> SUFFICES ASSUME NEW p \in listed, NEW q \in Ours, proc[p].ppid = proc[q].pid, p \notin Ours
                   PROVE  FALSE
        BY DEF ClosedUnderFork
      <4>1. p = Other /\ proc[Other].st # "absent"
        BY <1>v DEF Visible, Ours
      <4>2. proc[Other].ppid = InitPID
        BY <4>1 DEF IInv, OtherInv
      <4> QED
        BY <1>t, <4>1, <4>2, PIDFacts DEF IInv
    <3>3. found \subseteq Ours
      <4>1. Ours \in SUBSET Procs
        BY DEF Ours
      <4> QED
        BY <1>3, <3>1, <3>2, <4>1
    <3> QED
      BY <1>2, <2>1, <3>3 DEF Ours
  <2>2. CASE root = Other
    <3>1. PICK q \in Ours : proc[q].st = "gone" /\ proc[q].pid = RootPID
      BY <1>b, <2>2 DEF IInv, OtherInv
    <3>2. Root \notin listed
      BY <1>t, <1>v, <3>1, PIDFacts DEF IInv, Visible
    <3> QED
      BY <1>v, <1>2, <1>3, <2>2, <3>2
  <2> QED
    BY <1>b, <1>5, <2>1, <2>2
<1>7. ASSUME NEW p \in found, proc[p].pid = ChildPID PROVE Child \in DiscoveredChildren(listed)
  <2>1. p \in Procs /\ proc[p].st # "absent"
    BY <1>v, <1>3 DEF Visible
  <2>2. p # root
    <3>1. CASE p = Root
      BY <1>t, <1>7, <2>1, <3>1, PIDFacts DEF IInv, Ours
    <3> QED
      BY <1>b, <1>7, <2>1, <3>1
  <2>3. p \in Descendants
    BY <1>2, <1>6, <2>2
  <2>4. p = Child
    BY <1>t, <1>7, <2>1, <2>3, PIDFacts DEF IInv, Ours
  <2> QED
    BY <1>2, <2>2, <2>4
<1>8. DiscoveredChildren(listed) \subseteq Descendants \cap listed
  BY <1>2, <1>3, <1>6
<1> QED
  BY <1>4, <1>5, <1>7, <1>8 DEF root, found

(* What a discovery leaves behind.                                          *)
LEMMA DiscoveryStep ==
    ASSUME IInv, NEW listed, Discovery(listed)
    PROVE  /\ supervisor'.root = AnchoredRoot(listed)
           /\ supervisor'.children = DiscoveredChildren(listed)
           /\ known' = known \cup DiscoveredChildren(listed)
           /\ omitted' = (omitted \cup (known \cap (Visible \ listed))) \ DiscoveredChildren(listed)
           /\ UNCHANGED proc
<1>1. SupervisorOK
  BY TypeParts DEF IInv
<1>2. supervisor'.root = AnchoredRoot(listed) /\ supervisor'.children = DiscoveredChildren(listed)
  BY <1>1 DEF Discovery, Discover, SupervisorOK
<1> QED
  BY <1>2, DiscoveryThread DEF Discovery, Discover

(* Nothing that was ever owned is forgotten.                                *)
LEMMA KnownStep == ASSUME IInv, [Next]_vars PROVE known \subseteq known'
<1>1. SupervisorOK
  BY TypeParts DEF IInv
<1>2. CASE Discovers
  <2>1. PICK listed : Discovery(listed)
    BY <1>2 DEF Discovers
  <2> QED
    BY <2>1, DiscoveryStep
<1>3. CASE ~Discovers
  BY <1>1, <1>3, UndiscoveredStep
<1> QED
  BY <1>2, <1>3

(* The root is anchored once; a late anchor only after a recorded failure.  *)
LEMMA AnchorStep == IInv /\ [Next]_vars => AnchorInv'
<1> SUFFICES ASSUME IInv, [Next]_vars PROVE AnchorInv'
  OBVIOUS
<1>t. SupervisorOK /\ ThreadOK
  BY TypeParts DEF IInv
<1>i. AnchorInv
  BY DEF IInv
<1>h. /\ history \subseteq history'
      /\ proc[Other].st # "absent" => proc'[Other].st # "absent" /\ proc'[Other].pid = proc[Other].pid
  BY HistoryStep, History
<1>1. CASE Discovers
  <2>0. PICK listed : Discovery(listed)
    BY <1>1 DEF Discovers
  <2>1. /\ starter \notin {"idle", "failed"} /\ (starter' = starter \/ AnchorRoot \/ AnchorFails)
        /\ listed \in SUBSET Visible
    BY <2>0, DiscoveryThread
  <2>2. /\ starter = "started" => AnchoredRoot(listed) = Root
        /\ \/ AnchoredRoot(listed) \in {NoProc, Root}
           \/ /\ AnchoredRoot(listed) = Other /\ starter = "unanchored"
              /\ proc[Other].st # "absent" /\ proc[Other].pid = RootPID
    BY <2>1, AnchorFacts
  <2>3. supervisor'.root = AnchoredRoot(listed)
    BY <2>0, DiscoveryStep
  <2>4. CASE starter' = starter
    BY <1>h, <1>i, <2>1, <2>2, <2>3, <2>4 DEF AnchorInv
  <2>5. CASE AnchorRoot
    <3>1. starter = "anchor" /\ starter' = "started"
      BY <2>5 DEF AnchorRoot
    <3>2. supervisor'.root # NoProc
      BY <1>t, <2>5 DEF AnchorRoot, Discover, SupervisorOK
    <3> QED
      BY <2>2, <2>3, <3>1, <3>2 DEF AnchorInv
  <2>6. CASE AnchorFails
    <3>1. starter = "anchor" /\ starter' = "unanchored" /\ "anchor" \in history'
      BY <2>6 DEF AnchorFails
    <3> QED
      BY <2>2, <2>3, <3>1 DEF AnchorInv
  <2> QED
    BY <2>1, <2>4, <2>5, <2>6
<1>2. CASE ~Discovers
  <2>1. supervisor'.root = supervisor.root
    BY <1>t, <1>2, UndiscoveredStep
  <2>2. CASE UNCHANGED starter
    BY <1>h, <1>i, <2>1, <2>2 DEF AnchorInv
  <2>3. CASE Environment \/ Daemon
    BY <2>2, <2>3, OutsideFrame
  <2>4. CASE StartFails \/ StartProcess
    <3>1. starter = "idle" /\ starter' \in {"failed", "anchor"}
      BY <2>4 DEF StartFails, StartProcess
    <3> QED
      BY <1>i, <2>1, <3>1 DEF AnchorInv
  <2>5. CASE AnchorRoot
    BY <1>2, <2>5 DEF Discovers, Discovery, AnchorRoot
  <2>6. CASE AnchorFails
    <3>1. starter = "anchor" /\ starter' = "unanchored" /\ "anchor" \in history'
      BY <2>6 DEF AnchorFails
    <3> QED
      BY <1>i, <2>1, <3>1 DEF AnchorInv
  <2>7. CASE TrackDescendants \/ StopTracking \/ DrainStderr \/ BeginShutdown \/ Server \/ Signals
             \/ UNCHANGED vars
    BY <2>2, <2>7 DEF TrackDescendants, StopTracking, DrainStderr, BeginShutdown, Server, ServeRoot,
         registerDescendant, Respond, ServerEnds, Signals, SignalSnapshot, signalOriginalGroup,
         signalEscapedDescendants
  <2>8. CASE Escalate
    BY <2>2, <2>8 DEF Escalate, WaitDone, SignalClosed, SignalAll, SignalAllEnds
  <2>9. CASE Reaper
    BY <2>2, <2>9 DEF Reaper, ReapRoot, MarkRootDone, Close, JoinGoroutines, KillOwned, WaitOwned,
                      CloseEnds
  <2> QED
    BY <2>3, <2>4, <2>5, <2>6, <2>7, <2>8, <2>9 DEF Next
<1> QED
  BY <1>1, <1>2

(* No descendant is dropped that is in the process table and listed.        *)
LEMMA ChildrenStep == IInv /\ [Next]_vars => ChildrenInv'
<1> SUFFICES ASSUME IInv, [Next]_vars PROVE ChildrenInv'
  OBVIOUS
<1>h. \A q \in Procs : /\ proc[q].st = "gone" => proc'[q].st = "gone"
                       /\ proc[q].st # "absent" => proc'[q].st # "absent"
  BY History
<1>1. CASE Discovers
  <2>0. PICK listed : Discovery(listed)
    BY <1>1 DEF Discovers
  <2>1. /\ supervisor'.root = AnchoredRoot(listed)
        /\ supervisor'.children = DiscoveredChildren(listed)
        /\ known' = known \cup DiscoveredChildren(listed)
        /\ omitted' = (omitted \cup (known \cap (Visible \ listed))) \ DiscoveredChildren(listed)
        /\ UNCHANGED proc
    BY <2>0, DiscoveryStep
  <2>2. starter \notin {"idle", "failed"} /\ listed \in SUBSET Visible
    BY <2>0, DiscoveryThread
  <2>3. /\ DiscoveredChildren(listed) \subseteq Descendants \cap listed
        /\ supervisor.children \cap listed \subseteq DiscoveredChildren(listed)
        /\ AnchoredRoot(listed) = NoProc => DiscoveredChildren(listed) = {}
        /\ AnchoredRoot(listed) = NoProc => supervisor.root = NoProc
    BY <2>2, DiscoveryFacts, AnchorFacts
  <2>4. ASSUME NEW p \in known'
        PROVE  /\ p \in Descendants /\ proc'[p].st # "absent"
               /\ p \in supervisor'.children \/ proc'[p].st = "gone" \/ p \in omitted'
    <3>1. CASE p \in DiscoveredChildren(listed)
      BY <2>1, <2>2, <2>3, <3>1 DEF Visible
    <3>2. CASE p \in known /\ p \notin DiscoveredChildren(listed)
      <4>1. /\ p \in Descendants /\ proc[p].st # "absent"
            /\ p \in supervisor.children \/ proc[p].st = "gone" \/ p \in omitted
        BY <3>2 DEF IInv, ChildrenInv
      <4>2. p \notin supervisor.children \/ p \notin listed
        BY <2>3, <3>2
      <4>3. proc[p].st \in {"absent", "running", "zombie", "gone"}
        BY <4>1 DEF IInv, TypeOK
      <4>4. p \in omitted \/ (p \in Visible /\ p \notin listed) => p \in omitted'
        BY <2>1, <3>2
      <4>5. p \notin Visible => proc[p].st = "gone"
        BY <4>1, <4>3 DEF Visible
      <4> QED
        BY <2>1, <4>1, <4>2, <4>4, <4>5
    <3> QED
      BY <2>1, <2>4, <3>1, <3>2
  <2>5. supervisor'.root = NoProc => known' = {}
    BY <2>1, <2>3 DEF IInv, ChildrenInv
  <2> QED
    BY <2>1, <2>4, <2>5 DEF ChildrenInv
<1>2. CASE ~Discovers
  <2>1. /\ supervisor'.root = supervisor.root /\ supervisor'.children = supervisor.children
        /\ known' = known /\ omitted' = omitted
    BY <1>2, UndiscoveredStep, TypeParts DEF IInv
  <2> QED
    BY <1>h, <2>1 DEF IInv, ChildrenInv
<1> QED
  BY <1>1, <1>2

-----------------------------------------------------------------------------
(* The gated child is born by the launcher.                                 *)
LEMMA ChildBirth ==
    ASSUME IInv, [Next]_vars, ~StartDescendant, proc[Child].st = "absent"
    PROVE  proc'[Child].st = "absent"
<1>t. proc \in [Procs -> Record]
  BY DEF IInv, TypeOK
<1>1. CASE ~TableActions
  BY <1>1, TableFrame
<1>2. CASE Deaths
  BY <1>t, <1>2, DeathFacts DEF IInv
<1>3. CASE (\E p \in Procs : Fork(p)) \/ StartProcess \/ (\E pid \in ReusedPIDs : Reuse(pid))
  BY <1>t, <1>3 DEF Fork, StartProcess, Reuse
<1>4. CASE Detach \/ Reap \/ ReapRoot
  BY <1>t, <1>4 DEF Detach, Reap, ReapRoot
<1> QED
  BY <1>1, <1>2, <1>3, <1>4 DEF TableActions, Births

(* One exchange at a time is on the registry.                               *)
LEMMA ExchangeStep == IInv /\ [Next]_vars => ExchangeInv'
<1> SUFFICES ASSUME IInv, [Next]_vars PROVE ExchangeInv'
  OBVIOUS
<1>i. ExchangeInv /\ WireOK /\ DaemonOK
  BY TypeParts DEF IInv
<1> USE DEF ExchangeInv, Answering
<1>0. CASE UNCHANGED <<launcher, wire, server>>
  BY <1>i, <1>0
<1>1. CASE Environment
  <2>1. UNCHANGED <<wire, server>>
    BY <1>1 DEF Environment, Exit, Fork, Detach, Reap, Reuse
  <2>2. UNCHANGED launcher \/ (launcher \in {"serving", "joining"} /\ launcher' = "serving")
    BY <1>1 DEF Environment, Exit, Fork, Detach, Reap, Reuse
  <2> QED
    BY <1>i, <2>1, <2>2
<1>2. CASE AdoptRegistry \/ RegisterDescendant
  <2>1. PICK n \in {RootPID, ChildPID} :
          /\ wire' = [wire EXCEPT !.request = n] /\ UNCHANGED server
          /\ \/ n = RootPID /\ launcher = "adopt" /\ launcher' = "adopting"
             \/ n = ChildPID /\ launcher = "launching" /\ launcher' = "registering"
    BY <1>2 DEF AdoptRegistry, RegisterDescendant, exchange
  <2>2. wire'.request = n /\ wire'.response = wire.response
    BY <1>i, <2>1 DEF WireOK
  <2> QED
    BY <1>i, <2>1, <2>2
<1>3. CASE AdoptionEnds
  <2>1. /\ launcher = "adopting" /\ wire' = [wire EXCEPT !.response = "none"] /\ UNCHANGED server
        /\ launcher' = IF wire.response = "accept" THEN "ready" ELSE "unadopted"
    BY <1>3 DEF AdoptionEnds
  <2>2. wire'.request = wire.request /\ wire'.response = "none"
    BY <1>i, <2>1 DEF WireOK
  <2> QED
    BY <1>i, <2>1, <2>2
<1>4. CASE ReleaseDescendant
  <2>1. /\ launcher = "registering" /\ wire.response # "none" /\ UNCHANGED server
        /\ wire' = [wire EXCEPT !.response = "none"] /\ launcher' \in {"serving", "abort"}
    BY <1>4 DEF ReleaseDescendant
  <2>2. wire'.request = wire.request /\ wire'.response = "none"
    BY <1>i, <2>1 DEF WireOK
  <2> QED
    BY <1>i, <2>1, <2>2
<1>5. CASE StartDescendant \/ LaunchCanceled \/ AbortDescendant
  <2>1. /\ UNCHANGED <<wire, server>> /\ launcher \in {"ready", "launching", "abort"}
        /\ launcher' \in {"launching", "abort", "joining"}
    BY <1>5 DEF StartDescendant, LaunchCanceled, AbortDescendant
  <2> QED
    BY <1>i, <2>1
<1>6. CASE Acknowledge \/ AwaitReturns \/ AwaitFails \/ UNCHANGED vars
  BY <1>0, <1>6 DEF Acknowledge, AwaitReturns, AwaitFails
<1>7. CASE ServeRoot
  <2>1. /\ wire.request = RootPID /\ wire' = [wire EXCEPT !.request = 0] /\ UNCHANGED launcher
    BY <1>7 DEF ServeRoot
  <2>2. wire'.request = 0 /\ wire'.response = wire.response
    BY <1>i, <2>1 DEF WireOK
  <2> QED
    BY <1>i, <2>1, <2>2
<1>8. CASE registerDescendant
  <2>1. /\ wire.request = ChildPID /\ wire' = [wire EXCEPT !.request = 0] /\ UNCHANGED launcher
    BY <1>8 DEF registerDescendant
  <2>2. wire'.request = 0 /\ wire'.response = wire.response
    BY <1>i, <2>1 DEF WireOK
  <2> QED
    BY <1>i, <2>1, <2>2
<1>9. CASE Respond
  <2>1. /\ server \in {"accept", "reject"} /\ UNCHANGED launcher /\ server' \in {"reading", "done"}
        /\ UNCHANGED wire \/ wire' = [wire EXCEPT !.response = server]
    BY <1>9 DEF Respond
  <2>2. wire'.request = wire.request /\ launcher \in {"adopting", "unadopted", "registering"}
    BY <1>i, <2>1 DEF WireOK
  <2> QED
    BY <1>i, <2>1, <2>2
<1>10. CASE ServerEnds \/ StartProcess
  <2>1. UNCHANGED <<launcher, wire>> /\ server' \in {"reading", "done"}
    BY <1>10 DEF ServerEnds, StartProcess
  <2> QED
    BY <1>i, <2>1
<1>11. CASE Close
  <2>1. UNCHANGED <<launcher, server>> /\ wire' = [wire EXCEPT !.closed = TRUE]
    BY <1>11 DEF Close
  <2>2. wire'.request = wire.request /\ wire'.response = wire.response
    BY <1>i, <2>1 DEF WireOK
  <2> QED
    BY <1>i, <2>1, <2>2
<1>12. CASE StartFails \/ AnchorRoot \/ AnchorFails \/ TrackDescendants \/ StopTracking
            \/ DrainStderr \/ BeginShutdown
  BY <1>0, <1>12 DEF StartFails, AnchorRoot, AnchorFails, TrackDescendants, StopTracking,
                     DrainStderr, BeginShutdown
<1>13. CASE Signals \/ Escalate
  BY <1>0, <1>13 DEF Signals, SignalSnapshot, signalOriginalGroup, signalEscapedDescendants, Escalate,
                     WaitDone, SignalClosed, SignalAll, SignalAllEnds
<1>14. CASE Reaper /\ ~Close
  BY <1>0, <1>14 DEF Reaper, ReapRoot, MarkRootDone, JoinGoroutines, KillOwned, WaitOwned, CloseEnds
<1> QED
  BY <1>1, <1>2, <1>3, <1>4, <1>5, <1>6, <1>7, <1>8, <1>9, <1>10, <1>11, <1>12, <1>13, <1>14
  DEF Next, Daemon, Server

(* The launcher starts the child once.                                      *)
LEMMA BirthStep == IInv /\ [Next]_vars => BirthInv'
<1> SUFFICES ASSUME IInv, [Next]_vars PROVE BirthInv'
  OBVIOUS
<1> DEFINE Before == {"adopt", "adopting", "unadopted", "ready"}
<1>1. launcher' \in Before => launcher \in Before /\ ~StartDescendant
  <2>1. CASE Environment
    BY <2>1 DEF Environment, Exit, Fork, Detach, Reap, Reuse, StartDescendant
  <2>2. CASE Daemon
    BY <2>2 DEF Daemon, AdoptRegistry, exchange, AdoptionEnds, StartDescendant, RegisterDescendant,
         ReleaseDescendant, LaunchCanceled, AbortDescendant, Acknowledge, AwaitReturns, AwaitFails
  <2>3. CASE ~(Environment \/ Daemon)
    BY <2>3, InsideFrame DEF StartDescendant
  <2> QED
    BY <2>1, <2>2, <2>3
<1>2. launcher' \in Before => proc'[Child].st = "absent"
  BY <1>1, ChildBirth DEF IInv, BirthInv
<1> QED
  BY <1>2 DEF BirthInv

(* An accepted registration made the child known before it was answered.    *)
LEMMA GateStep == IInv /\ [Next]_vars => GateInv'
<1> SUFFICES ASSUME IInv, [Next]_vars PROVE GateInv'
  OBVIOUS
<1>i. GateInv /\ ExchangeInv /\ WireOK /\ DaemonOK
  BY TypeParts DEF IInv
<1>k. Child \in known => Child \in known'
  BY KnownStep
<1> USE DEF GateInv
<1>0. CASE UNCHANGED <<launcher, wire, server, gate, working>>
  BY <1>i, <1>k, <1>0
<1>1. CASE Environment
  <2>1. UNCHANGED <<wire, server, gate, working>>
    BY <1>1 DEF Environment, Exit, Fork, Detach, Reap, Reuse
  <2>2. UNCHANGED launcher \/ launcher' = "serving"
    BY <1>1 DEF Environment, Exit, Fork, Detach, Reap, Reuse
  <2> QED
    BY <1>i, <1>k, <2>1, <2>2
<1>2. CASE AdoptRegistry \/ AdoptionEnds \/ StartDescendant \/ LaunchCanceled \/ AbortDescendant
  <2>1. /\ launcher' # "registering" /\ gate' \in {gate, "await", "closed"} /\ UNCHANGED working
    BY <1>2 DEF AdoptRegistry, exchange, AdoptionEnds, StartDescendant, LaunchCanceled, AbortDescendant
  <2> QED
    BY <1>i, <1>k, <2>1
<1>3. CASE RegisterDescendant
  <2>1. /\ launcher = "launching" /\ UNCHANGED <<server, gate, working>>
        /\ wire' = [wire EXCEPT !.request = ChildPID]
    BY <1>3 DEF RegisterDescendant, exchange
  <2>2. wire'.response = "none" /\ server # "accept"
    BY <1>i, <2>1 DEF WireOK, ExchangeInv, Answering
  <2> QED
    BY <1>i, <1>k, <2>1, <2>2
<1>4. CASE ReleaseDescendant
  <2>1. /\ launcher = "registering" /\ launcher' \in {"serving", "abort"} /\ UNCHANGED working
        /\ UNCHANGED gate \/ wire.response = "accept"
    BY <1>4 DEF ReleaseDescendant
  <2> QED
    BY <1>i, <1>k, <2>1
<1>5. CASE Acknowledge \/ AwaitReturns
  <2>1. /\ UNCHANGED <<launcher, wire, server>>
        /\ \/ gate' = "acknowledged" /\ UNCHANGED working
           \/ gate = "released" /\ UNCHANGED gate
    BY <1>5 DEF Acknowledge, AwaitReturns
  <2> QED
    BY <1>i, <1>k, <2>1
<1>6. CASE AwaitFails \/ UNCHANGED vars
  BY <1>0, <1>6 DEF AwaitFails
<1>7. CASE ServeRoot
  <2>1. wire.request = RootPID /\ UNCHANGED <<launcher, gate, working>>
    BY <1>7 DEF ServeRoot
  <2>2. launcher # "registering"
    BY <1>i, <2>1 DEF ExchangeInv
  <2> QED
    BY <1>i, <1>k, <2>1, <2>2
<1>8. CASE registerDescendant
  <2>1. /\ UNCHANGED <<launcher, gate, working>> /\ wire' = [wire EXCEPT !.request = 0]
        /\ wire.request = ChildPID
    BY <1>8 DEF registerDescendant
  <2>2. wire'.response = "none"
    BY <1>i, <2>1 DEF WireOK, ExchangeInv
  <2>3. ASSUME server' = "accept" PROVE Child \in known'
    <3>1. PICK listed : Discovery(listed) /\ \E p \in Owned(listed) : proc[p].pid = ChildPID
      BY <1>8, <2>3 DEF registerDescendant, Discovery
    <3>2. starter \notin {"idle", "failed"} /\ listed \in SUBSET Visible
      BY <3>1, DiscoveryThread
    <3>3. Child \in DiscoveredChildren(listed)
      BY <3>1, <3>2, DiscoveryFacts
    <3> QED
      BY <3>1, <3>3, DiscoveryStep
  <2> QED
    BY <1>i, <1>k, <2>1, <2>2, <2>3
<1>9. CASE Respond
  <2>1. /\ UNCHANGED <<launcher, gate, working>> /\ server' \in {"reading", "done"}
        /\ UNCHANGED wire \/ wire' = [wire EXCEPT !.response = server]
    BY <1>9 DEF Respond
  <2>2. wire'.response \in {wire.response, server}
    BY <1>i, <2>1 DEF WireOK
  <2> QED
    BY <1>i, <1>k, <2>1, <2>2
<1>10. CASE ServerEnds \/ StartProcess
  <2>1. UNCHANGED <<launcher, wire, gate, working>> /\ server' \in {"reading", "done"}
    BY <1>10 DEF ServerEnds, StartProcess
  <2> QED
    BY <1>i, <1>k, <2>1
<1>11. CASE Close
  <2>1. UNCHANGED <<launcher, server, gate, working>> /\ wire' = [wire EXCEPT !.closed = TRUE]
    BY <1>11 DEF Close
  <2>2. wire'.response = wire.response
    BY <1>i, <2>1 DEF WireOK
  <2> QED
    BY <1>i, <1>k, <2>1, <2>2
<1>12. CASE StartFails \/ AnchorRoot \/ AnchorFails \/ TrackDescendants \/ StopTracking
            \/ DrainStderr \/ BeginShutdown
  BY <1>0, <1>12 DEF StartFails, AnchorRoot, AnchorFails, TrackDescendants, StopTracking,
                     DrainStderr, BeginShutdown
<1>13. CASE Signals \/ Escalate
  BY <1>0, <1>13 DEF Signals, SignalSnapshot, signalOriginalGroup, signalEscapedDescendants, Escalate,
                     WaitDone, SignalClosed, SignalAll, SignalAllEnds
<1>14. CASE Reaper /\ ~Close
  BY <1>0, <1>14 DEF Reaper, ReapRoot, MarkRootDone, JoinGoroutines, KillOwned, WaitOwned, CloseEnds
<1> QED
  BY <1>1, <1>2, <1>3, <1>4, <1>5, <1>6, <1>7, <1>8, <1>9, <1>10, <1>11, <1>12, <1>13, <1>14
  DEF Next, Daemon, Server

-----------------------------------------------------------------------------
(* The steps with which Close gets to its end.                              *)
LEMMA FinishSteps ==
    ASSUME [Next]_vars, closer' \in {"finish", "done"}
    PROVE  \/ UNCHANGED closer
           \/ WaitOwned /\ closer' = "finish"
           \/ CloseEnds /\ closer = "finish" /\ closer' = "done"
<1>1. CASE Environment \/ Daemon
  BY <1>1, OutsideFrame
<1>2. CASE StartFails \/ StartProcess \/ AnchorRoot \/ AnchorFails \/ TrackDescendants \/ StopTracking
           \/ DrainStderr \/ BeginShutdown \/ UNCHANGED vars
  BY <1>2 DEF StartFails, StartProcess, AnchorRoot, AnchorFails, TrackDescendants, StopTracking,
              DrainStderr,
              BeginShutdown
<1>3. CASE Server
  BY <1>3 DEF Server, ServeRoot, registerDescendant, Respond, ServerEnds
<1>4. CASE Signals \/ Escalate
  BY <1>4 DEF Signals, SignalSnapshot, signalOriginalGroup, signalEscapedDescendants, Escalate,
              WaitDone,
              SignalClosed, SignalAll, SignalAllEnds
<1>5. CASE Reaper
  BY <1>5 DEF Reaper, ReapRoot, MarkRootDone, Close, JoinGoroutines, KillOwned, WaitOwned, CloseEnds
<1> QED
  BY <1>1, <1>2, <1>3, <1>4, <1>5 DEF Next

(* Close finishes with nothing owned or a timeout, and nothing is recorded  *)
(* after it published its failures.                                         *)
LEMMA ReportStep == IInv /\ [Next]_vars => ReportInv'
<1> SUFFICES ASSUME IInv, [Next]_vars PROVE ReportInv'
  OBVIOUS
<1>i. ReportInv /\ LockInv /\ SupervisorOK
  BY TypeParts DEF IInv
<1>1. ASSUME closer' \in {"finish", "done"}
      PROVE  supervisor'.children = {} \/ "timeout" \in history'
  <2>1. CASE closer \in {"finish", "done"}
    <3>1. ~Discovers
      BY <2>1, DiscoveryThread DEF Discovers
    <3>2. supervisor'.children = supervisor.children /\ history \subseteq history'
      BY <1>i, <3>1, UndiscoveredStep, HistoryStep
    <3> QED
      BY <1>i, <2>1, <3>2 DEF ReportInv
  <2>2. CASE WaitOwned /\ closer' = "finish"
    <3>1. UNCHANGED supervisor /\ (supervisor.children = {} \/ "timeout" \in history')
      BY <2>2 DEF WaitOwned
    <3> QED
      BY <3>1
  <2> QED
    BY <1>1, <2>1, <2>2, FinishSteps
<1>2. ASSUME closer' = "done" PROVE cleanup' = history'
  <2>1. CASE CloseEnds
    BY <2>1 DEF CloseEnds
  <2>2. CASE UNCHANGED closer /\ ~CloseEnds
    <3>1. /\ closer = "done" /\ tracker = "done" /\ server = "done" /\ drain = "done"
          /\ operation = "free"
      BY <1>2, <1>i, <2>2 DEF LockInv
    <3>2. ~StartProcess /\ ~AnchorFails
      BY <1>i, <3>1 DEF StartProcess, AnchorFails, LockInv
    <3>3. /\ ~TrackDescendants /\ ~DrainStderr /\ ~registerDescendant /\ ~Respond /\ ~ServerEnds
          /\ ~SignalAllEnds /\ ~WaitOwned
      BY <3>1 DEF TrackDescendants, DrainStderr, registerDescendant, Respond, ServerEnds, SignalAllEnds,
                  WaitOwned
    <3>4. UNCHANGED <<history, cleanup>>
      BY <2>2, <3>2, <3>3, HistoryStep
    <3> QED
      BY <1>i, <3>1, <3>4 DEF ReportInv
  <2> QED
    BY <1>2, <2>1, <2>2, FinishSteps
<1> QED
  BY <1>1, <1>2 DEF ReportInv

(* A signal addresses what its snapshot showed to be ours, and the process  *)
(* of somebody else that was there keeps its PID.                           *)
LEMMA SignalStep == IInv /\ [Next]_vars => SignalInv'
<1> SUFFICES ASSUME IInv, [Next]_vars PROVE SignalInv'
  OBVIOUS
<1>t. proc \in [Procs -> Record] /\ SigOK /\ ThreadOK
  BY TypeParts DEF IInv
<1>i. SignalInv /\ LockInv
  BY DEF IInv
<1>h. proc[Other].st # "absent" => proc'[Other].st # "absent" /\ proc'[Other].pid = proc[Other].pid
  BY History
<1>0. CASE UNCHANGED <<sig, struck, starter>>
  BY <1>i, <1>h, <1>0 DEF SignalInv
<1>1. CASE Environment \/ Daemon
  BY <1>0, <1>1, OutsideFrame
<1>2. CASE StartFails \/ StartProcess \/ AnchorRoot \/ AnchorFails
  <2>1. starter \in {"idle", "anchor"} /\ UNCHANGED <<sig, struck>>
    BY <1>2 DEF StartFails, StartProcess, AnchorRoot, AnchorFails
  <2> QED
    BY <1>i, <1>h, <2>1 DEF SignalInv
<1>3. CASE TrackDescendants \/ StopTracking \/ DrainStderr \/ BeginShutdown \/ Server \/ UNCHANGED vars
  BY <1>0, <1>3 DEF TrackDescendants, StopTracking, DrainStderr, BeginShutdown, Server, ServeRoot,
                    registerDescendant,
                    Respond, ServerEnds
<1>4. CASE WaitDone \/ SignalClosed
  BY <1>0, <1>4 DEF WaitDone, SignalClosed
<1>5. CASE ReapRoot \/ MarkRootDone \/ Close \/ JoinGoroutines \/ CloseEnds
  BY <1>0, <1>5 DEF ReapRoot, MarkRootDone, Close, JoinGoroutines, CloseEnds
<1>6. CASE SignalAll \/ KillOwned \/ SignalAllEnds \/ WaitOwned
  <2>1. UNCHANGED <<struck, starter>> /\ sig'.seen = FALSE
    <3>1. CASE SignalAll \/ KillOwned
      BY <3>1 DEF SignalAll, KillOwned, RefreshBeforeSignal, NoSignal
    <3>2. CASE SignalAllEnds \/ WaitOwned
      BY <3>2 DEF SignalAllEnds, WaitOwned, NoSignal
    <3> QED
      BY <1>6, <3>1, <3>2
  <2> QED
    BY <1>i, <2>1 DEF SignalInv
<1>7. CASE SignalSnapshot
  <2>1. UNCHANGED <<struck, starter, proc>> /\ sig.step = "snapshot" /\ ~sig.seen
    BY <1>i, <1>7 DEF SignalSnapshot, SignalInv
  <2>2. CASE sig' = [sig EXCEPT !.step = "end", !.failed = TRUE]
    <3>1. sig'.seen = sig.seen /\ sig'.step = "end"
      BY <1>t, <2>2 DEF SigOK
    <3> QED
      BY <1>i, <2>1, <3>1 DEF SignalInv
  <2>3. ASSUME NEW listed \in Listings(faults),
               sig' = [sig EXCEPT !.step = "group", !.group = GroupOwned(listed),
                                  !.pids = EscapedPIDs(listed), !.seen = (Other \in Visible)]
        PROVE  SignalInv'
    <3>l. listed \in SUBSET Visible
      BY ListingFacts DEF IInv, TypeOK
    <3>1. /\ sig'.step = "group" /\ sig'.group = GroupOwned(listed) /\ sig'.pids = EscapedPIDs(listed)
          /\ sig'.seen = (Other \in Visible)
      BY <1>t, <2>3 DEF SigOK
    <3>2. starter \notin {"idle", "failed", "anchor"}
      BY <1>i, <1>t, <2>1 DEF LockInv, Closing, ThreadOK
    <3> SUFFICES ASSUME starter # "unanchored", Other \in Visible
                 PROVE  /\ proc[Other].pid \notin EscapedPIDs(listed)
                        /\ GroupOwned(listed) => proc[Other].pid # RootPID
      BY <1>i, <2>1, <3>1 DEF SignalInv, Visible
    <3>3. AnchoredRoot(listed) = Root /\ DiscoveredChildren(listed) \subseteq Descendants \cap listed
      BY <1>t, <3>l, <3>2, AnchorFacts, DiscoveryFacts DEF ThreadOK
    <3>4. proc[Other].pid \notin EscapedPIDs(listed)
      <4> SUFFICES ASSUME NEW p \in DiscoveredChildren(listed), proc[p].pid = proc[Other].pid PROVE FALSE
        BY DEF EscapedPIDs
      <4>1. p \in Ours /\ proc[p].st # "absent" /\ proc[p].st # "gone"
        BY <3>l, <3>3 DEF Ours, Visible
      <4>2. PICK q \in Ours : proc[q].st = "gone" /\ proc[q].pid = proc[Other].pid
        BY DEF IInv, OtherInv, Visible
      <4>3. p = q
        BY <1>t, <4>1, <4>2, PIDFacts DEF IInv, Ours
      <4> QED
        BY <4>1, <4>2, <4>3
    <3>5. ASSUME GroupOwned(listed) PROVE proc[Other].pid # RootPID
      <4>1. PICK p \in DiscoveredChildren(listed) \cup (At(listed, RootPID) \cap {Root}) :
              proc[p].pgid = RootPID
        BY <3>3, <3>5 DEF GroupOwned
      <4>2. p \in Ours \cap Visible
        BY <3>l, <3>3, <4>1 DEF Ours, At
      <4> QED
        BY <4>1, <4>2 DEF IInv, OtherInv, Visible
    <3> QED
      BY <3>4, <3>5
  <2> QED
    BY <1>7, <2>2, <2>3 DEF SignalSnapshot
<1>8. CASE signalOriginalGroup
  <2>1. /\ UNCHANGED starter /\ sig.step = "group"
        /\ \/ sig' = [sig EXCEPT !.step = "escaped"]
           \/ sig' = [sig EXCEPT !.step = "escaped", !.failed = TRUE]
    BY <1>8 DEF signalOriginalGroup
  <2>2. sig'.step = "escaped" /\ sig'.group = sig.group /\ sig'.pids = sig.pids /\ sig'.seen = sig.seen
    BY <1>t, <2>1 DEF SigOK
  <2>3. ASSUME starter # "unanchored" PROVE ~struck'
    <3>1. ~struck /\ (sig.seen /\ sig.group => Other \notin Group(Visible, RootPID))
      BY <1>i, <2>3 DEF SignalInv, IInv, OtherInv, Group
    <3> QED
      BY <1>8, <3>1, Zenon DEF signalOriginalGroup, Deliver, KillFails
  <2> QED
    BY <1>i, <1>h, <2>1, <2>2, <2>3 DEF SignalInv
<1>9. ASSUME NEW pid \in PIDs, signalEscapedDescendants(pid) PROVE SignalInv'
  <2>1. /\ UNCHANGED starter /\ sig.step = "escaped" /\ pid \in sig.pids
        /\ \/ sig' = [sig EXCEPT !.pids = @ \ {pid}]
           \/ sig' = [sig EXCEPT !.pids = @ \ {pid}, !.failed = TRUE]
    BY <1>9 DEF signalEscapedDescendants
  <2>2. /\ sig'.step = "escaped" /\ sig'.group = sig.group /\ sig'.pids \subseteq sig.pids
        /\ sig'.seen = sig.seen
    BY <1>t, <2>1 DEF SigOK
  <2>3. ASSUME starter # "unanchored" PROVE ~struck'
    <3>1. ~struck /\ (sig.seen => Other \notin At(Visible, pid))
      BY <1>i, <2>1, <2>3 DEF SignalInv, At
    <3> QED
      BY <1>9, <3>1, Zenon DEF signalEscapedDescendants, Deliver, KillFails
  <2> QED
    BY <1>i, <1>h, <2>1, <2>2, <2>3 DEF SignalInv
<1> QED
  BY <1>1, <1>2, <1>3, <1>4, <1>5, <1>6, <1>7, <1>8, <1>9 DEF Next, Signals, Escalate, Reaper

-----------------------------------------------------------------------------
(* The invariant holds before the launch.                                   *)
LEMMA InitInv == Init => IInv
<1> SUFFICES ASSUME Init PROVE IInv
  OBVIOUS
<1>1. proc \in [Procs -> Record] /\ \A p \in Procs : proc[p] = NoProcess
  BY DEF Init
<1>2. SupervisorOK /\ SystemOK
  BY DEF Init, SupervisorOK, SystemOK
<1>3. SigOK /\ sig.step = "idle" /\ sig.seen = FALSE
  BY DEF Init, SigOK, NoSignal
<1>4. WireOK /\ wire.request = 0 /\ wire.response = "none"
  BY DEF Init, WireOK
<1>5. FlagsOK
  BY Zenon DEF Init, FlagsOK
<1>6. ThreadOK /\ DaemonOK /\ FailuresOK
  BY DEF Init, ThreadOK, DaemonOK, FailuresOK
<1>7. TypeOK
  BY <1>1, <1>2, <1>3, <1>4, <1>5, <1>6, TypeParts
<1>8. PIDInv /\ FamilyInv /\ OtherInv
  BY <1>1 DEF PIDInv, FamilyInv, OtherInv
<1>9. RootInv /\ LockInv
  BY <1>1, <1>3 DEF Init, RootInv, LockInv, Closing
<1>10. AnchorInv /\ ChildrenInv
  BY <1>1 DEF Init, AnchorInv, ChildrenInv
<1>11. ExchangeInv /\ BirthInv /\ GateInv
  BY <1>1, <1>4 DEF Init, ExchangeInv, BirthInv, GateInv, Answering
<1>12. ReportInv /\ SignalInv
  BY <1>3 DEF Init, ReportInv, SignalInv
<1> QED
  BY <1>7, <1>8, <1>9, <1>10, <1>11, <1>12 DEF IInv

(***************************************************************************)
(* The type, table, root, lock, anchor, children, exchange, birth, gate,   *)
(* report and signal invariants are together inductive.                    *)
(***************************************************************************)
THEOREM Inductive == Spec => []IInv
<1>1. IInv /\ [Next]_vars => IInv'
  BY TypeStep, TableStep, RootStep, LockStep, AnchorStep, ChildrenStep, ExchangeStep, BirthStep,
     GateStep, ReportStep, SignalStep
  DEF IInv
<1> QED
  BY <1>1, InitInv, PTL DEF Spec

(***************************************************************************)
(* Every variable of the managed daemon keeps its type, for every number   *)
(* of faults and every reuse of PIDs.                                      *)
(***************************************************************************)
THEOREM TypeCorrect == Spec => []TypeOK
<1>1. IInv => TypeOK
  BY DEF IInv
<1> QED
  BY <1>1, Inductive, PTL

(* A clean Wait finds every process gone that was ever owned, unless a      *)
(* snapshot left it out.                                                    *)
LEMMA CleanMeansGone == ASSUME IInv PROVE CleanWaitContains
<1> SUFFICES ASSUME WaitResult = "clean"
             PROVE  \A p \in known : proc[p].st = "gone" \/ p \in omitted
  BY DEF CleanWaitContains
<1>1. closer = "done" /\ cleanup = {}
  BY DEF WaitResult
<1>2. supervisor.children = {}
  BY <1>1 DEF IInv, ReportInv
<1> QED
  BY <1>2 DEF IInv, ChildrenInv

(***************************************************************************)
(* When Wait reports clean containment, every descendant that the          *)
(* supervisor ever discovered or registered has left the process table, or *)
(* a snapshot that succeeded left it out and none found it again.          *)
(***************************************************************************)
THEOREM WaitContains == Spec => []CleanWaitContains
<1>1. IInv => CleanWaitContains
  BY CleanMeansGone
<1> QED
  BY <1>1, Inductive, PTL

(***************************************************************************)
(* The gated child gets to user work only as an owned process, and a clean *)
(* Wait finds it gone, unless a snapshot left it out.                      *)
(***************************************************************************)
THEOREM ChildOwned == Spec => []GatedChildOwned
<1>1. IInv => GatedChildOwned
  <2> SUFFICES ASSUME IInv, working
               PROVE  /\ Child \in known
                      /\ WaitResult = "clean" => proc[Child].st = "gone" \/ Child \in omitted
    BY DEF GatedChildOwned
  <2>1. Child \in known
    BY DEF IInv, GateInv
  <2> QED
    BY <2>1, CleanMeansGone DEF CleanWaitContains
<1> QED
  BY <1>1, Inductive, PTL

(***************************************************************************)
(* Whatever PIDs and groups the system reuses, no signal of an anchored    *)
(* supervisor reaches a process of somebody else that the snapshot before  *)
(* it showed.                                                              *)
(***************************************************************************)
THEOREM ReuseSafe == Spec => []ReusedNeverSignalled
<1>1. IInv => ReusedNeverSignalled
  BY DEF IInv, SignalInv, ReusedNeverSignalled
<1> QED
  BY <1>1, Inductive, PTL

(***************************************************************************)
(* Every failure the supervisor records is in the answer of Wait: none is  *)
(* recorded after Close published them.                                    *)
(***************************************************************************)
THEOREM ReportedInTime == Spec => []NothingReportedLate
<1>1. IInv => NothingReportedLate
  BY DEF IInv, ReportInv, NothingReportedLate
<1> QED
  BY <1>1, Inductive, PTL
=============================================================================
