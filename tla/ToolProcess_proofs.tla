------------------------- MODULE ToolProcess_proofs -------------------------
(***************************************************************************)
(* Proofs about ToolProcess, for every number of failing process-table     *)
(* reads and kill calls and every set of PIDs that the system reuses: a    *)
(* clean Wait means containment and is final, and a process of somebody    *)
(* else is never signalled on stale evidence.                              *)
(***************************************************************************)
EXTENDS ToolProcess, TLAPS

Ours == {Root, Child, Stray}

(* Every process of the tool keeps the PID it was born with. *)
PIDInv ==
    /\ \A p \in Procs : proc[p].st = "absent" => proc[p].pid = SupervisorPID
    /\ proc[Root].st # "absent" => proc[Root].pid = RootPID
    /\ proc[Child].st # "absent" => proc[Child].pid = ChildPID
    /\ proc[Stray].st # "absent" => proc[Stray].pid = StrayPID

(* Parents and groups of the root and its child: the root is not            *)
(* reparented, so that only the code reaps it.                              *)
FamilyInv ==
    /\ proc[Root].st # "absent" => proc[Root].ppid = SupervisorPID /\ proc[Root].pgid = RootPID
    /\ proc[Child].st # "absent" => proc[Child].pgid = RootPID

(* The process of somebody else is a child of init in a group of its own.   *)
(* It has the PID of a process that is gone, and no process of the tool is, *)
(* or will be, in its group.                                                *)
OtherInv ==
    proc[Other].st # "absent" =>
        /\ proc[Other].ppid = InitPID /\ proc[Other].pgid = proc[Other].pid
        /\ \E p \in Ours : proc[p].st = "gone" /\ proc[p].pid = proc[Other].pid
        /\ \A p \in Ours \cap Visible : proc[p].pgid # proc[Other].pid

(* What the progress of the launch says of the root and of the goroutines.  *)
LaunchInv ==
    /\ launch \in {"idle", "refused"} => \A p \in Procs : proc[p].st = "absent"
    /\ launch # "owned" => /\ reaper = "off" /\ tracker = "off" /\ ~joined /\ ~owned.rootDone
                           /\ owned.root = NoProc /\ cleanupErr = {} /\ sig = NoSignal
    /\ launch = "anchor" => proc[Root].st # "absent"
    /\ launch = "owned" => reaper # "off"
    /\ reaper \in {"off", "wait"} /\ proc[Root].st # "absent" => Root \in Visible
    /\ reaper \in {"copy", "publish", "end"} => proc[Root].st = "gone"

(* The anchored root is the root. Without one there is no tracker, nothing  *)
(* is signalled by PID and the failure is recorded.                         *)
AnchorInv ==
    /\ owned.root \in {NoProc, Root}
    /\ tracker # "off" \/ sig.step # "idle" => owned.root = Root
    /\ launch = "owned" /\ owned.root = NoProc => "anchor" \in cleanupErr /\ tracker = "off"

(* Children are descendants of the root, and one that was ever owned is     *)
(* still owned, gone, or was left out by a snapshot.                        *)
ChildrenInv ==
    /\ owned.children \subseteq known /\ known \subseteq Descendants
    /\ owned.root = NoProc => known = {}
    /\ \A p \in known : proc[p].st # "absent"
    /\ \A p \in known : p \in owned.children \/ proc[p].st = "gone" \/ p \in omitted

(* The join comes after the root and after the tracker.                     *)
JoinInv ==
    /\ owned.rootDone <=> reaper \in {"publish", "end"}
    /\ joined => owned.rootDone /\ tracker \in {"off", "end"}
    /\ joined /\ cleanupErr = {} => owned.root = Root /\ owned.children = {}

(* What a signal will address is not the process of somebody else that the  *)
(* snapshot showed.                                                         *)
SignalInv ==
    /\ sig.step # "idle" => sig.op \in Operations
    /\ sig.step = "snapshot" => ~sig.seen
    /\ sig.seen => /\ proc[Other].st # "absent" /\ proc[Other].pid \notin sig.pids
                   /\ sig.group => proc[Other].pid # RootPID
    /\ ~struck

IInv == TypeOK /\ PIDInv /\ FamilyInv /\ OtherInv /\ LaunchInv /\ AnchorInv /\ ChildrenInv
        /\ JoinInv /\ SignalInv
-----------------------------------------------------------------------------
USE ToolFaultsAssumption, ToolReusedAssumption
    DEF vars, osVars, stateVars, threadVars, Procs, Root, Child, Stray, Other, NoProc, SupervisorPID,
        InitPID, RootPID, ChildPID, StrayPID, PIDs, Record, Born, NoProcess, Descendants

(* A death changes nobody's PID or group; it makes the process and its      *)
(* unreaped children leave, and leaves the others to init.                  *)
LEMMA DiedFacts ==
    ASSUME proc \in [Procs -> Record], NEW p \in Procs, proc[p].st = "running"
    PROVE  /\ Died(p) \in [Procs -> Record]
           /\ \A q \in Procs :
                /\ Died(p)[q].pid = proc[q].pid /\ Died(p)[q].pgid = proc[q].pgid
                /\ \/ Died(p)[q].ppid = proc[q].ppid
                   \/ Died(p)[q].ppid = InitPID /\ proc[q].ppid = proc[p].pid
                /\ q = p => Died(p)[q].st = IF p \in {Root, Child} /\ proc[p].ppid # InitPID
                                            THEN "zombie" ELSE "gone"
                /\ q # p => \/ Died(p)[q].st = proc[q].st
                            \/ /\ proc[q].st = "zombie" /\ Died(p)[q].st = "gone"
                               /\ proc[q].ppid = proc[p].pid
<1>1. ASSUME NEW q \in Procs
      PROVE  /\ Died(p)[q] \in Record
             /\ Died(p)[q].pid = proc[q].pid /\ Died(p)[q].pgid = proc[q].pgid
             /\ \/ Died(p)[q].ppid = proc[q].ppid
                \/ Died(p)[q].ppid = InitPID /\ proc[q].ppid = proc[p].pid
             /\ q = p => Died(p)[q].st = IF p \in {Root, Child} /\ proc[p].ppid # InitPID
                                         THEN "zombie" ELSE "gone"
             /\ q # p => \/ Died(p)[q].st = proc[q].st
                         \/ /\ proc[q].st = "zombie" /\ Died(p)[q].st = "gone"
                            /\ proc[q].ppid = proc[p].pid
  <2>1. CASE q = p
    <3>1. Died(p)[q] = [proc[p] EXCEPT !.st = IF p \in {Root, Child} /\ proc[p].ppid # InitPID
                                              THEN "zombie" ELSE "gone"]
      BY <2>1 DEF Died
    <3> QED
      BY <2>1, <3>1
  <2>2. CASE q # p /\ q \in Visible /\ proc[q].ppid = proc[p].pid /\ proc[q].st = "zombie"
    <3>1. Died(p)[q] = [proc[q] EXCEPT !.st = "gone"]
      BY <2>2 DEF Died
    <3> QED
      BY <2>2, <3>1
  <2>3. CASE q # p /\ q \in Visible /\ proc[q].ppid = proc[p].pid /\ proc[q].st # "zombie"
    <3>1. Died(p)[q] = [proc[q] EXCEPT !.ppid = InitPID]
      BY <2>3 DEF Died
    <3> QED
      BY <2>3, <3>1
  <2>4. CASE q # p /\ ~(q \in Visible /\ proc[q].ppid = proc[p].pid)
    <3>1. Died(p)[q] = proc[q]
      BY <2>4 DEF Died
    <3> QED
      BY <2>4, <3>1
  <2> QED
    BY <2>1, <2>2, <2>3, <2>4
<1>2. Died(p) = [q \in Procs |-> Died(p)[q]]
  BY DEF Died
<1> QED
  BY <1>1, <1>2

(* The same of the step of the model, in which the root's child is reaped   *)
(* at once.                                                                 *)
LEMMA ExitFacts ==
    ASSUME proc \in [Procs -> Record], NEW p \in Procs, Exit(p)
    PROVE  /\ proc' \in [Procs -> Record]
           /\ proc[p].st = "running" /\ proc'[p].st \in {"zombie", "gone"}
           /\ p = Root /\ proc[p].ppid # InitPID => proc'[p].st = "zombie"
           /\ \A q \in Procs :
                /\ proc'[q].pid = proc[q].pid /\ proc'[q].pgid = proc[q].pgid
                /\ \/ proc'[q].ppid = proc[q].ppid
                   \/ proc'[q].ppid = InitPID /\ proc[q].ppid = proc[p].pid
                /\ q # p => \/ proc'[q].st = proc[q].st
                            \/ /\ proc[q].st = "zombie" /\ proc'[q].st = "gone"
                               /\ proc[q].ppid = proc[p].pid
<1>1. proc[p].st = "running"
  BY DEF Exit
<1>2. CASE p # Child
  <2>1. proc' = Died(p)
    BY <1>2 DEF Exit
  <2> QED
    BY <1>1, <1>2, <2>1, DiedFacts
<1>3. CASE p = Child
  <2>1. proc' = [Died(Child) EXCEPT ![Child].st = "gone"]
    BY <1>3 DEF Exit
  <2> DEFINE D == Died(Child)
  <2>2. /\ D \in [Procs -> Record]
        /\ \A q \in Procs :
             /\ D[q].pid = proc[q].pid /\ D[q].pgid = proc[q].pgid
             /\ D[q].ppid = proc[q].ppid \/ (D[q].ppid = InitPID /\ proc[q].ppid = proc[p].pid)
             /\ q # p => \/ D[q].st = proc[q].st
                         \/ /\ proc[q].st = "zombie" /\ D[q].st = "gone"
                            /\ proc[q].ppid = proc[p].pid
    BY <1>1, <1>3, DiedFacts
  <2> HIDE DEF D
  <2>3. proc' = [D EXCEPT ![Child].st = "gone"]
    BY <2>1 DEF D
  <2> QED
    BY <1>1, <1>3, <2>2, <2>3
<1> QED
  BY <1>2, <1>3

(* A successful snapshot lists processes of the table, and one that leaves  *)
(* some out is charged as a failure.                                        *)
LEMMA ListingFacts ==
    ASSUME faults \in 0 .. MaxFaults, NEW listed \in Listings(faults)
    PROVE  listed \subseteq Visible /\ FaultsAfter(faults, listed) \in 0 .. MaxFaults
<1>1. CASE listed = Visible
  BY <1>1 DEF FaultsAfter
<1>2. CASE listed # Visible
  <2>1. faults > 0 /\ listed \in SUBSET Visible
    BY <1>2 DEF Listings
  <2> QED
    BY <1>2, <2>1 DEF FaultsAfter
<1> QED
  BY <1>1, <1>2

(* The ancestry closure: it holds its base, adds only processes that are    *)
(* listed, and stays within every closed set around the base.               *)
LEMMA DescendantsFacts ==
    ASSUME NEW base \in SUBSET Procs, NEW listed \in SUBSET Procs
    PROVE  /\ base \subseteq DescendantsOf(base, listed)
           /\ DescendantsOf(base, listed) \subseteq base \cup listed
           /\ \A S \in SUBSET Procs : base \subseteq S /\ ClosedUnderFork(S, listed) =>
                                          DescendantsOf(base, listed) \subseteq S
<1>1. base \subseteq DescendantsOf(base, listed)
  BY DEF DescendantsOf
<1>2. \A S \in SUBSET Procs : base \subseteq S /\ ClosedUnderFork(S, listed) =>
                                 DescendantsOf(base, listed) \subseteq S
  BY DEF DescendantsOf
<1>3. /\ base \cup listed \in SUBSET Procs /\ base \subseteq base \cup listed
      /\ ClosedUnderFork(base \cup listed, listed)
  BY DEF ClosedUnderFork
<1>4. DescendantsOf(base, listed) \subseteq base \cup listed
  BY <1>2, <1>3
<1> QED
  BY <1>1, <1>2, <1>4

(* The PIDs of the tool's processes, and whose PID a gone process has.      *)
LEMMA PIDFacts ==
    ASSUME TypeOK, PIDInv
    PROVE  /\ \A p \in Ours : proc[p].pid # InitPID
           /\ \A p \in Ours : proc[p].st # "absent" =>
                /\ proc[p].pid = RootPID <=> p = Root
                /\ proc[p].pid = ChildPID <=> p = Child
                /\ proc[p].pid = StrayPID <=> p = Stray
BY DEF TypeOK, PIDInv, Ours

(* While the launch anchors the root, only the root has its PID.            *)
LEMMA OnlyRootAtItsPID ==
    ASSUME TypeOK, PIDInv, OtherInv, LaunchInv, launch = "anchor", NEW listed \in SUBSET Visible
    PROVE  At(listed, RootPID) \subseteq {Root}
<1> SUFFICES ASSUME NEW p \in At(listed, RootPID) PROVE p = Root
  OBVIOUS
<1>1. p \in Visible /\ proc[p].pid = RootPID /\ proc[p].st # "absent"
  BY DEF At, Visible
<1>2. Root \in Visible
  BY DEF LaunchInv
<1>3. CASE p = Other
  <2>1. PICK q \in Ours : proc[q].st = "gone" /\ proc[q].pid = RootPID
    BY <1>1, <1>3 DEF OtherInv
  <2>2. q = Root
    BY <2>1, PIDFacts
  <2> QED
    BY <1>2, <2>1, <2>2 DEF Visible
<1>4. CASE p \in Ours
  BY <1>1, <1>4, PIDFacts
<1> QED
  BY <1>1, <1>3, <1>4 DEF Visible, Ours

(* Only the root is anchored, with the first discovery that lists it.       *)
LEMMA AnchoredIsRoot ==
    ASSUME TypeOK, PIDInv, FamilyInv, OtherInv, LaunchInv, NEW listed \in SUBSET Visible,
           owned.root = Root \/ (launch = "anchor" /\ Root \in listed)
    PROVE  AnchoredRoot(listed) = Root
<1>1. CASE owned.root = Root
  BY <1>1 DEF AnchoredRoot, Anchored
<1>2. CASE launch = "anchor" /\ Root \in listed
  <2>1. owned.root = NoProc /\ ~owned.rootDone
    BY <1>2 DEF LaunchInv
  <2>2. Root \in At(listed, RootPID) \cap Group(listed, RootPID)
    BY <1>2 DEF At, Group, PIDInv, FamilyInv, Visible
  <2>3. At(listed, RootPID) = {Root}
    BY <1>2, <2>2, OnlyRootAtItsPID
  <2>4. AnchoredRoot(listed) = CHOOSE p \in At(listed, RootPID) : TRUE
    BY <2>1, <2>2 DEF AnchoredRoot, Anchored
  <2> QED
    BY <2>3, <2>4
<1> QED
  BY <1>1, <1>2

(* Nothing is owned without a listed base.                                  *)
LEMMA NoBase ==
    ASSUME NEW listed \in SUBSET Procs
    PROVE  DescendantsOf({}, listed) = {}
<1>1. {} \in SUBSET Procs /\ ClosedUnderFork({}, listed)
  BY DEF ClosedUnderFork
<1> QED
  BY <1>1 DEF DescendantsOf

(* A first discovery that does not list the root finds nothing.             *)
LEMMA MissedFacts ==
    ASSUME TypeOK, PIDInv, OtherInv, LaunchInv, ChildrenInv, launch = "anchor",
           NEW listed \in SUBSET Visible, Root \notin listed
    PROVE  AnchoredRoot(listed) = NoProc /\ DiscoveredChildren(listed) = {} /\ known = {}
<1>1. owned.root = NoProc /\ known = {} /\ owned.children = {}
  BY DEF LaunchInv, ChildrenInv
<1>2. At(listed, RootPID) = {}
  BY OnlyRootAtItsPID DEF At
<1>3. AnchoredRoot(listed) = NoProc
  BY <1>1, <1>2 DEF AnchoredRoot, Anchored
<1>4. OwnedBase(listed) = {} /\ listed \in SUBSET Procs
  BY <1>1, <1>3 DEF OwnedBase, Visible
<1> QED
  BY <1>1, <1>3, <1>4, NoBase DEF DiscoveredChildren

(* A discovery finds descendants that are listed, keeps the known ones that *)
(* are, and finds none when the root and they have left.                    *)
LEMMA DiscoveryFacts ==
    ASSUME TypeOK, PIDInv, OtherInv, ChildrenInv, NEW listed \in SUBSET Visible,
           AnchoredRoot(listed) = Root
    PROVE  /\ DiscoveredChildren(listed) \subseteq Descendants \cap listed
           /\ owned.children \cap listed \subseteq DiscoveredChildren(listed)
           /\ Root \notin Visible /\ owned.children = {} => DiscoveredChildren(listed) = {}
<1> DEFINE base == (owned.children \cup {Root}) \cap listed
<1>v. listed \in SUBSET Procs
  BY DEF Visible
<1>1. /\ base \in SUBSET Procs /\ base \subseteq Ours
      /\ DiscoveredChildren(listed) = DescendantsOf(base, listed) \ {Root}
  BY <1>v DEF DiscoveredChildren, OwnedBase, ChildrenInv, Ours
<1>2. ClosedUnderFork(Ours, listed)
  <2> SUFFICES ASSUME NEW p \in listed, NEW q \in Ours, proc[p].ppid = proc[q].pid, p \notin Ours
               PROVE  FALSE
    BY DEF ClosedUnderFork
  <2>1. p = Other /\ proc[Other].st # "absent"
    BY DEF Visible, Ours
  <2>2. proc[Other].ppid = InitPID
    BY <2>1 DEF OtherInv
  <2> QED
    BY <2>1, <2>2, PIDFacts
<1> HIDE DEF base
<1>3. /\ DescendantsOf(base, listed) \subseteq Ours
      /\ DescendantsOf(base, listed) \subseteq base \cup listed
      /\ base \subseteq DescendantsOf(base, listed)
  <2>1. Ours \in SUBSET Procs
    BY DEF Ours
  <2>2. /\ base \subseteq DescendantsOf(base, listed)
        /\ DescendantsOf(base, listed) \subseteq base \cup listed
        /\ base \subseteq Ours /\ ClosedUnderFork(Ours, listed) =>
             DescendantsOf(base, listed) \subseteq Ours
    BY <1>v, <1>1, <2>1, DescendantsFacts
  <2> QED
    BY <1>1, <1>2, <2>2
<1>4. DiscoveredChildren(listed) \subseteq Descendants \cap listed
  BY <1>1, <1>3 DEF base, Ours
<1>5. owned.children \cap listed \subseteq DiscoveredChildren(listed)
  BY <1>1, <1>3 DEF base, ChildrenInv
<1>6. ASSUME Root \notin Visible, owned.children = {} PROVE DiscoveredChildren(listed) = {}
  <2>1. base = {}
    BY <1>6 DEF base
  <2> QED
    BY <1>v, <1>1, <2>1, NoBase
<1> QED
  BY <1>4, <1>5, <1>6

-----------------------------------------------------------------------------
(* What the whole step relation does to the process table: a process that   *)
(* is gone stays gone, and one that was born keeps its PID.                 *)
LEMMA History ==
    ASSUME TypeOK, LaunchInv, [Next]_vars
    PROVE  /\ proc' \in [Procs -> Record]
           /\ \A q \in Procs :
                /\ proc[q].st = "gone" => proc'[q].st = "gone"
                /\ proc[q].st # "absent" => proc'[q].st # "absent" /\ proc'[q].pid = proc[q].pid
<1>t. proc \in [Procs -> Record]
  BY DEF TypeOK
<1>1. CASE UNCHANGED proc
  BY <1>t, <1>1
<1>2. ASSUME NEW p \in Procs, Exit(p)
      PROVE  /\ proc' \in [Procs -> Record]
             /\ \A q \in Procs :
                  /\ proc[q].st = "gone" => proc'[q].st = "gone"
                  /\ proc[q].st # "absent" => proc'[q].st # "absent" /\ proc'[q].pid = proc[q].pid
  BY <1>t, <1>2, ExitFacts
<1>3. CASE ForkChild \/ ForkStray \/ Detach
  BY <1>t, <1>3 DEF ForkChild, ForkStray, Detach
<1>4. ASSUME NEW pid \in ReusedPIDs, Reuse(pid)
      PROVE  /\ proc' \in [Procs -> Record]
             /\ \A q \in Procs :
                  /\ proc[q].st = "gone" => proc'[q].st = "gone"
                  /\ proc[q].st # "absent" => proc'[q].st # "absent" /\ proc'[q].pid = proc[q].pid
  <2>1. pid \in PIDs
    BY <1>t, <1>4 DEF Reuse, PIDFree
  <2> QED
    BY <1>t, <1>4, <2>1 DEF Reuse
<1>5. CASE StartRoot
  <2>1. proc[Root].st = "absent"
    BY <1>5 DEF StartRoot, LaunchInv
  <2> QED
    BY <1>t, <1>5, <2>1 DEF StartRoot
<1>6. CASE ReapRoot
  BY <1>t, <1>6 DEF ReapRoot
<1>7. CASE Clients \/ Signals \/ Tracker
  BY <1>1, <1>7 DEF Clients, SignalNothing, SignalUnanchored, SignalBegins, Signals, SignalSnapshot,
                    SignalGroup, SignalEscaped, SignalEnds, Tracker, TrackOwnership, CheckComplete
<1>8. CASE RootDone \/ PublishDone \/ StartFails \/ AnchorRoot \/ AnchorFails \/ UNCHANGED vars
  BY <1>1, <1>8 DEF RootDone, PublishDone, StartFails, AnchorRoot, AnchorFails
<1> QED
  BY <1>2, <1>3, <1>4, <1>5, <1>6, <1>7, <1>8 DEF Next, Environment, Reaper

(* The types of what a discovery sets, of a signal and of the rest.         *)
OwnedOK ==
    /\ owned \in [root : Procs \cup {NoProc}, children : SUBSET Procs, rootDone : BOOLEAN]
    /\ known \subseteq Procs
    /\ omitted \subseteq Procs

SigOK ==
    sig \in [step : {"idle", "snapshot", "group", "escaped"}, op : Operations \cup {"none"},
             group : BOOLEAN, pids : SUBSET PIDs, seen : BOOLEAN, failed : BOOLEAN]

FlagsOK == done \in BOOLEAN /\ joined \in BOOLEAN /\ struck \in BOOLEAN

PlainOK ==
    /\ doomed \subseteq Procs
    /\ faults \in 0 .. MaxFaults
    /\ inherits \in BOOLEAN
    /\ launch \in {"idle", "refused", "anchor", "owned"}
    /\ cleanupErr \subseteq Failures
    /\ reaper \in {"off", "wait", "copy", "publish", "end"}
    /\ tracker \in {"off", "refresh", "check", "end"}
    /\ outcome \in {"none", "exited", "signaled"}
    /\ signalled \subseteq Operations

LEMMA TypeParts ==
    TypeOK <=> proc \in [Procs -> Record] /\ OwnedOK /\ SigOK /\ FlagsOK /\ PlainOK
BY Zenon DEF TypeOK, OwnedOK, SigOK, FlagsOK, PlainOK

(* A discovery, a failure to read the table and the marking of the root.    *)
LEMMA OwnedStep == OwnedOK /\ [Next]_vars => OwnedOK'
<1> SUFFICES ASSUME OwnedOK, [Next]_vars PROVE OwnedOK'
  OBVIOUS
<1>1. CASE UNCHANGED <<owned, known, omitted>>
  BY <1>1 DEF OwnedOK
<1>2. ASSUME NEW listed \in Listings(faults), Discover(listed) PROVE OwnedOK'
  <2>1. listed \subseteq Procs
    BY DEF Listings, Visible
  <2>2. AnchoredRoot(listed) \in Procs \cup {NoProc}
    BY <2>1 DEF AnchoredRoot, At, OwnedOK
  <2>3. DiscoveredChildren(listed) \subseteq Procs
    BY DEF DiscoveredChildren, DescendantsOf
  <2> QED
    BY <1>2, <2>2, <2>3 DEF Discover, OwnedOK
<1>3. CASE RootDone
  BY <1>3 DEF RootDone, OwnedOK
<1>4. CASE Environment \/ Clients
  BY <1>1, <1>4 DEF Environment, Exit, ForkChild, ForkStray, Detach, Reuse, Clients, SignalNothing,
                    SignalUnanchored, SignalBegins
<1>5. CASE Signals
  BY <1>1, <1>2, <1>5 DEF Signals, SignalSnapshot, SnapshotFails, SignalGroup, SignalEscaped, SignalEnds
<1>6. CASE Tracker
  BY <1>1, <1>2, <1>6 DEF Tracker, TrackOwnership, SnapshotFails, CheckComplete
<1>7. CASE StartFails \/ StartRoot \/ AnchorRoot \/ AnchorFails \/ ReapRoot \/ PublishDone
           \/ UNCHANGED vars
  BY <1>1, <1>2, <1>7 DEF StartFails, StartRoot, AnchorRoot, AnchorFails, SnapshotFails, ReapRoot, PublishDone
<1> QED
  BY <1>3, <1>4, <1>5, <1>6, <1>7 DEF Next, Reaper

(* The steps of a signal.                                                   *)
LEMMA SigStep == proc \in [Procs -> Record] /\ SigOK /\ [Next]_vars => SigOK'
<1> SUFFICES ASSUME proc \in [Procs -> Record], SigOK, [Next]_vars PROVE SigOK'
  OBVIOUS
<1>1. CASE UNCHANGED sig
  BY <1>1 DEF SigOK
<1>2. ASSUME NEW op \in Operations, SignalBegins(op) PROVE SigOK'
  BY <1>2 DEF SignalBegins, NoSignal, SigOK
<1>3. CASE SignalSnapshot
  <2>1. \A listed : /\ EscapedPIDs(listed) \subseteq PIDs /\ GroupIsOwned(listed) \in BOOLEAN
                     /\ (Other \in Visible) \in BOOLEAN
    <3>1. \A listed : DiscoveredChildren(listed) \subseteq Procs
      BY DEF DiscoveredChildren, DescendantsOf
    <3>2. \A p \in Procs : proc[p].pid \in PIDs
      OBVIOUS
    <3> QED
      BY <3>1, <3>2 DEF EscapedPIDs, GroupIsOwned
  <2>2. ASSUME NEW listed,
               sig' = [sig EXCEPT !.step = "group", !.group = GroupIsOwned(listed),
                                  !.pids = EscapedPIDs(listed), !.seen = (Other \in Visible)]
        PROVE  SigOK'
    BY <2>1, <2>2 DEF SigOK
  <2>3. CASE sig' = [sig EXCEPT !.step = "escaped", !.failed = TRUE]
    BY <2>3 DEF SigOK
  <2> QED
    BY <1>3, <2>2, <2>3 DEF SignalSnapshot
<1>4. CASE SignalGroup
  <2>1. \/ sig' = [sig EXCEPT !.step = "escaped"]
        \/ sig' = [sig EXCEPT !.step = "escaped", !.failed = TRUE]
    BY <1>4 DEF SignalGroup
  <2> QED
    BY <2>1 DEF SigOK
<1>5. ASSUME NEW pid \in PIDs, SignalEscaped(pid) PROVE SigOK'
  <2>1. \/ sig' = [sig EXCEPT !.pids = @ \ {pid}]
        \/ sig' = [sig EXCEPT !.pids = @ \ {pid}, !.failed = TRUE]
    BY <1>5 DEF SignalEscaped
  <2> QED
    BY <2>1 DEF SigOK
<1>6. CASE SignalEnds
  BY <1>6 DEF SignalEnds, NoSignal, SigOK
<1>7. CASE Environment \/ Tracker
  BY <1>1, <1>7 DEF Environment, Exit, ForkChild, ForkStray, Detach, Reuse, Tracker, TrackOwnership,
                    CheckComplete
<1>8. ASSUME NEW op \in Operations, SignalNothing(op) \/ SignalUnanchored(op) PROVE SigOK'
  BY <1>1, <1>8 DEF SignalNothing, SignalUnanchored
<1>9. CASE StartFails \/ StartRoot \/ AnchorRoot \/ AnchorFails \/ Reaper \/ UNCHANGED vars
  BY <1>1, <1>9 DEF StartFails, StartRoot, AnchorRoot, AnchorFails, Reaper, ReapRoot, RootDone, PublishDone
<1> QED
  BY <1>2, <1>3, <1>4, <1>5, <1>6, <1>7, <1>8, <1>9 DEF Next, Clients, Signals

(* The channels that close, and the witness of a wrong signal.              *)
LEMMA FlagsStep == FlagsOK /\ [Next]_vars => FlagsOK'
<1> SUFFICES ASSUME FlagsOK, [Next]_vars PROVE FlagsOK'
  OBVIOUS
<1> USE DEF FlagsOK
<1>1. CASE UNCHANGED <<done, joined, struck>>
  BY <1>1
<1>2. CASE PublishDone
  BY <1>2, Zenon DEF PublishDone
<1>3. CASE TrackOwnership
  BY <1>1, <1>3, Zenon DEF TrackOwnership
<1>4. CASE CheckComplete
  BY <1>4, Zenon DEF CheckComplete
<1>5. CASE SignalGroup
  BY <1>5, Zenon DEF SignalGroup, Deliver, KillFails
<1>6. ASSUME NEW pid \in PIDs, SignalEscaped(pid) PROVE FlagsOK'
  BY <1>6, Zenon DEF SignalEscaped, Deliver, KillFails
<1>7. CASE Environment \/ Clients \/ SignalSnapshot \/ SignalEnds
  BY <1>1, <1>7 DEF Environment, Exit, ForkChild, ForkStray, Detach, Reuse, Clients, SignalNothing,
                    SignalUnanchored, SignalBegins, SignalSnapshot, SignalEnds
<1>8. CASE StartFails \/ StartRoot \/ AnchorRoot \/ AnchorFails \/ ReapRoot \/ RootDone \/ UNCHANGED vars
  BY <1>1, <1>8 DEF StartFails, StartRoot, AnchorRoot, AnchorFails, ReapRoot, RootDone
<1> QED
  BY <1>2, <1>3, <1>4, <1>5, <1>6, <1>7, <1>8 DEF Next, Signals, Reaper, Tracker

(* All the others.                                                          *)
LEMMA PlainStep == PlainOK /\ SignalInv /\ [Next]_vars => PlainOK'
<1> SUFFICES ASSUME PlainOK, SignalInv, [Next]_vars PROVE PlainOK'
  OBVIOUS
<1>k. \A T : Killed(T) \subseteq T
  BY DEF Killed
<1>v. \A n : At(Visible, n) \subseteq Procs /\ Group(Visible, n) \subseteq Procs
  BY DEF At, Group, Visible
<1> USE DEF PlainOK
<1>f. ASSUME NEW listed \in Listings(faults), Discover(listed) PROVE faults' \in 0 .. MaxFaults
  BY <1>f, ListingFacts DEF Discover
<1>s. SnapshotFails => faults' \in 0 .. MaxFaults
  BY DEF SnapshotFails
<1>1. CASE Environment
  BY <1>1 DEF Environment, Exit, ForkChild, ForkStray, Detach, Reuse
<1>2. ASSUME NEW op \in Operations, SignalNothing(op) \/ SignalUnanchored(op) \/ SignalBegins(op)
      PROVE  PlainOK'
  BY <1>2, <1>k DEF SignalNothing, SignalUnanchored, SignalBegins
<1>3. CASE SignalSnapshot
  BY <1>3, <1>f, <1>s DEF SignalSnapshot
<1>4. CASE SignalGroup
  BY <1>4, <1>k, <1>v DEF SignalGroup, Deliver, KillFails
<1>5. ASSUME NEW pid \in PIDs, SignalEscaped(pid) PROVE PlainOK'
  BY <1>5, <1>k, <1>v DEF SignalEscaped, Deliver, KillFails
<1>6. CASE SignalEnds
  BY <1>6 DEF SignalEnds, SignalInv
<1>7. CASE ReapRoot \/ PublishDone
  BY <1>7 DEF ReapRoot, PublishDone
<1>8. CASE RootDone
  BY <1>8 DEF RootDone, Failures
<1>9. CASE Tracker
  <2>1. UNCHANGED <<doomed, inherits, launch, reaper, outcome, signalled>>
    BY <1>9 DEF Tracker, TrackOwnership, CheckComplete
  <2>2. faults' \in 0 .. MaxFaults
    BY <1>9, <1>f, <1>s DEF Tracker, TrackOwnership, CheckComplete
  <2>3. cleanupErr' \subseteq Failures
    BY <1>9 DEF Tracker, TrackOwnership, CheckComplete, Failures
  <2>4. tracker' \in {"off", "refresh", "check", "end"}
    BY <1>9 DEF Tracker, TrackOwnership, CheckComplete
  <2> QED
    BY <2>1, <2>2, <2>3, <2>4
<1>10. CASE StartFails \/ StartRoot \/ AnchorRoot
  BY <1>10, <1>f DEF StartFails, StartRoot, AnchorRoot
<1>11. CASE AnchorFails
  <2>1. faults' \in 0 .. MaxFaults /\ UNCHANGED <<inherits, tracker, outcome, signalled>>
    BY <1>11, <1>f, <1>s DEF AnchorFails
  <2>2. doomed' \subseteq Procs
    BY <1>11, <1>k DEF AnchorFails
  <2>3. cleanupErr' \subseteq Failures
    BY <1>11 DEF AnchorFails, Failures
  <2>4. launch' = "owned" /\ reaper' = "wait"
    BY <1>11 DEF AnchorFails
  <2> QED
    BY <2>1, <2>2, <2>3, <2>4
<1>12. CASE UNCHANGED vars
  BY <1>12
<1> QED
  BY <1>1, <1>2, <1>3, <1>4, <1>5, <1>6, <1>7, <1>8, <1>9, <1>10, <1>11, <1>12
  DEF Next, Clients, Signals, Reaper

(* The process table: PIDs, the root's family and the process of somebody   *)
(* else.                                                                    *)
LEMMA TableStep == IInv /\ [Next]_vars => (PIDInv /\ FamilyInv /\ OtherInv)'
<1> SUFFICES ASSUME IInv, [Next]_vars PROVE (PIDInv /\ FamilyInv /\ OtherInv)'
  OBVIOUS
<1> USE DEF IInv
<1>t. proc \in [Procs -> Record]
  BY DEF TypeOK
<1>1. CASE UNCHANGED proc
  BY <1>1 DEF PIDInv, FamilyInv, OtherInv, Visible
<1>2. ASSUME NEW p \in Procs, Exit(p) PROVE (PIDInv /\ FamilyInv /\ OtherInv)'
  <2>1. proc[p].pid # SupervisorPID
    <3>1. proc[p].st = "running"
      BY <1>2 DEF Exit
    <3>2. CASE p = Other
      <4>1. PICK q \in Ours : proc[q].st = "gone" /\ proc[q].pid = proc[Other].pid
        BY <3>1, <3>2 DEF OtherInv
      <4> QED
        BY <3>2, <4>1 DEF PIDInv, Ours
    <3> QED
      BY <3>1, <3>2 DEF PIDInv
  <2>2. PIDInv'
    BY <1>t, <1>2, ExitFacts DEF PIDInv
  <2>3. FamilyInv'
    BY <1>t, <1>2, <2>1, ExitFacts DEF FamilyInv
  <2>4. OtherInv'
    <3>1. \A q \in Procs : /\ proc'[q].pid = proc[q].pid /\ proc'[q].pgid = proc[q].pgid
                           /\ proc'[q].ppid \in {proc[q].ppid, InitPID}
                           /\ proc[q].st = "gone" => proc'[q].st = "gone"
                           /\ proc'[q].st # "absent" => proc[q].st # "absent"
                           /\ q \in Visible' => q \in Visible
      BY <1>t, <1>2, ExitFacts DEF Visible
    <3> QED
      BY <3>1 DEF OtherInv, Ours
  <2> QED
    BY <2>2, <2>3, <2>4
<1>3. CASE ForkChild
  <2>1. /\ proc[Root].st = "running" /\ proc[Child].st = "absent"
        /\ proc' = [proc EXCEPT ![Child] = Born(ChildPID, RootPID, RootPID)]
    BY <1>3 DEF ForkChild, Active
  <2>2. PIDInv' /\ FamilyInv'
    BY <1>t, <2>1 DEF PIDInv, FamilyInv
  <2>3. proc[Other].st # "absent" => proc[Other].pid # RootPID
    BY <2>1, PIDFacts DEF OtherInv
  <2>4. /\ \A q \in Procs \ {Child} : proc'[q] = proc[q] /\ (q \in Visible' <=> q \in Visible)
        /\ proc'[Child].pgid = RootPID
    BY <1>t, <2>1 DEF Visible
  <2>5. OtherInv'
    BY <2>1, <2>3, <2>4 DEF OtherInv, Ours
  <2> QED
    BY <2>2, <2>5
<1>4. CASE ForkStray
  <2>1. /\ proc[Child].st = "running" /\ proc[Stray].st = "absent"
        /\ proc' = [proc EXCEPT ![Stray] = Born(StrayPID, ChildPID, RootPID)]
    BY <1>4 DEF ForkStray, Active
  <2>2. PIDInv' /\ FamilyInv'
    BY <1>t, <2>1 DEF PIDInv, FamilyInv
  <2>3. proc[Other].st # "absent" => proc[Other].pid # RootPID
    BY <2>1 DEF OtherInv, FamilyInv, Visible, Ours
  <2>4. /\ \A q \in Procs \ {Stray} : proc'[q] = proc[q] /\ (q \in Visible' <=> q \in Visible)
        /\ proc'[Stray].pgid = RootPID
    BY <1>t, <2>1 DEF Visible
  <2>5. OtherInv'
    BY <2>1, <2>3, <2>4 DEF OtherInv, Ours
  <2> QED
    BY <2>2, <2>5
<1>5. CASE Detach
  <2>1. /\ proc[Stray].st = "running"
        /\ proc' = [proc EXCEPT ![Stray].pgid = StrayPID]
    BY <1>5 DEF Detach, Active
  <2>2. PIDInv' /\ FamilyInv'
    BY <1>t, <2>1 DEF PIDInv, FamilyInv
  <2>3. proc[Other].st # "absent" => proc[Other].pid # StrayPID
    BY <2>1, PIDFacts DEF OtherInv
  <2>4. /\ \A q \in Procs \ {Stray} : proc'[q] = proc[q] /\ (q \in Visible' <=> q \in Visible)
        /\ proc'[Stray].pgid = StrayPID /\ proc'[Stray].st = "running" /\ proc'[Stray].pid = proc[Stray].pid
    BY <1>t, <2>1 DEF Visible
  <2>5. OtherInv'
    BY <2>1, <2>3, <2>4 DEF OtherInv, Ours
  <2> QED
    BY <2>2, <2>5
<1>6. ASSUME NEW pid \in ReusedPIDs, Reuse(pid) PROVE (PIDInv /\ FamilyInv /\ OtherInv)'
  <2>1. /\ proc[Other].st = "absent" /\ PIDFree(pid)
        /\ proc' = [proc EXCEPT ![Other] = Born(pid, InitPID, pid)]
    BY <1>6 DEF Reuse
  <2>2. PIDInv' /\ FamilyInv'
    BY <1>t, <2>1 DEF PIDInv, FamilyInv
  <2>3. PICK q \in Ours : proc[q].st = "gone" /\ proc[q].pid = pid
    BY <2>1 DEF PIDFree, Ours
  <2>4. \A r \in Ours \cap Visible : proc[r].pgid # pid
    BY <2>1 DEF PIDFree, Group
  <2>5. /\ \A r \in Ours : proc'[r] = proc[r] /\ (r \in Visible' <=> r \in Visible)
        /\ proc'[Other].ppid = InitPID /\ proc'[Other].pgid = pid /\ proc'[Other].pid = pid
    BY <1>t, <2>1 DEF Visible, Ours
  <2>6. OtherInv'
    BY <2>3, <2>4, <2>5 DEF OtherInv
  <2> QED
    BY <2>2, <2>6
<1>7. CASE StartRoot
  <2>1. /\ \A q \in Procs : proc[q].st = "absent"
        /\ proc' = [proc EXCEPT ![Root] = Born(RootPID, SupervisorPID, RootPID)]
    BY <1>7 DEF StartRoot, LaunchInv
  <2> QED
    BY <1>t, <2>1 DEF PIDInv, FamilyInv, OtherInv
<1>8. CASE ReapRoot
  <2>1. /\ proc[Root].st = "zombie" /\ proc' = [proc EXCEPT ![Root].st = "gone"]
    BY <1>8 DEF ReapRoot
  <2>2. PIDInv' /\ FamilyInv'
    BY <1>t, <2>1 DEF PIDInv, FamilyInv
  <2>3. /\ \A q \in Procs \ {Root} : proc'[q] = proc[q] /\ (q \in Visible' <=> q \in Visible)
        /\ Root \notin Visible' /\ proc'[Root].pid = proc[Root].pid
    BY <1>t, <2>1 DEF Visible
  <2>4. OtherInv'
    BY <2>1, <2>3 DEF OtherInv, Ours
  <2> QED
    BY <2>2, <2>4
<1>9. CASE Clients \/ Signals \/ Tracker
  BY <1>1, <1>9 DEF Clients, SignalNothing, SignalUnanchored, SignalBegins, Signals, SignalSnapshot,
                    SignalGroup, SignalEscaped, SignalEnds, Tracker, TrackOwnership, CheckComplete
<1>10. CASE RootDone \/ PublishDone \/ StartFails \/ AnchorRoot \/ AnchorFails \/ UNCHANGED vars
  BY <1>1, <1>10 DEF RootDone, PublishDone, StartFails, AnchorRoot, AnchorFails
<1> QED
  BY <1>2, <1>3, <1>4, <1>5, <1>6, <1>7, <1>8, <1>9, <1>10 DEF Next, Environment, Reaper

(* The launch, the reaper and the root go on together.                      *)
LEMMA LaunchStep == IInv /\ [Next]_vars => LaunchInv'
<1> SUFFICES ASSUME IInv, [Next]_vars PROVE LaunchInv'
  OBVIOUS
<1> USE DEF IInv, LaunchInv
<1>t. proc \in [Procs -> Record]
  BY DEF TypeOK
<1>1. CASE UNCHANGED <<proc, launch, reaper, tracker, joined, owned, cleanupErr, sig>>
  BY <1>1 DEF Visible
<1>2. ASSUME NEW p \in Procs, Exit(p) PROVE LaunchInv'
  <2>1. UNCHANGED <<launch, reaper, tracker, joined, owned, cleanupErr, sig>>
    BY <1>2 DEF Exit
  <2>2. proc[p].st = "running" /\ launch \notin {"idle", "refused"}
    BY <1>2 DEF Exit
  <2>3. proc[p].pid # SupervisorPID
    <3>1. CASE p = Other
      <4>1. PICK q \in Ours : proc[q].st = "gone" /\ proc[q].pid = proc[Other].pid
        BY <2>2, <3>1 DEF OtherInv
      <4> QED
        BY <3>1, <4>1 DEF PIDInv, Ours
    <3> QED
      BY <2>2, <3>1 DEF PIDInv
  <2>4. /\ proc[Root].st = "gone" => proc'[Root].st = "gone"
        /\ proc'[Root].st # "absent" <=> proc[Root].st # "absent"
        /\ Root \in Visible => Root \in Visible'
    BY <1>t, <1>2, <2>2, <2>3, ExitFacts DEF FamilyInv, Visible
  <2> QED
    BY <2>1, <2>2, <2>4
<1>3. CASE ForkChild \/ ForkStray \/ Detach
  <2>1. /\ UNCHANGED <<launch, reaper, tracker, joined, owned, cleanupErr, sig>>
        /\ \E q \in Procs : proc[q].st = "running"
    BY <1>3 DEF ForkChild, ForkStray, Detach, Active
  <2>2. proc'[Root] = proc[Root]
    BY <1>t, <1>3 DEF ForkChild, ForkStray, Detach
  <2> QED
    BY <2>1, <2>2 DEF Visible
<1>4. ASSUME NEW pid \in ReusedPIDs, Reuse(pid) PROVE LaunchInv'
  <2>1. /\ UNCHANGED <<launch, reaper, tracker, joined, owned, cleanupErr, sig>>
        /\ \E q \in Procs : proc[q].st = "gone"
        /\ proc'[Root] = proc[Root]
    BY <1>t, <1>4 DEF Reuse, PIDFree
  <2> QED
    BY <2>1 DEF Visible
<1>5. CASE StartFails
  BY <1>5 DEF StartFails, Visible
<1>6. CASE StartRoot
  <2>1. /\ UNCHANGED <<reaper, tracker, joined, owned, cleanupErr, sig>> /\ launch' = "anchor"
        /\ proc'[Root].st = "running" /\ launch = "idle"
    BY <1>t, <1>6 DEF StartRoot
  <2> QED
    BY <2>1 DEF Visible
<1>7. CASE AnchorRoot \/ AnchorFails
  <2>1. launch' = "owned" /\ reaper' = "wait" /\ UNCHANGED proc /\ launch = "anchor"
    BY <1>7 DEF AnchorRoot, AnchorFails
  <2> QED
    BY <2>1 DEF Visible
<1>8. CASE ReapRoot
  <2>1. proc'[Root].st = "gone" /\ reaper' = "copy" /\ UNCHANGED launch /\ launch = "owned"
    BY <1>t, <1>8 DEF ReapRoot, TypeOK
  <2> QED
    BY <2>1
<1>9. CASE RootDone \/ PublishDone
  <2>1. /\ UNCHANGED <<proc, launch>> /\ launch = "owned"
        /\ reaper \in {"copy", "publish"} /\ reaper' \in {"publish", "end"}
    BY <1>9 DEF RootDone, PublishDone, TypeOK
  <2> QED
    BY <2>1
<1>10. CASE Tracker
  <2>1. UNCHANGED <<proc, launch, reaper>> /\ launch = "owned"
    BY <1>10 DEF Tracker, TrackOwnership, CheckComplete, TypeOK
  <2> QED
    BY <2>1 DEF Visible
<1>11. CASE Clients \/ Signals
  <2>1. UNCHANGED <<proc, launch, reaper>>
    BY <1>11 DEF Clients, SignalNothing, SignalUnanchored, SignalBegins, Signals, SignalSnapshot,
                 SignalGroup, SignalEscaped, SignalEnds
  <2>2. launch = "owned" \/ sig.step \in {"snapshot", "group", "escaped"}
    BY <1>11 DEF Clients, SignalNothing, SignalUnanchored, SignalBegins, Signals, SignalSnapshot,
                 SignalGroup, SignalEscaped, SignalEnds
  <2>3. launch = "owned"
    BY <2>2 DEF NoSignal
  <2> QED
    BY <2>1, <2>3 DEF Visible
<1>12. CASE UNCHANGED vars
  BY <1>1, <1>12
<1> QED
  BY <1>2, <1>3, <1>4, <1>5, <1>6, <1>7, <1>8, <1>9, <1>10, <1>11, <1>12 DEF Next, Environment, Reaper

(* The steps that replace what is owned by what a snapshot lists.           *)
Discovery(listed) ==
    /\ listed \in Listings(faults) /\ Discover(listed)
    /\ (AnchorRoot /\ Root \in listed) \/ TrackOwnership \/ SignalSnapshot

Discovers == \E listed \in Listings(faults) : Discovery(listed)

(* Steps that do not discover leave the owned processes alone, except that  *)
(* the reaper marks the root.                                               *)
LEMMA UndiscoveredStep ==
    ASSUME IInv, [Next]_vars, ~Discovers
    PROVE  /\ owned'.root = owned.root /\ owned'.children = owned.children
           /\ known' = known /\ omitted' = omitted
<1>1. CASE UNCHANGED <<owned, known, omitted>>
  BY <1>1
<1>2. CASE RootDone
  BY <1>2 DEF RootDone, IInv, TypeOK
<1>3. CASE Environment \/ Clients
  BY <1>1, <1>3 DEF Environment, Exit, ForkChild, ForkStray, Detach, Reuse, Clients, SignalNothing,
                    SignalUnanchored, SignalBegins
<1>4. CASE Signals \/ Tracker
  BY <1>1, <1>4 DEF Signals, SignalSnapshot, SnapshotFails, SignalGroup, SignalEscaped, SignalEnds, Tracker,
                    TrackOwnership, CheckComplete, Discovers, Discovery
<1>5. CASE StartFails \/ StartRoot \/ AnchorRoot \/ ReapRoot \/ PublishDone
           \/ UNCHANGED vars
  BY <1>1, <1>5 DEF StartFails, StartRoot, AnchorRoot, ReapRoot, PublishDone, Discovers, Discovery
<1>6. CASE AnchorFails
  <2>1. CASE SnapshotFails
    BY <1>1, <2>1 DEF SnapshotFails
  <2>2. ASSUME NEW listed \in Listings(faults), Root \notin listed, Discover(listed)
        PROVE  /\ owned'.root = owned.root /\ owned'.children = owned.children
               /\ known' = known /\ omitted' = omitted
    <3>1. listed \in SUBSET Visible /\ launch = "anchor"
      BY <1>6, ListingFacts DEF AnchorFails, IInv, TypeOK
    <3>2. AnchoredRoot(listed) = NoProc /\ DiscoveredChildren(listed) = {} /\ known = {}
      BY <2>2, <3>1, MissedFacts DEF IInv
    <3>3. owned.root = NoProc /\ owned.children = {}
      BY <3>1, <3>2 DEF IInv, LaunchInv, ChildrenInv
    <3> QED
      BY <2>2, <3>2, <3>3 DEF Discover, IInv, TypeOK
  <2> QED
    BY <1>6, <2>1, <2>2 DEF AnchorFails
<1> QED
  BY <1>2, <1>3, <1>4, <1>5, <1>6 DEF Next, Reaper

(* Steps that discover do so over an anchored root or anchor it, and leave  *)
(* the process table alone.                                                 *)
LEMMA DiscoveryStep ==
    ASSUME IInv, NEW listed, Discovery(listed)
    PROVE  /\ listed \in SUBSET Visible /\ AnchoredRoot(listed) = Root
           /\ owned'.root = Root /\ owned'.children = DiscoveredChildren(listed)
           /\ owned'.rootDone = owned.rootDone
           /\ UNCHANGED proc
<1>0. listed \in SUBSET Visible
  BY ListingFacts DEF Discovery, IInv, TypeOK
<1>1. owned.root = Root \/ (launch = "anchor" /\ Root \in listed)
  BY DEF IInv, AnchorInv, AnchorRoot, TrackOwnership, SignalSnapshot, Discovery
<1>2. AnchoredRoot(listed) = Root
  BY <1>0, <1>1, AnchoredIsRoot DEF IInv
<1>3. UNCHANGED proc
  BY DEF AnchorRoot, TrackOwnership, SignalSnapshot, Discovery
<1> QED
  BY <1>0, <1>2, <1>3 DEF Discover, Discovery, IInv, TypeOK

(* The root is anchored once, before the goroutines that rely on it start.  *)
LEMMA AnchorStep == IInv /\ [Next]_vars => AnchorInv'
<1> SUFFICES ASSUME IInv, [Next]_vars PROVE AnchorInv'
  OBVIOUS
<1> USE DEF IInv, AnchorInv
<1>1. CASE Discovers
  BY <1>1, DiscoveryStep DEF Discovers
<1> SUFFICES ASSUME ~Discovers PROVE AnchorInv'
  BY <1>1
<1>2. owned'.root = owned.root
  BY UndiscoveredStep
<1>3. CASE UNCHANGED <<launch, tracker, sig, cleanupErr>>
  BY <1>2, <1>3
<1>4. CASE Environment
  BY <1>3, <1>4 DEF Environment, Exit, ForkChild, ForkStray, Detach, Reuse
<1>5. CASE \E op \in Operations : SignalNothing(op) \/ SignalUnanchored(op)
  BY <1>3, <1>5 DEF SignalNothing, SignalUnanchored
<1>6. CASE \E op \in Operations : SignalBegins(op)
  <2>1. owned.root = Root /\ UNCHANGED <<launch, tracker, cleanupErr>>
    BY <1>6 DEF SignalBegins, Anchored
  <2> QED
    BY <1>2, <2>1
<1>7. CASE Signals
  <2>1. sig.step # "idle" /\ UNCHANGED <<launch, tracker, cleanupErr>>
    BY <1>7 DEF Signals, SignalSnapshot, SignalGroup, SignalEscaped, SignalEnds
  <2> QED
    BY <1>2, <2>1
<1>8. CASE Tracker
  <2>1. tracker # "off" /\ UNCHANGED <<launch, sig>>
    BY <1>8 DEF Tracker, TrackOwnership, CheckComplete
  <2> QED
    BY <1>2, <2>1
<1>9. CASE ReapRoot \/ PublishDone
  BY <1>3, <1>9 DEF ReapRoot, PublishDone
<1>10. CASE RootDone
  <2>1. UNCHANGED <<launch, tracker, sig>> /\ cleanupErr \subseteq cleanupErr'
    BY <1>10 DEF RootDone
  <2> QED
    BY <1>2, <2>1
<1>11. CASE StartFails \/ StartRoot
  <2>1. UNCHANGED <<tracker, sig, cleanupErr>> /\ launch' # "owned"
    BY <1>11 DEF StartFails, StartRoot
  <2> QED
    BY <1>2, <2>1
<1>12. CASE AnchorRoot
  BY <1>12 DEF AnchorRoot, Discovers, Discovery
<1>13. CASE AnchorFails
  <2>1. UNCHANGED <<tracker, sig>> /\ "anchor" \in cleanupErr' /\ launch = "anchor"
    BY <1>13 DEF AnchorFails
  <2> QED
    BY <1>2, <2>1 DEF LaunchInv
<1>14. CASE UNCHANGED vars
  BY <1>3, <1>14
<1> QED
  BY <1>4, <1>5, <1>6, <1>7, <1>8, <1>9, <1>10, <1>11, <1>12, <1>13, <1>14 DEF Next, Clients, Reaper

(* No descendant is dropped while it is in the process table and listed.    *)
LEMMA ChildrenStep == IInv /\ [Next]_vars => ChildrenInv'
<1> SUFFICES ASSUME IInv, [Next]_vars PROVE ChildrenInv'
  OBVIOUS
<1>h. \A q \in Procs : /\ proc[q].st = "gone" => proc'[q].st = "gone"
                       /\ proc[q].st # "absent" => proc'[q].st # "absent"
  BY History DEF IInv
<1>1. ASSUME NEW listed \in Listings(faults), Discovery(listed) PROVE ChildrenInv'
  <2> DEFINE D == DiscoveredChildren(listed)
  <2>1. /\ owned'.root = Root /\ owned'.children = D /\ UNCHANGED proc
        /\ known' = known \cup D
        /\ omitted' = (omitted \cup (known \cap (Visible \ listed))) \ D
    BY <1>1, DiscoveryStep DEF Discovery, Discover
  <2>2. /\ D \subseteq Descendants \cap listed /\ listed \subseteq Visible
        /\ owned.children \cap listed \subseteq D
    BY <1>1, DiscoveryStep, DiscoveryFacts DEF IInv
  <2> HIDE DEF D
  <2>3. ASSUME NEW p \in known'
        PROVE  /\ p \in Descendants /\ proc'[p].st # "absent"
               /\ p \in owned'.children \/ proc'[p].st = "gone" \/ p \in omitted'
    <3>1. CASE p \in D
      BY <2>1, <2>2, <3>1 DEF Visible
    <3>2. CASE p \in known /\ p \notin D
      <4>1. /\ p \in Descendants /\ proc[p].st # "absent"
            /\ p \in owned.children \/ proc[p].st = "gone" \/ p \in omitted
        BY <3>2 DEF IInv, ChildrenInv
      <4>2. p \notin owned.children \/ p \notin listed
        BY <2>2, <3>2
      <4>3. proc[p].st \in {"absent", "running", "zombie", "gone"}
        BY <4>1 DEF IInv, TypeOK
      <4> QED
        BY <2>1, <3>2, <4>1, <4>2, <4>3 DEF Visible
    <3> QED
      BY <2>1, <2>3, <3>1, <3>2
  <2> QED
    BY <2>1, <2>3 DEF ChildrenInv
<1>2. CASE ~Discovers
  <2>1. /\ owned'.root = owned.root /\ owned'.children = owned.children /\ known' = known
        /\ omitted' = omitted
    BY <1>2, UndiscoveredStep
  <2> QED
    BY <1>h, <2>1 DEF IInv, ChildrenInv
<1> QED
  BY <1>1, <1>2 DEF Discovers

(* A clean join is reached only by a tracker that found nothing left.       *)
LEMMA JoinStep == IInv /\ [Next]_vars => JoinInv'
<1> SUFFICES ASSUME IInv, [Next]_vars PROVE JoinInv'
  OBVIOUS
<1> USE DEF IInv
<1>1. CASE UNCHANGED <<owned, reaper, tracker, joined, cleanupErr>>
  BY <1>1 DEF JoinInv
<1>2. CASE Environment \/ Clients \/ SignalGroup \/ SignalEnds \/ (\E pid \in PIDs : SignalEscaped(pid))
           \/ StartFails \/ StartRoot \/ UNCHANGED vars
  BY <1>1, <1>2 DEF Environment, Exit, ForkChild, ForkStray, Detach, Reuse, Clients, SignalNothing,
                    SignalUnanchored, SignalBegins, SignalGroup, SignalEnds, SignalEscaped, StartFails,
                    StartRoot
<1>3. CASE SignalSnapshot
  <2>1. UNCHANGED <<reaper, tracker, joined, cleanupErr>>
    BY <1>3 DEF SignalSnapshot
  <2>2. ASSUME NEW listed \in Listings(faults), Discovery(listed) PROVE JoinInv'
    <3>1. /\ owned'.root = Root /\ owned'.children = DiscoveredChildren(listed)
          /\ owned'.rootDone = owned.rootDone
      BY <2>2, DiscoveryStep
    <3>2. Root \notin Visible /\ owned.children = {} => DiscoveredChildren(listed) = {}
      BY <2>2, DiscoveryStep, DiscoveryFacts
    <3>3. joined => Root \notin Visible
      BY DEF JoinInv, LaunchInv, Visible
    <3> QED
      BY <2>1, <3>1, <3>2, <3>3 DEF JoinInv
  <2>3. CASE ~Discovers
    <3>1. UNCHANGED owned
      BY <1>3, <2>3 DEF SignalSnapshot, Discovers, Discovery, SnapshotFails
    <3> QED
      BY <1>1, <2>1, <3>1
  <2> QED
    BY <2>2, <2>3 DEF Discovers
<1>4. CASE AnchorRoot \/ AnchorFails
  <2>1. /\ launch = "anchor" /\ reaper' = "wait" /\ UNCHANGED joined
    BY <1>4 DEF AnchorRoot, AnchorFails
  <2>2. ~joined /\ ~owned.rootDone
    BY <2>1 DEF LaunchInv
  <2>3. owned'.rootDone = owned.rootDone
    BY <1>4 DEF AnchorRoot, AnchorFails, Discover, SnapshotFails, TypeOK
  <2> QED
    BY <2>1, <2>2, <2>3 DEF JoinInv
<1>5. CASE ReapRoot
  <2>1. UNCHANGED <<owned, tracker, joined, cleanupErr>> /\ reaper = "wait" /\ reaper' = "copy"
    BY <1>5 DEF ReapRoot
  <2> QED
    BY <2>1 DEF JoinInv
<1>6. CASE RootDone
  <2>1. /\ reaper = "copy" /\ reaper' = "publish" /\ UNCHANGED joined /\ owned'.rootDone = TRUE
    BY <1>6 DEF RootDone, TypeOK
  <2>2. ~joined
    BY <2>1 DEF JoinInv
  <2> QED
    BY <2>1, <2>2 DEF JoinInv
<1>7. CASE PublishDone
  <2>1. /\ reaper = "publish" /\ reaper' = "end" /\ UNCHANGED <<owned, tracker, cleanupErr>>
        /\ joined' = (joined \/ ~Anchored)
    BY <1>7 DEF PublishDone
  <2>2. owned.root = NoProc => "anchor" \in cleanupErr /\ tracker = "off"
    BY <2>1 DEF LaunchInv, AnchorInv, TypeOK
  <2> QED
    BY <2>1, <2>2 DEF JoinInv, Anchored
<1>8. CASE TrackOwnership
  <2>1. UNCHANGED reaper /\ tracker = "refresh"
    BY <1>8 DEF TrackOwnership
  <2>2. ~joined
    BY <2>1 DEF JoinInv
  <2>3. ASSUME NEW listed, Discover(listed), UNCHANGED joined PROVE JoinInv'
    <3>1. owned'.rootDone = owned.rootDone
      BY <2>3 DEF Discover, TypeOK
    <3> QED
      BY <2>1, <2>2, <2>3, <3>1 DEF JoinInv
  <2>4. CASE /\ UNCHANGED owned /\ "discovery" \in cleanupErr' /\ joined' = (joined \/ owned.rootDone)
             /\ tracker' = IF owned.rootDone THEN "end" ELSE "check"
    <3>1. ~joined' \/ (owned.rootDone /\ tracker' = "end")
      BY <2>2, <2>4
    <3> QED
      BY <2>1, <2>2, <2>4, <3>1 DEF JoinInv
  <2> QED
    BY <1>8, <2>3, <2>4 DEF TrackOwnership, SnapshotFails
<1>9. CASE CheckComplete
  <2> DEFINE complete == owned.rootDone /\ owned.children = {}
  <2>1. /\ UNCHANGED <<owned, reaper, cleanupErr>> /\ tracker = "check"
        /\ joined' = (joined \/ complete) /\ tracker' = IF complete THEN "end" ELSE "refresh"
    BY <1>9 DEF CheckComplete
  <2>2. ~joined /\ owned.root = Root
    BY <2>1 DEF JoinInv, AnchorInv
  <2> QED
    BY <2>1, <2>2 DEF JoinInv
<1> QED
  BY <1>2, <1>3, <1>4, <1>5, <1>6, <1>7, <1>8, <1>9 DEF Next, Signals, Reaper, Tracker

(* A signal addresses what its snapshot showed to be ours, and the process  *)
(* of somebody else that was there keeps its PID.                           *)
LEMMA SignalStep == IInv /\ [Next]_vars => SignalInv'
<1> SUFFICES ASSUME IInv, [Next]_vars PROVE SignalInv'
  OBVIOUS
<1> USE DEF IInv
<1>h. proc[Other].st # "absent" => proc'[Other].st # "absent" /\ proc'[Other].pid = proc[Other].pid
  BY History
<1>1. CASE UNCHANGED <<sig, struck>>
  BY <1>1, <1>h DEF SignalInv
<1>2. CASE Environment \/ Reaper \/ Tracker
  BY <1>1, <1>2 DEF Environment, Exit, ForkChild, ForkStray, Detach, Reuse, Reaper, ReapRoot, RootDone,
                    PublishDone, Tracker, TrackOwnership, CheckComplete
<1>3. CASE StartFails \/ StartRoot \/ AnchorRoot \/ AnchorFails \/ UNCHANGED vars
           \/ \E op \in Operations : SignalNothing(op) \/ SignalUnanchored(op)
  BY <1>1, <1>3 DEF StartFails, StartRoot, AnchorRoot, AnchorFails, SignalNothing, SignalUnanchored
<1>4. ASSUME NEW op \in Operations, SignalBegins(op) PROVE SignalInv'
  <2>1. UNCHANGED struck /\ sig' = [NoSignal EXCEPT !.step = "snapshot", !.op = op]
    BY <1>4 DEF SignalBegins
  <2> QED
    BY <2>1 DEF SignalInv, NoSignal
<1>5. CASE SignalSnapshot
  <2>1. UNCHANGED <<struck, proc>> /\ sig.step = "snapshot" /\ ~sig.seen /\ sig.op \in Operations
    BY <1>5 DEF SignalSnapshot, SignalInv
  <2>2. CASE sig' = [sig EXCEPT !.step = "escaped", !.failed = TRUE]
    <3>1. sig'.seen = FALSE /\ sig'.step = "escaped" /\ sig'.op = sig.op
      BY <2>1, <2>2 DEF TypeOK
    <3> QED
      BY <2>1, <3>1 DEF SignalInv
  <2>3. ASSUME NEW listed \in Listings(faults), Discover(listed),
               sig' = [sig EXCEPT !.step = "group", !.group = GroupIsOwned(listed),
                                  !.pids = EscapedPIDs(listed), !.seen = (Other \in Visible)]
        PROVE  SignalInv'
    <3>1. /\ sig'.step = "group" /\ sig'.op = sig.op /\ sig'.group = GroupIsOwned(listed)
          /\ sig'.pids = EscapedPIDs(listed) /\ sig'.seen = (Other \in Visible)
      BY <2>3 DEF TypeOK
    <3>2. /\ AnchoredRoot(listed) = Root /\ listed \subseteq Visible
          /\ DiscoveredChildren(listed) \subseteq Descendants \cap listed
      BY <1>5, <2>3, DiscoveryStep, DiscoveryFacts DEF Discovery
    <3>3. ASSUME Other \in Visible PROVE proc[Other].pid \notin EscapedPIDs(listed)
      <4> SUFFICES ASSUME NEW p \in DiscoveredChildren(listed), proc[p].pid = proc[Other].pid PROVE FALSE
        BY DEF EscapedPIDs
      <4>1. p \in Ours /\ p \in Visible /\ proc[p].st # "absent" /\ proc[p].st # "gone"
        BY <3>2 DEF Ours, Visible
      <4>2. PICK q \in Ours : proc[q].st = "gone" /\ proc[q].pid = proc[Other].pid
        BY <3>3 DEF OtherInv, Visible
      <4>3. p = q
        BY <4>1, <4>2, PIDFacts DEF Ours
      <4> QED
        BY <4>1, <4>2, <4>3
    <3>4. ASSUME Other \in Visible, GroupIsOwned(listed) PROVE proc[Other].pid # RootPID
      <4>1. PICK p \in DiscoveredChildren(listed) \cup (At(listed, RootPID) \cap {Root}) :
                   proc[p].pgid = RootPID
        BY <3>2, <3>4 DEF GroupIsOwned
      <4>2. p \in Ours \cap Visible
        BY <3>2, <4>1 DEF Ours, At
      <4> QED
        BY <3>4, <4>1, <4>2 DEF OtherInv, Visible
    <3> QED
      BY <2>1, <3>1, <3>3, <3>4 DEF SignalInv, Visible
  <2> QED
    BY <1>5, <2>2, <2>3 DEF SignalSnapshot
<1>6. CASE SignalGroup
  <2>1. /\ sig.step = "group" /\ sig'.step = "escaped"
        /\ sig'.op = sig.op /\ sig'.group = sig.group /\ sig'.pids = sig.pids /\ sig'.seen = sig.seen
    BY <1>6 DEF SignalGroup, TypeOK
  <2>2. ~struck /\ (sig.seen /\ sig.group => Other \notin Group(Visible, RootPID))
    BY DEF SignalInv, OtherInv, Group
  <2>3. ~struck'
    BY <1>6, <2>2, Zenon DEF SignalGroup, Deliver, KillFails
  <2> QED
    BY <1>h, <2>1, <2>3 DEF SignalInv
<1>7. ASSUME NEW pid \in PIDs, SignalEscaped(pid) PROVE SignalInv'
  <2>1. /\ pid \in sig.pids /\ sig.step = "escaped" /\ sig'.step = sig.step
        /\ sig'.op = sig.op /\ sig'.group = sig.group /\ sig'.pids \subseteq sig.pids /\ sig'.seen = sig.seen
    <3>1. /\ pid \in sig.pids /\ sig.step = "escaped"
          /\ \/ sig' = [sig EXCEPT !.pids = @ \ {pid}]
             \/ sig' = [sig EXCEPT !.pids = @ \ {pid}, !.failed = TRUE]
      BY <1>7 DEF SignalEscaped
    <3>2. SigOK
      BY TypeParts
    <3> QED
      BY <3>1, <3>2 DEF SigOK
  <2>2. ~struck /\ (sig.seen => Other \notin At(Visible, pid))
    BY <2>1 DEF SignalInv, At
  <2>3. ~struck'
    BY <1>7, <2>2, Zenon DEF SignalEscaped, Deliver, KillFails
  <2> QED
    BY <1>h, <2>1, <2>3 DEF SignalInv
<1>8. CASE SignalEnds
  <2>1. UNCHANGED struck /\ sig' = NoSignal
    BY <1>8 DEF SignalEnds
  <2> QED
    BY <2>1 DEF SignalInv, NoSignal
<1> QED
  BY <1>2, <1>3, <1>4, <1>5, <1>6, <1>7, <1>8 DEF Next, Clients, Signals

-----------------------------------------------------------------------------
(* The invariant holds before the launch.                                   *)
LEMMA InitInv == Init => IInv
<1> SUFFICES ASSUME Init PROVE IInv
  OBVIOUS
<1>1. proc \in [Procs -> Record] /\ \A p \in Procs : proc[p] = NoProcess
  BY DEF Init
<1>2. OwnedOK /\ SigOK /\ FlagsOK /\ PlainOK
  <2>1. OwnedOK
    BY DEF Init, OwnedOK
  <2>2. SigOK
    BY DEF Init, SigOK, NoSignal
  <2>3. FlagsOK
    BY Zenon DEF Init, FlagsOK
  <2>4. PlainOK
    <3>1. inherits \in BOOLEAN
      BY Zenon DEF Init
    <3> QED
      BY <3>1 DEF Init, PlainOK
  <2> QED
    BY <2>1, <2>2, <2>3, <2>4
<1>3. TypeOK
  BY <1>1, <1>2, TypeParts
<1>4. PIDInv /\ FamilyInv /\ OtherInv
  BY <1>1 DEF PIDInv, FamilyInv, OtherInv
<1>5. LaunchInv /\ AnchorInv /\ ChildrenInv /\ JoinInv
  BY <1>1 DEF Init, LaunchInv, AnchorInv, ChildrenInv, JoinInv, NoSignal
<1>6. SignalInv
  BY DEF Init, SignalInv, NoSignal
<1> QED
  BY <1>3, <1>4, <1>5, <1>6 DEF IInv

(***************************************************************************)
(* The type, table, launch, anchor, children, join and signal invariants   *)
(* are together inductive.                                                 *)
(***************************************************************************)
THEOREM Inductive == Spec => []IInv
<1>1. IInv /\ [Next]_vars => TypeOK'
  <2> SUFFICES ASSUME IInv, [Next]_vars PROVE TypeOK'
    OBVIOUS
  <2>1. OwnedOK' /\ SigOK' /\ FlagsOK' /\ PlainOK'
    BY TypeParts, OwnedStep, SigStep, FlagsStep, PlainStep DEF IInv
  <2>2. proc' \in [Procs -> Record]
    BY History DEF IInv
  <2> QED
    BY <2>1, <2>2, Zenon DEF TypeOK, OwnedOK, SigOK, FlagsOK, PlainOK
<1>2. IInv /\ [Next]_vars => IInv'
  BY <1>1, TableStep, LaunchStep, AnchorStep, ChildrenStep, JoinStep, SignalStep DEF IInv
<1> QED
  BY <1>2, InitInv, PTL DEF Spec

(***************************************************************************)
(* Every variable of a launched process keeps its type, for every number   *)
(* of faults and every reuse of PIDs.                                      *)
(***************************************************************************)
THEOREM TypeCorrect == Spec => []TypeOK
<1>1. IInv => TypeOK
  BY DEF IInv
<1> QED
  BY <1>1, Inductive, PTL

(***************************************************************************)
(* A nil answer of Wait means that the root was reaped and that every      *)
(* descendant ever seen to belong to it has left the process table, unless *)
(* a snapshot that succeeded left it out and no later one found it again.  *)
(***************************************************************************)
THEOREM WaitContains == Spec => []CleanWaitContains
<1>1. IInv => CleanWaitContains
  <2> SUFFICES ASSUME IInv, WaitResult = "clean"
               PROVE  /\ proc[Root].st = "gone"
                      /\ \A p \in known : proc[p].st = "gone" \/ p \in omitted
    BY DEF CleanWaitContains
  <2>1. joined /\ cleanupErr = {}
    BY DEF WaitResult
  <2>2. owned.rootDone /\ owned.children = {}
    BY <2>1 DEF IInv, JoinInv
  <2> QED
    BY <2>2 DEF IInv, JoinInv, LaunchInv, ChildrenInv
<1> QED
  BY <1>1, Inductive, PTL

(***************************************************************************)
(* Whatever PIDs and groups the system reuses, no signal reaches a process *)
(* of somebody else that the snapshot before it showed.                    *)
(***************************************************************************)
THEOREM ReuseSafe == Spec => []ReusedNeverSignalled
<1>1. IInv => ReusedNeverSignalled
  BY DEF IInv, SignalInv, ReusedNeverSignalled
<1> QED
  BY <1>1, Inductive, PTL

(***************************************************************************)
(* What Wait answered stays the answer: no failure joins cleanupErr after  *)
(* joined closed, and a late signal finds no child after a clean join.     *)
(***************************************************************************)
THEOREM JoinFinal == Spec => JoinIsFinal
<1>1. IInv /\ [Next]_vars =>
        [joined => /\ cleanupErr' = cleanupErr
                   /\ cleanupErr = {} => owned'.children = {}]_vars
  <2> SUFFICES ASSUME IInv, [Next]_vars, joined
               PROVE  cleanupErr' = cleanupErr /\ (cleanupErr = {} => owned'.children = {})
    OBVIOUS
  <2> USE DEF IInv
  <2>1. joined'
    <3>1. CASE PublishDone \/ Tracker
      BY <3>1 DEF PublishDone, Tracker, TrackOwnership, CheckComplete
    <3>2. CASE Environment \/ Clients \/ Signals
      BY <3>2 DEF Environment, Exit, ForkChild, ForkStray, Detach, Reuse, Clients, SignalNothing,
                  SignalUnanchored, SignalBegins, Signals, SignalSnapshot, SignalGroup, SignalEscaped,
                  SignalEnds
    <3> QED
      BY <3>1, <3>2 DEF Next, Reaper, ReapRoot, RootDone, StartFails, StartRoot, AnchorRoot, AnchorFails
  <2>2. cleanupErr' = cleanupErr
    <3>1. reaper \in {"publish", "end"} /\ tracker \in {"off", "end"} /\ launch # "anchor"
      BY DEF JoinInv, LaunchInv
    <3>2. CASE Environment \/ Clients \/ Signals
      BY <3>2 DEF Environment, Exit, ForkChild, ForkStray, Detach, Reuse, Clients, SignalNothing,
                  SignalUnanchored, SignalBegins, Signals, SignalSnapshot, SignalGroup, SignalEscaped,
                  SignalEnds
    <3>3. CASE Reaper \/ Tracker
      BY <3>1, <3>3 DEF Reaper, ReapRoot, RootDone, PublishDone, Tracker, TrackOwnership, CheckComplete
    <3> QED
      BY <3>1, <3>2, <3>3 DEF Next, StartFails, StartRoot, AnchorRoot, AnchorFails
  <2>3. JoinInv'
    BY JoinStep
  <2> QED
    BY <2>1, <2>2, <2>3 DEF JoinInv
<1> QED
  BY <1>1, Inductive, PTL DEF Spec, JoinIsFinal
=============================================================================
