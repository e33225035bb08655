----------------------------- MODULE ToolProcess -----------------------------
(***************************************************************************)
(* One process launched for a coding tool or a runtime plugin on Linux and *)
(* macOS (src/internal/processplatform): Launcher.Start, the reaper and    *)
(* ownership tracker of unixProcess, RequestStop and ForceKill called by   *)
(* any client at any time, and the join that Wait reports.                 *)
(***************************************************************************)
EXTENDS ProcessTable

CONSTANTS
    MaxFaults,  \* failing process-table reads and kill calls in a behaviour
    ReusedPIDs  \* PIDs the system may give to a process of somebody else

ASSUME ToolFaultsAssumption == MaxFaults \in Nat
ASSUME ToolReusedAssumption == ReusedPIDs \subseteq Nat

VARIABLES
    faults,     \* failures that may still happen
    launch,     \* progress and result of Launcher.Start
    inherits,   \* descendants keep the output pipes of the root open
    owned,      \* unixProcess fields: root, children, rootDone
    cleanupErr, \* unixProcess.cleanupErr, as a set of failures
    reaper,     \* reap goroutine
    tracker,    \* trackOwnership goroutine
    done,       \* the done channel is closed
    joined,     \* the joined channel is closed
    outcome,    \* root outcome
    signalled,  \* stopSent and killSent
    sig,        \* signal in progress: it holds signalMu, and discoveryMu
    known,      \* history variable: every descendant ever owned
    omitted,    \* history variable: those of them that a successful snapshot
                \* left out, and no later one found again
    struck      \* history variable: a process of somebody else was signalled that
                \* was there before the snapshot

osVars     == <<proc, doomed, faults, inherits>>
stateVars  == <<owned, cleanupErr, known, omitted>>
threadVars == <<launch, reaper, tracker, done, joined, outcome, signalled, sig, struck>>
vars == <<osVars, stateVars, threadVars>>

Operations == {"stop", "kill"}
Failures == {"anchor", "abort", "discovery", "copy"}

NoSignal == [step |-> "idle", op |-> "none", group |-> FALSE, pids |-> {}, seen |-> FALSE,
             failed |-> FALSE]

Init ==
    /\ proc = [p \in Procs |-> NoProcess]
    /\ doomed = {}
    /\ faults = MaxFaults
    /\ inherits \in BOOLEAN
    /\ launch = "idle"
    /\ owned = [root |-> NoProc, children |-> {}, rootDone |-> FALSE]
    /\ cleanupErr = {}
    /\ reaper = "off"
    /\ tracker = "off"
    /\ done = FALSE
    /\ joined = FALSE
    /\ outcome = "none"
    /\ signalled = {}
    /\ sig = NoSignal
    /\ known = {}
    /\ omitted = {}
    /\ struck = FALSE

-----------------------------------------------------------------------------
(* The operating system and the tool's own processes *)

Descendants == {Child, Stray}

\* The launched process and its child may end by themselves; a killed one will.
\* Only the root's own death by signal is remembered: it is its outcome.
Exit(p) ==
    /\ proc[p].st = "running"
    /\ p \in {Root, Child} \cup doomed
    /\ proc' = IF p = Child THEN [Died(Child) EXCEPT ![Child].st = "gone"] ELSE Died(p)
    /\ doomed' = IF p = Root THEN doomed ELSE doomed \ {p}
    /\ UNCHANGED <<faults, inherits, stateVars, threadVars>>

\* The root starts a child in its process group.
ForkChild ==
    /\ Active(Root)
    /\ proc[Child].st = "absent"
    /\ proc' = [proc EXCEPT ![Child] = Born(ChildPID, RootPID, RootPID)]
    /\ UNCHANGED <<doomed, faults, inherits, stateVars, threadVars>>

\* The child forks once more.
ForkStray ==
    /\ Active(Child)
    /\ proc[Stray].st = "absent"
    /\ proc' = [proc EXCEPT ![Stray] = Born(StrayPID, ChildPID, RootPID)]
    /\ UNCHANGED <<doomed, faults, inherits, stateVars, threadVars>>

\* That process detaches into a process group of its own.
Detach ==
    /\ Active(Stray)
    /\ proc[Stray].pgid # StrayPID
    /\ proc' = [proc EXCEPT ![Stray].pgid = StrayPID]
    /\ UNCHANGED <<doomed, faults, inherits, stateVars, threadVars>>

\* A process of somebody else starts and gets a PID that became free.
Reuse(pid) ==
    /\ proc[Other].st = "absent"
    /\ PIDFree(pid)
    /\ proc' = [proc EXCEPT ![Other] = Born(pid, InitPID, pid)]
    /\ UNCHANGED <<doomed, faults, inherits, stateVars, threadVars>>

-----------------------------------------------------------------------------
(* discoverLocked over the processes a snapshot listed *)

Anchored == owned.root # NoProc

AnchoredRoot(listed) ==
    IF ~Anchored /\ ~owned.rootDone /\ At(listed, RootPID) \cap Group(listed, RootPID) # {}
    THEN CHOOSE p \in At(listed, RootPID) : TRUE
    ELSE owned.root

\* Mutant: a child is kept by its PID, without comparing birth identities.
OwnedBaseByPID(listed) ==
    {p \in listed : \E q \in (owned.children \cup {AnchoredRoot(listed)}) \ {NoProc} :
                        proc[q].pid = proc[p].pid}

\* Children whose identity is not listed are dropped; the rest is the base.
OwnedBase(listed) == (owned.children \cup {AnchoredRoot(listed)}) \cap listed

DiscoveredChildren(listed) == DescendantsOf(OwnedBase(listed), listed) \ {AnchoredRoot(listed)}

\* refreshOwnership: a discovery replaces root and children in one critical section.
Discover(listed) ==
    /\ faults' = FaultsAfter(faults, listed)
    /\ owned' = [owned EXCEPT !.root = AnchoredRoot(listed), !.children = DiscoveredChildren(listed)]
    /\ known' = known \cup DiscoveredChildren(listed)
    /\ omitted' = (omitted \cup (known \cap (Visible \ listed))) \ DiscoveredChildren(listed)

SnapshotFails ==
    /\ faults > 0
    /\ faults' = faults - 1
    /\ UNCHANGED <<owned, known, omitted>>

DiscoveryFree == sig.step \in {"idle", "snapshot"}

-----------------------------------------------------------------------------
(* Launcher.Start and startWithSnapshot *)

\* The context, the specification or the system refuses: nothing is owned.
StartFails ==
    /\ launch = "idle"
    /\ launch' = "refused"
    /\ UNCHANGED <<osVars, stateVars, reaper, tracker, done, joined, outcome, signalled, sig,
                   struck>>

\* command.Start with Setpgid; nobody reaps the root yet.
StartRoot ==
    /\ launch = "idle"
    /\ launch' = "anchor"
    /\ proc' = [proc EXCEPT ![Root] = Born(RootPID, SupervisorPID, RootPID)]
    /\ UNCHANGED <<doomed, faults, inherits, stateVars, reaper, tracker, done, joined, outcome,
                   signalled, sig, struck>>

\* The root identity is anchored and both goroutines start. When the registrar
\* refused the child, or the context ended, the caller gets the error and still
\* owns the process.
AnchorRoot ==
    /\ launch = "anchor"
    /\ \E listed \in Listings(faults) : Root \in listed /\ Discover(listed)
    /\ launch' = "owned"
    /\ reaper' = "wait"
    /\ tracker' = "refresh"
    /\ UNCHANGED <<proc, doomed, inherits, cleanupErr, done, joined, outcome, signalled, sig,
                   struck>>

\* The root cannot be anchored, for the snapshot failed or did not list it: it is
\* killed through its process handle, which may fail too, and only the reaper
\* starts.
AnchorFails ==
    /\ launch = "anchor"
    /\ \/ SnapshotFails
       \/ \E listed \in Listings(faults) : Root \notin listed /\ Discover(listed)
    /\ \/ /\ doomed' = doomed \cup Killed({Root})
          /\ cleanupErr' = cleanupErr \cup {"anchor"}
       \/ /\ cleanupErr' = cleanupErr \cup {"anchor", "abort"}
          /\ UNCHANGED doomed
    /\ launch' = "owned"
    /\ reaper' = "wait"
    /\ UNCHANGED <<proc, inherits, tracker, done, joined, outcome, signalled, sig, struck>>

-----------------------------------------------------------------------------
(* reap *)

\* command.Wait collects the exit status of the root ...
ReapRoot ==
    /\ reaper = "wait"
    /\ proc[Root].st = "zombie"
    /\ proc' = [proc EXCEPT ![Root].st = "gone"]
    /\ reaper' = "copy"
    /\ UNCHANGED <<doomed, faults, inherits, stateVars, launch, tracker, done, joined, outcome,
                   signalled, sig, struck>>

\* ... returns when nobody holds the output pipes any more, and the outcome
\* becomes stable. A stream that could not be copied is a cleanup failure. The
\* copy of the caller's input is taken to end: the launched tools read from
\* memory.
RootDone ==
    /\ reaper = "copy"
    /\ inherits => \A p \in Descendants : proc[p].st # "running"
    /\ \/ UNCHANGED <<faults, cleanupErr>>
       \/ faults > 0 /\ faults' = faults - 1 /\ cleanupErr' = cleanupErr \cup {"copy"}
    /\ owned' = [owned EXCEPT !.rootDone = TRUE]
    /\ outcome' = IF Root \in doomed THEN "signaled" ELSE "exited"
    /\ reaper' = "publish"
    /\ UNCHANGED <<proc, doomed, inherits, known, omitted, launch, tracker, done, joined, signalled,
                   sig, struck>>

\* Mutant: the reaper of an unanchored root leaves the join to the tracker.
PublishDoneOnly ==
    /\ reaper = "publish"
    /\ done' = TRUE
    /\ reaper' = "end"
    /\ UNCHANGED <<osVars, stateVars, launch, tracker, joined, outcome, signalled, sig, struck>>

\* Mutant: a cleanup failure is recorded when done closes, after rootDone.
PublishDoneLate ==
    /\ reaper = "publish"
    /\ done' = TRUE
    /\ joined' = (joined \/ ~Anchored)
    /\ reaper' = "end"
    /\ cleanupErr' \in {cleanupErr, cleanupErr \cup {"copy"}}
    /\ UNCHANGED <<osVars, owned, known, omitted, launch, tracker, outcome, signalled, sig, struck>>

\* done closes after the lock was released; an unanchored root has no tracker
\* to finish the join.
PublishDone ==
    /\ reaper = "publish"
    /\ done' = TRUE
    /\ joined' = (joined \/ ~Anchored)
    /\ reaper' = "end"
    /\ UNCHANGED <<osVars, stateVars, launch, tracker, outcome, signalled, sig, struck>>

-----------------------------------------------------------------------------
(* trackOwnership *)

TrackOwnership ==
    /\ tracker = "refresh" /\ DiscoveryFree
    /\ \/ /\ \E listed \in Listings(faults) : Discover(listed)
          /\ tracker' = "check"
          /\ UNCHANGED <<cleanupErr, joined>>
       \/ /\ SnapshotFails
          /\ cleanupErr' = cleanupErr \cup {"discovery"}
          /\ tracker' = IF owned.rootDone THEN "end" ELSE "check"
          /\ joined' = (joined \/ owned.rootDone)
    /\ UNCHANGED <<proc, doomed, inherits, launch, reaper, done, outcome, signalled, sig, struck>>

\* Mutant: the join does not wait for known children.
CheckRootOnly ==
    /\ tracker = "check"
    /\ joined' = (joined \/ owned.rootDone)
    /\ tracker' = IF owned.rootDone THEN "end" ELSE "refresh"
    /\ UNCHANGED <<osVars, stateVars, launch, reaper, done, outcome, signalled, sig, struck>>

\* The join is complete when the root is done and no child is known; rootDone
\* is read after the discovery.
CheckComplete ==
    /\ tracker = "check"
    /\ LET complete == owned.rootDone /\ owned.children = {} IN
       /\ joined' = (joined \/ complete)
       /\ tracker' = IF complete THEN "end" ELSE "refresh"
    /\ UNCHANGED <<osVars, stateVars, launch, reaper, done, outcome, signalled, sig, struck>>

-----------------------------------------------------------------------------
(* RequestStop and ForceKill: signal *)

\* The operation succeeded before, everything is joined, or an unanchored root
\* is already done: nothing is signalled.
SignalNothing(op) ==
    /\ launch = "owned"
    /\ sig.step = "idle"
    /\ op \in signalled \/ joined \/ (~Anchored /\ owned.rootDone)
    /\ signalled' = signalled \cup {op}
    /\ UNCHANGED <<osVars, stateVars, launch, reaper, tracker, done, joined, outcome, sig, struck>>

\* An unanchored root is signalled through its process handle, which does nothing
\* once the root was reaped. A signal that fails leaves the operation to a retry.
SignalUnanchored(op) ==
    /\ launch = "owned"
    /\ sig.step = "idle"
    /\ op \notin signalled /\ ~joined /\ ~Anchored /\ ~owned.rootDone
    /\ \/ /\ doomed' = IF op = "kill" THEN doomed \cup Killed({Root}) ELSE doomed
          /\ signalled' = signalled \cup {op}
       \/ UNCHANGED <<doomed, signalled>>
    /\ UNCHANGED <<proc, faults, inherits, stateVars, launch, reaper, tracker, done, joined,
                   outcome, sig, struck>>

SignalBegins(op) ==
    /\ launch = "owned"
    /\ sig.step = "idle"
    /\ op \notin signalled /\ ~joined /\ Anchored
    /\ sig' = [NoSignal EXCEPT !.step = "snapshot", !.op = op]
    /\ UNCHANGED <<osVars, stateVars, launch, reaper, tracker, done, joined, outcome, signalled,
                   struck>>

\* groupIsOwned: the root or a known child is listed and still in the group.
GroupIsOwned(listed) ==
    \E p \in DiscoveredChildren(listed) \cup (At(listed, RootPID) \cap {AnchoredRoot(listed)}) :
        proc[p].pgid = RootPID

EscapedPIDs(listed) ==
    {proc[p].pid : p \in {q \in DiscoveredChildren(listed) : proc[q].pgid # RootPID}}

\* signalOwned verifies identities in one snapshot and signals afterwards.
SignalSnapshot ==
    /\ sig.step = "snapshot"
    /\ \/ \E listed \in Listings(faults) :
             /\ Discover(listed)
             /\ sig' = [sig EXCEPT !.step = "group", !.group = GroupIsOwned(listed),
                                   !.pids = EscapedPIDs(listed), !.seen = (Other \in Visible)]
       \/ /\ SnapshotFails
          /\ sig' = [sig EXCEPT !.step = "escaped", !.failed = TRUE]
    /\ UNCHANGED <<proc, doomed, inherits, cleanupErr, launch, reaper, tracker, done, joined,
                   outcome, signalled, struck>>

\* kill(2) reaches whoever holds the PID or the group now.
Deliver(targets) ==
    /\ doomed' = IF sig.op = "kill" THEN doomed \cup Killed(targets) ELSE doomed
    /\ struck' = (struck \/ (sig.seen /\ Other \in targets))

KillFails ==
    /\ faults > 0
    /\ faults' = faults - 1
    /\ UNCHANGED <<doomed, struck>>

SignalGroup ==
    /\ sig.step = "group"
    /\ \/ /\ sig.group
          /\ Deliver(Group(Visible, RootPID))
          /\ sig' = [sig EXCEPT !.step = "escaped"]
          /\ UNCHANGED faults
       \/ /\ sig.group
          /\ KillFails
          /\ sig' = [sig EXCEPT !.step = "escaped", !.failed = TRUE]
       \/ /\ ~sig.group
          /\ sig' = [sig EXCEPT !.step = "escaped"]
          /\ UNCHANGED <<doomed, struck, faults>>
    /\ UNCHANGED <<proc, inherits, stateVars, launch, reaper, tracker, done, joined, outcome,
                   signalled>>

SignalEscaped(pid) ==
    /\ sig.step = "escaped"
    /\ pid \in sig.pids
    /\ \/ /\ Deliver(At(Visible, pid))
          /\ sig' = [sig EXCEPT !.pids = @ \ {pid}]
          /\ UNCHANGED faults
       \/ /\ KillFails
          /\ sig' = [sig EXCEPT !.pids = @ \ {pid}, !.failed = TRUE]
    /\ UNCHANGED <<proc, inherits, stateVars, launch, reaper, tracker, done, joined, outcome,
                   signalled>>

\* Only success is remembered: a failure leaves the operation to a retry.
SignalEnds ==
    /\ sig.step = "escaped" /\ sig.pids = {}
    /\ signalled' = IF sig.failed THEN signalled ELSE signalled \cup {sig.op}
    /\ sig' = NoSignal
    /\ UNCHANGED <<osVars, stateVars, launch, reaper, tracker, done, joined, outcome, struck>>

\* What Wait answers to a context that does not end.
WaitResult ==
    CASE ~joined -> "pending"
      [] joined /\ cleanupErr = {} -> "clean"
      [] OTHER -> "containment error"

-----------------------------------------------------------------------------
Environment ==
    \/ \E p \in Procs : Exit(p)
    \/ ForkChild \/ ForkStray \/ Detach
    \/ \E pid \in ReusedPIDs : Reuse(pid)

Clients == \E op \in Operations : SignalNothing(op) \/ SignalUnanchored(op) \/ SignalBegins(op)

Signals ==
    \/ SignalSnapshot \/ SignalGroup \/ SignalEnds
    \/ \E pid \in PIDs : SignalEscaped(pid)

Reaper == ReapRoot \/ RootDone \/ PublishDone
Tracker == TrackOwnership \/ CheckComplete

Next ==
    \/ Environment \/ Clients \/ Signals \/ Reaper \/ Tracker
    \/ StartFails \/ StartRoot \/ AnchorRoot \/ AnchorFails

Spec == Init /\ [][Next]_vars

\* The goroutines of the process run and the system ends a killed process.
Fairness ==
    /\ WF_vars(AnchorRoot \/ AnchorFails \/ Reaper \/ \E p \in doomed : Exit(p))
    /\ WF_vars(Tracker) /\ WF_vars(Signals)

FairSpec == Spec /\ Fairness

-----------------------------------------------------------------------------
TypeOK ==
    /\ proc \in [Procs -> Record]
    /\ doomed \subseteq Procs
    /\ faults \in 0 .. MaxFaults
    /\ inherits \in BOOLEAN
    /\ launch \in {"idle", "refused", "anchor", "owned"}
    /\ owned \in [root : Procs \cup {NoProc}, children : SUBSET Procs, rootDone : BOOLEAN]
    /\ cleanupErr \subseteq Failures
    /\ reaper \in {"off", "wait", "copy", "publish", "end"}
    /\ tracker \in {"off", "refresh", "check", "end"}
    /\ done \in BOOLEAN /\ joined \in BOOLEAN
    /\ outcome \in {"none", "exited", "signaled"}
    /\ signalled \subseteq Operations
    /\ sig \in [step : {"idle", "snapshot", "group", "escaped"}, op : Operations \cup {"none"},
                group : BOOLEAN, pids : SUBSET PIDs, seen : BOOLEAN, failed : BOOLEAN]
    /\ known \subseteq Procs
    /\ omitted \subseteq Procs
    /\ struck \in BOOLEAN

\* Wait answers nil only when the root was reaped and every descendant that was
\* ever seen to belong to it has left the process table, so that the tool cannot
\* report successful cleanup with one of them outstanding (trackOwnership, Wait).
\* The exception is a descendant that a snapshot left out and no later one found
\* again: it is forgotten (discoverLocked).
CleanWaitContains ==
    WaitResult = "clean" =>
        proc[Root].st = "gone" /\ \A p \in known : proc[p].st = "gone" \/ p \in omitted

\* What the comment on unixProcess says: it "fails containment proof if
\* process-table inspection fails" (unix_process_unix.go:28-29), so a clean Wait
\* means that every descendant ever seen is gone, without exception.
InspectionFailuresReported ==
    WaitResult = "clean" => \A p \in known : proc[p].st = "gone"

\* A process of somebody else that took over a PID or a group before the
\* snapshot is never signalled, also when the root was never anchored
\* (discoverLocked, groupIsOwned, signalEscapedChildren, signalUnanchoredRoot).
ReusedNeverSignalled == ~struck

\* What Wait answers does not change once it has answered: no failure is joined
\* to cleanupErr after joined closed, and after a clean join a signal still in
\* progress finds no child.
JoinIsFinal ==
    [][joined => /\ cleanupErr' = cleanupErr
                 /\ cleanupErr = {} => owned'.children = {}]_vars

\* Once every live process of the tool has a pending SIGKILL the join completes,
\* with or without a tracker, whoever holds the pipes and whatever inspection
\* failed: a launch that could not be anchored included.
KilledJoins ==
    (reaper # "off" /\ \A p \in {Root} \cup Descendants : ~Active(p)) ~> joined

\* What the comment on unixProcess says: it "catches ordinary descendants"
\* (unix_process_unix.go:25), so a clean Wait leaves nothing in the tool's own
\* process group.
OrdinaryDescendantsCaught ==
    WaitResult = "clean" =>
        \A p \in Descendants : proc[p].st = "running" => proc[p].pgid # RootPID

=============================================================================
