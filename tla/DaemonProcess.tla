---------------------------- MODULE DaemonProcess ----------------------------
(***************************************************************************)
(* Ownership of the managed daemon on Linux and macOS                      *)
(* (src/internal/daemonprocess): the Starter launches spice-agentd in a    *)
(* process group of its own, a tracker and a registration server keep the  *)
(* set of descendants the supervisor owns, escalation signals them, and    *)
(* Close kills what is left once the root has been reaped.                 *)
(* The operating system is part of the model (ProcessTable).               *)
(***************************************************************************)
EXTENDS ProcessTable

CONSTANTS
    MaxFaults,  \* failing system calls (table reads, kill, read, close) in a behaviour
    ReusedPIDs  \* PIDs the system may give to a process of somebody else

ASSUME FaultsAssumption == MaxFaults \in Nat
ASSUME ReusedAssumption == ReusedPIDs \subseteq Nat

VARIABLES
    faults,     \* failures that may still happen
    starter,    \* Starter.Start and processFactory.start
    supervisor, \* unixLaunchedProcess fields: root, children, rootDone, ...
    history,    \* unixLaunchedProcess.history, as a set of failures
    tracker,    \* trackDescendants goroutine
    server,     \* serveRegistrations goroutine
    drain,      \* drainStderr goroutine
    wire,       \* the registry socket pair
    closer,     \* Process.reap goroutine, Close included
    escalation, \* Process.BeginShutdown and escalate
    operation,  \* holder of the operation mutex
    sig,        \* signalOwned in progress: it holds the discovery mutex
    launcher,   \* DescendantRegistry.Start inside the daemon
    gate,       \* gate between the daemon and its gated child
    working,    \* the gated child got past Await
    cleanup,    \* Process.cleanup, published with done
    known,      \* history variable: every descendant ever owned
    omitted,    \* history variable: those of them that a successful snapshot
                \* left out, and no later one found again
    struck      \* history variable: a process of somebody else was signalled
                \* although the snapshot showed who it was

osVars     == <<proc, doomed, faults>>
daemonVars == <<wire, launcher, gate, working>>
ownerVars  == <<supervisor, history, known, omitted>>
threadVars == <<starter, tracker, server, drain, closer, escalation, operation, sig, cleanup,
                struck>>
vars == <<osVars, daemonVars, ownerVars, threadVars>>

-----------------------------------------------------------------------------
(* discoverLocked over the processes a snapshot listed *)

\* The root identity is anchored to whatever holds the root PID until rootDone.
AnchoredRoot(listed) ==
    IF supervisor.root = NoProc /\ ~supervisor.rootDone /\ At(listed, RootPID) # {}
    THEN CHOOSE p \in At(listed, RootPID) : TRUE
    ELSE supervisor.root

\* Mutant: a child is kept by its PID, without comparing birth identities.
OwnedBaseByPID(listed) ==
    {p \in listed : \E q \in (supervisor.children \cup {AnchoredRoot(listed)}) \ {NoProc} :
                        proc[q].pid = proc[p].pid}

\* Children whose identity is not listed are dropped; the rest is the base.
OwnedBase(listed) == (supervisor.children \cup {AnchoredRoot(listed)}) \cap listed

Owned(listed) == DescendantsOf(OwnedBase(listed), listed)
DiscoveredChildren(listed) == Owned(listed) \ {AnchoredRoot(listed)}

\* refreshDescendants: a discovery replaces root and children in one critical section.
Discover(listed) ==
    /\ faults' = FaultsAfter(faults, listed)
    /\ supervisor' = [supervisor EXCEPT !.root = AnchoredRoot(listed),
                                        !.children = DiscoveredChildren(listed)]
    /\ known' = known \cup DiscoveredChildren(listed)
    /\ omitted' = (omitted \cup (known \cap (Visible \ listed))) \ DiscoveredChildren(listed)

\* refreshDescendants that fails: the snapshot could not be read.
SnapshotFails ==
    /\ faults > 0
    /\ faults' = faults - 1
    /\ UNCHANGED <<supervisor, known, omitted>>

\* signalOwned holds the discovery mutex from its snapshot to its last signal.
DiscoveryFree == sig.step \in {"idle", "snapshot"}

-----------------------------------------------------------------------------
Failures == {"anchor", "discovery", "rejected", "read", "answer", "signal", "kill",
             "timeout", "unopened", "drain", "release"}

\* A failure that is recorded, or none.
Records(failure) ==
    \/ UNCHANGED <<faults, history>>
    \/ faults > 0 /\ faults' = faults - 1 /\ history' = history \cup {failure}

NoSignal == [step |-> "idle", kind |-> "none", group |-> FALSE, pids |-> {}, seen |-> FALSE,
             failed |-> FALSE]

Init ==
    /\ proc = [p \in Procs |-> NoProcess]
    /\ doomed = {}
    /\ faults = MaxFaults
    /\ starter = "idle"
    /\ supervisor = [root |-> NoProc, children |-> {}, rootDone |-> FALSE,
                     rootOpened |-> FALSE, closed |-> FALSE]
    /\ history = {}
    /\ tracker = "off"
    /\ server = "off"
    /\ drain = "off"
    /\ wire = [request |-> 0, response |-> "none", closed |-> FALSE]
    /\ closer = "off"
    /\ escalation = "off"
    /\ operation = "free"
    /\ sig = NoSignal
    /\ launcher = "adopt"
    /\ gate = "none"
    /\ working = FALSE
    /\ cleanup = {}
    /\ known = {}
    /\ omitted = {}
    /\ struck = FALSE

-----------------------------------------------------------------------------
(* The operating system and the programs the supervisor does not control *)

\* The daemon and its child may end by themselves; a killed process will.
Exit(p) ==
    /\ proc[p].st = "running"
    /\ p \in {Root, Child} \cup doomed
    /\ proc' = Died(p)
    /\ doomed' = doomed \ {p}
    /\ UNCHANGED <<faults, daemonVars, ownerVars, threadVars>>

\* The daemon or its child forks a process nobody registers (bound: once, when
\* no launch is under way).
Fork(p) ==
    /\ p \in {Root, Child} /\ Active(p)
    /\ launcher = "serving"
    /\ p = Child => working
    /\ proc[Stray].st = "absent"
    /\ proc' = [proc EXCEPT ![Stray] = Born(StrayPID, proc[p].pid, proc[p].pgid)]
    /\ UNCHANGED <<doomed, faults, daemonVars, ownerVars, threadVars>>

\* It detaches into a process group of its own.
Detach ==
    /\ Active(Stray)
    /\ proc[Stray].pgid # StrayPID
    /\ proc' = [proc EXCEPT ![Stray].pgid = StrayPID]
    /\ UNCHANGED <<doomed, faults, daemonVars, ownerVars, threadVars>>

\* The daemon reaps its gated child: Start waits for one whose launch failed, the
\* owner of the command for the others.
Reap ==
    /\ Active(Root)
    /\ proc[Child].st = "zombie"
    /\ launcher \in {"serving", "joining"}
    /\ proc' = [proc EXCEPT ![Child].st = "gone"]
    /\ launcher' = "serving"
    /\ UNCHANGED <<doomed, faults, wire, gate, working, ownerVars, threadVars>>

\* A process of somebody else starts and gets a PID that became free.
Reuse(pid) ==
    /\ proc[Other].st = "absent"
    /\ PIDFree(pid)
    /\ proc' = [proc EXCEPT ![Other] = Born(pid, InitPID, pid)]
    /\ UNCHANGED <<doomed, faults, daemonVars, ownerVars, threadVars>>

-----------------------------------------------------------------------------
(* Starter.Start and processFactory.start *)

\* The context is done, or a pipe, a file or the process could not be made:
\* what was opened is closed again and no candidate is returned.
StartFails ==
    /\ starter = "idle"
    /\ starter' = "failed"
    /\ UNCHANGED <<osVars, daemonVars, ownerVars, tracker, server, drain, closer, escalation, operation,
                   sig, cleanup, struck>>

\* command.Start with Setpgid, then the three goroutines. A file that only the
\* daemon needs may fail to close.
StartProcess ==
    /\ starter = "idle"
    /\ starter' = "anchor"
    /\ proc' = [proc EXCEPT ![Root] = Born(RootPID, SupervisorPID, RootPID)]
    /\ Records("release")
    /\ tracker' = "running"
    /\ server' = "reading"
    /\ drain' = "copying"
    /\ UNCHANGED <<doomed, daemonVars, supervisor, known, omitted, closer, escalation, operation,
                   sig, cleanup, struck>>

\* anchorRoot succeeds and reap starts. The caller owns the process even when
\* its context ended meanwhile.
AnchorRoot ==
    /\ starter = "anchor"
    /\ \E listed \in Listings(faults) : Discover(listed) /\ AnchoredRoot(listed) # NoProc
    /\ starter' = "started"
    /\ closer' = "wait"
    /\ UNCHANGED <<proc, doomed, daemonVars, history, tracker, server, drain, escalation,
                   operation, sig, cleanup, struck>>

\* anchorRoot fails, for the snapshot failed or did not list the root: the group
\* is killed, which may fail too, one failure recorded for both, and the
\* candidate still returned, so that reap owns it.
AnchorFails ==
    /\ starter = "anchor"
    /\ \/ SnapshotFails
       \/ \E listed \in Listings(faults) : Discover(listed) /\ AnchoredRoot(listed) = NoProc
    /\ doomed' \in {doomed, doomed \cup Killed(Group(Visible, RootPID))}
    /\ history' = history \cup {"anchor"}
    /\ starter' = "unanchored"
    /\ closer' = "wait"
    /\ UNCHANGED <<proc, daemonVars, tracker, server, drain, escalation, operation, sig, cleanup,
                   struck>>

-----------------------------------------------------------------------------
(* drainStderr *)

\* The copy of the daemon's error output fails, which is recorded, or has ended
\* when Close waits for it: Close takes away an output that somebody still holds.
\* (When exactly a copy ended without a failure makes no difference.)
DrainStderr ==
    /\ drain = "copying"
    /\ Records("drain")
    /\ history' = history => closer = "finish"
    /\ drain' = "done"
    /\ UNCHANGED <<proc, doomed, daemonVars, supervisor, known, omitted, starter, tracker, server,
                   closer, escalation, operation, sig, cleanup, struck>>

-----------------------------------------------------------------------------
(* trackDescendants *)

TrackDescendants ==
    /\ tracker = "running" /\ DiscoveryFree
    /\ \/ (\E listed \in Listings(faults) : Discover(listed)) /\ UNCHANGED history
       \/ SnapshotFails /\ history' = history \cup {"discovery"}
    /\ UNCHANGED <<proc, doomed, daemonVars, threadVars>>

StopTracking ==
    /\ tracker = "running" /\ wire.closed
    /\ tracker' = "done"
    /\ UNCHANGED <<osVars, daemonVars, ownerVars, starter, server, drain, closer, escalation, operation,
                   sig, cleanup, struck>>

-----------------------------------------------------------------------------
(* serveRegistrations, and the exchange with the daemon's DescendantRegistry *)

\* The daemon's end is closed when the daemon ends or gives up adoption.
PeerClosed == ~RootAlive \/ launcher = "unadopted"

\* The root announces itself, which is how the supervisor learns that it
\* adopted the registry.
ServeRoot ==
    /\ server = "reading" /\ ~wire.closed
    /\ wire.request = RootPID
    /\ supervisor' = [supervisor EXCEPT !.rootOpened = TRUE]
    /\ wire' = [wire EXCEPT !.request = 0]
    /\ server' = "accept"
    /\ UNCHANGED <<osVars, launcher, gate, working, history, known, omitted, starter, tracker, drain, closer,
                   escalation, operation, sig, cleanup, struck>>

\* registerDescendant: after a discovery over the same snapshot the PID must
\* belong to a process whose ancestry reaches the root or a known child.
registerDescendant ==
    /\ server = "reading" /\ ~wire.closed /\ DiscoveryFree
    /\ wire.request = ChildPID
    /\ \/ \E listed \in Listings(faults) :
             /\ Discover(listed)
             /\ LET accepted == \E p \in Owned(listed) : proc[p].pid = ChildPID
                IN  /\ server' = IF accepted THEN "accept" ELSE "reject"
                    /\ history' = history \cup (IF accepted THEN {} ELSE {"rejected"})
       \/ /\ SnapshotFails
          /\ server' = "reject"
          /\ history' = history \cup {"rejected"}
    /\ wire' = [wire EXCEPT !.request = 0]
    /\ UNCHANGED <<proc, doomed, launcher, gate, working, starter, tracker, drain, closer, escalation,
                   operation, sig, cleanup, struck>>

\* The answer goes out, or the write fails: quietly when Close took the
\* registry away, as a recorded failure when the daemon is gone.
Respond ==
    /\ server \in {"accept", "reject"}
    /\ \/ /\ ~wire.closed /\ ~PeerClosed
          /\ wire' = [wire EXCEPT !.response = server]
          /\ server' = "reading"
          /\ UNCHANGED history
       \/ /\ wire.closed \/ PeerClosed
          /\ history' \in {history \cup {"answer"}} \cup (IF wire.closed THEN {history} ELSE {})
          /\ server' = "done"
          /\ UNCHANGED wire
    /\ UNCHANGED <<osVars, launcher, gate, working, supervisor, known, omitted, starter, tracker, drain, closer,
                   escalation, operation, sig, cleanup, struck>>

\* The registry was closed at either end, or could not be read: nobody answers
\* any more.
ServerEnds ==
    /\ server = "reading"
    /\ \/ /\ wire.closed \/ (PeerClosed /\ wire.request = 0)
          /\ UNCHANGED <<faults, history>>
       \/ /\ faults > 0 /\ faults' = faults - 1
          /\ history' = history \cup {"read"}
    /\ server' = "done"
    /\ UNCHANGED <<proc, doomed, daemonVars, supervisor, known, omitted, starter, tracker, drain,
                   closer, escalation, operation, sig, cleanup, struck>>

-----------------------------------------------------------------------------
(* The daemon: NewDescendantRegistry, DescendantRegistry.Start, and Await in *)
(* the gated child                                                           *)

exchange(pid, now, next) ==
    /\ Active(Root)
    /\ launcher = now
    /\ ~wire.closed
    /\ wire' = [wire EXCEPT !.request = pid]
    /\ launcher' = next
    /\ UNCHANGED <<osVars, gate, working, ownerVars, threadVars>>

\* NewDescendantRegistry sends the daemon's own PID first.
AdoptRegistry == exchange(RootPID, "adopt", "adopting")

\* It waits two seconds for the answer and otherwise closes its end.
AdoptionEnds ==
    /\ Active(Root)
    /\ launcher = "adopting"
    /\ launcher' = IF wire.response = "accept" THEN "ready" ELSE "unadopted"
    /\ wire' = [wire EXCEPT !.response = "none"]
    /\ UNCHANGED <<osVars, gate, working, ownerVars, threadVars>>

\* command.Start with Setpgid and the gate; prepareGate removes the registry
\* from the child's environment.
StartDescendant ==
    /\ Active(Root)
    /\ launcher = "ready"
    /\ proc' = [proc EXCEPT ![Child] = Born(ChildPID, RootPID, ChildPID)]
    /\ gate' = "await"
    /\ launcher' = "launching"
    /\ UNCHANGED <<doomed, faults, wire, working, ownerVars, threadVars>>

\* releaseDescendant registers the child once it acknowledged the gate.
RegisterDescendant == gate = "acknowledged" /\ exchange(ChildPID, "launching", "registering")

\* Mutant: the child is released whatever the registry answered.
ReleaseUnregistered ==
    /\ Active(Root)
    /\ launcher = "registering"
    /\ wire.response # "none"
    /\ wire' = [wire EXCEPT !.response = "none"]
    /\ gate' = "released" /\ launcher' = "serving"
    /\ UNCHANGED <<osVars, working, ownerVars, threadVars>>

\* Only an accepted registration releases the child.
ReleaseDescendant ==
    /\ Active(Root)
    /\ launcher = "registering"
    /\ wire.response # "none"
    /\ wire' = [wire EXCEPT !.response = "none"]
    /\ IF wire.response = "accept"
       THEN gate' = "released" /\ launcher' = "serving"
       ELSE launcher' = "abort" /\ UNCHANGED gate
    /\ UNCHANGED <<osVars, working, ownerVars, threadVars>>

\* The launch context ends before the registration is sent, or the child
\* never acknowledged: the gate is shut down.
LaunchCanceled ==
    /\ Active(Root)
    /\ launcher = "launching"
    /\ launcher' = "abort"
    /\ UNCHANGED <<osVars, wire, gate, working, ownerVars, threadVars>>

\* The failed launch kills the child's group and waits for the child.
AbortDescendant ==
    /\ Active(Root)
    /\ launcher = "abort"
    /\ doomed' = doomed \cup Killed(Group(Visible, ChildPID))
    /\ gate' = "closed"
    /\ launcher' = "joining"
    /\ UNCHANGED <<proc, faults, wire, working, ownerVars, threadVars>>

\* Await writes its acknowledgement, and then blocks for the release byte.
Acknowledge ==
    /\ Active(Child)
    /\ gate = "await"
    /\ gate' = "acknowledged"
    /\ UNCHANGED <<osVars, wire, launcher, working, ownerVars, threadVars>>

AwaitReturns ==
    /\ Active(Child)
    /\ gate = "released" /\ ~working
    /\ working' = TRUE
    /\ UNCHANGED <<osVars, wire, launcher, gate, ownerVars, threadVars>>

\* The gate closed without a release: Await fails and the child ends.
AwaitFails ==
    /\ Active(Child)
    /\ gate = "closed" \/ (gate \in {"await", "acknowledged"} /\ ~RootAlive)
    /\ proc' = Died(Child)
    /\ UNCHANGED <<doomed, faults, daemonVars, ownerVars, threadVars>>

-----------------------------------------------------------------------------
(* signalOwned: one snapshot, then one kill for the original group and one   *)
(* for each known descendant outside it                                      *)

\* The group is signalled while the root or a known child is still in it.
GroupOwned(listed) ==
    \E p \in DiscoveredChildren(listed) \cup (At(listed, RootPID) \cap {AnchoredRoot(listed)}) :
        proc[p].pgid = RootPID

EscapedPIDs(listed) ==
    {proc[p].pid : p \in {q \in DiscoveredChildren(listed) : proc[q].pgid # RootPID}}

SignalSnapshot ==
    /\ sig.step = "snapshot"
    /\ \/ \E listed \in Listings(faults) :
             /\ Discover(listed)
             /\ sig' = [sig EXCEPT !.step = "group", !.group = GroupOwned(listed),
                                   !.pids = EscapedPIDs(listed), !.seen = (Other \in Visible)]
       \/ /\ SnapshotFails
          /\ sig' = [sig EXCEPT !.step = "end", !.failed = TRUE]
    /\ UNCHANGED <<proc, doomed, daemonVars, history, starter, tracker, server, drain, closer,
                   escalation, operation, cleanup, struck>>

\* kill(2) reaches whoever holds the PID or the group now.
Deliver(targets) ==
    /\ doomed' = IF sig.kind = "kill" THEN doomed \cup Killed(targets) ELSE doomed
    /\ struck' = (struck \/ (sig.seen /\ Other \in targets))

KillFails ==
    /\ faults > 0
    /\ faults' = faults - 1
    /\ UNCHANGED <<doomed, struck>>

signalOriginalGroup ==
    /\ sig.step = "group"
    /\ \/ /\ sig.group
          /\ Deliver(Group(Visible, RootPID))
          /\ sig' = [sig EXCEPT !.step = "escaped"]
          /\ UNCHANGED faults
       \/ /\ sig.group
          /\ KillFails
          /\ sig' = [sig EXCEPT !.step = "escaped", !.failed = TRUE]
       \/ /\ ~sig.group
          /\ sig' = [sig EXCEPT !.step = "escaped"]
          /\ UNCHANGED <<doomed, struck, faults>>
    /\ UNCHANGED <<proc, daemonVars, ownerVars, starter, tracker, server, drain, closer, escalation,
                   operation, cleanup>>

signalEscapedDescendants(pid) ==
    /\ sig.step = "escaped"
    /\ pid \in sig.pids
    /\ \/ /\ Deliver(At(Visible, pid))
          /\ sig' = [sig EXCEPT !.pids = @ \ {pid}]
          /\ UNCHANGED faults
       \/ /\ KillFails
          /\ sig' = [sig EXCEPT !.pids = @ \ {pid}, !.failed = TRUE]
    /\ UNCHANGED <<proc, daemonVars, ownerVars, starter, tracker, server, drain, closer, escalation,
                   operation, cleanup>>

SignalDone == sig.step = "end" \/ (sig.step = "escaped" /\ sig.pids = {})

\* The refreshDescendants in front of every signalOwned.
RefreshBeforeSignal(kind) ==
    /\ DiscoveryFree
    /\ \/ /\ \E listed \in Listings(faults) : Discover(listed)
          /\ sig' = [NoSignal EXCEPT !.step = "snapshot", !.kind = kind]
       \/ /\ SnapshotFails
          /\ sig' = [NoSignal EXCEPT !.step = "snapshot", !.kind = kind, !.failed = TRUE]

-----------------------------------------------------------------------------
(* Process.BeginShutdown and escalate *)

\* Closing the daemon's input asks it to stop; escalate starts once.
BeginShutdown ==
    /\ starter \in {"started", "unanchored"}
    /\ escalation = "off"
    /\ escalation' = "graceful"
    /\ UNCHANGED <<osVars, daemonVars, ownerVars, starter, tracker, server, drain, closer, operation,
                   sig, cleanup, struck>>

\* waitDone returns: done was closed, or the timer fired (both may be ready).
WaitDone ==
    /\ escalation \in {"graceful", "terminated"}
    /\ \/ closer = "done" /\ escalation' = "end"
       \/ escalation = "graceful" /\ escalation' = "terminate"
       \/ escalation = "terminated" /\ escalation' = "kill"
    /\ UNCHANGED <<osVars, daemonVars, ownerVars, starter, tracker, server, drain, closer, operation,
                   sig, cleanup, struck>>

\* Mutant: escalate gives up when Terminate failed.
AfterSignalGivesUp(failed) ==
    IF escalation \in {"terminate", "terminating"} /\ ~failed THEN "terminated" ELSE "end"

\* A failed Terminate is followed by Kill at once; Kill by nothing, though it
\* failed, or reached nobody because its snapshot did not list the root.
AfterSignal(failed) ==
    IF escalation \in {"terminate", "terminating"}
    THEN IF failed THEN "kill" ELSE "terminated"
    ELSE IF failed \/ (RootAlive /\ ~sig.group) THEN "abandoned" ELSE "end"

\* signalAll after Close does nothing and succeeds.
SignalClosed ==
    /\ escalation \in {"terminate", "kill"}
    /\ operation = "free" /\ supervisor.closed
    /\ escalation' = AfterSignal(FALSE)
    /\ UNCHANGED <<osVars, daemonVars, ownerVars, starter, tracker, server, drain, closer, operation,
                   sig, cleanup, struck>>

\* signalAll takes the operation mutex and refreshes.
SignalAll ==
    /\ escalation \in {"terminate", "kill"}
    /\ operation = "free" /\ ~supervisor.closed
    /\ operation' = "escalate"
    /\ escalation' = IF escalation = "terminate" THEN "terminating" ELSE "killing"
    /\ RefreshBeforeSignal(IF escalation = "terminate" THEN "term" ELSE "kill")
    /\ UNCHANGED <<proc, doomed, daemonVars, history, starter, tracker, server, drain, closer, cleanup,
                   struck>>

\* signalAll records its failure and releases the operation mutex.
SignalAllEnds ==
    /\ operation = "escalate" /\ SignalDone
    /\ operation' = "free"
    /\ sig' = NoSignal
    /\ history' = IF sig.failed THEN history \cup {"signal"} ELSE history
    /\ escalation' = AfterSignal(sig.failed)
    /\ UNCHANGED <<osVars, daemonVars, supervisor, known, omitted, starter, tracker, server, drain, closer,
                   cleanup, struck>>

-----------------------------------------------------------------------------
(* Process.reap and unixLaunchedProcess.Close *)

\* command.Wait reaps the root ...
ReapRoot ==
    /\ closer = "wait"
    /\ proc[Root].st = "zombie"
    /\ proc' = [proc EXCEPT ![Root].st = "gone"]
    /\ closer' = "reaped"
    /\ UNCHANGED <<doomed, faults, daemonVars, ownerVars, starter, tracker, server, drain, escalation,
                   operation, sig, cleanup, struck>>

\* ... and rootDone is set after it returned.
MarkRootDone ==
    /\ closer = "reaped"
    /\ supervisor' = [supervisor EXCEPT !.rootDone = TRUE]
    /\ closer' = "close"
    /\ UNCHANGED <<osVars, daemonVars, history, known, omitted, starter, tracker, server, drain, escalation,
                   operation, sig, cleanup, struck>>

\* Close takes the operation mutex, stops the tracker and closes the registry.
Close ==
    /\ closer = "close"
    /\ operation = "free"
    /\ operation' = "close"
    /\ wire' = [wire EXCEPT !.closed = TRUE]
    /\ closer' = "join"
    /\ UNCHANGED <<osVars, launcher, gate, working, ownerVars, starter, tracker, server, drain,
                   escalation, sig, cleanup, struck>>

\* Mutant: Close does not wait for the registration server.
JoinTrackerOnly ==
    /\ closer = "join"
    /\ tracker = "done"
    /\ closer' = "kill"
    /\ UNCHANGED <<osVars, daemonVars, ownerVars, starter, tracker, server, drain, escalation,
                   operation, sig, cleanup, struck>>

\* killAndWaitOwned starts when both goroutines have ended.
JoinGoroutines ==
    /\ closer = "join"
    /\ tracker = "done" /\ server = "done"
    /\ closer' = "kill"
    /\ UNCHANGED <<osVars, daemonVars, ownerVars, starter, tracker, server, drain, escalation,
                   operation, sig, cleanup, struck>>

KillOwned ==
    /\ closer = "kill"
    /\ closer' = "killing"
    /\ RefreshBeforeSignal("kill")
    /\ UNCHANGED <<proc, doomed, daemonVars, history, starter, tracker, server, drain, escalation,
                   operation, cleanup, struck>>

\* Mutant: one round of SIGKILL is taken for success.
WaitOwnedOnce ==
    /\ closer = "killing" /\ SignalDone
    /\ history' = history \cup (IF sig.failed THEN {"kill"} ELSE {})
    /\ closer' = "finish"
    /\ sig' = NoSignal
    /\ UNCHANGED <<osVars, daemonVars, supervisor, known, omitted, starter, tracker, server, drain, escalation,
                   operation, cleanup, struck>>

\* Nothing owned was left at the last snapshot, or the deadline passed, or the
\* loop goes round again.
WaitOwned ==
    /\ closer = "killing" /\ SignalDone
    /\ LET failure == IF sig.failed THEN {"kill"} ELSE {} IN
       \/ /\ supervisor.children = {}
          /\ history' = history \cup failure
          /\ closer' = "finish"
       \/ /\ supervisor.children # {}
          /\ history' = history \cup failure \cup {"timeout"}
          /\ closer' = "finish"
       \/ /\ supervisor.children # {}
          /\ history' = history \cup failure
          /\ closer' = "kill"
    /\ sig' = NoSignal
    /\ UNCHANGED <<osVars, daemonVars, supervisor, known, omitted, starter, tracker, server, drain, escalation,
                   operation, cleanup, struck>>

\* Close joins the drain and the history, reap publishes it and closes done. A
\* daemon that never opened the registry is a failure, and so is a registry or a
\* stream that could not be shut down or closed.
CloseEnds ==
    /\ closer = "finish"
    /\ drain = "done"
    /\ LET unopened == IF supervisor.rootOpened THEN {} ELSE {"unopened"} IN
       \/ /\ history' = history \cup unopened
          /\ UNCHANGED faults
       \/ /\ faults > 0 /\ faults' = faults - 1
          /\ history' = history \cup unopened \cup {"release"}
    /\ supervisor' = [supervisor EXCEPT !.closed = TRUE]
    /\ cleanup' = history'
    /\ operation' = "free"
    /\ closer' = "done"
    /\ UNCHANGED <<proc, doomed, daemonVars, known, omitted, starter, tracker, server, drain,
                   escalation, sig, struck>>

\* What Process.Wait answers.
WaitResult ==
    CASE closer # "done" -> "pending"
      [] closer = "done" /\ cleanup = {} -> "clean"
      [] OTHER -> "containment error"

-----------------------------------------------------------------------------
Environment ==
    \/ \E p \in Procs : Exit(p) \/ Fork(p)
    \/ Detach \/ Reap
    \/ \E pid \in ReusedPIDs : Reuse(pid)

Daemon ==
    \/ AdoptRegistry \/ AdoptionEnds \/ StartDescendant \/ RegisterDescendant
    \/ ReleaseDescendant \/ LaunchCanceled \/ AbortDescendant
    \/ Acknowledge \/ AwaitReturns \/ AwaitFails

Signals ==
    \/ SignalSnapshot \/ signalOriginalGroup
    \/ \E pid \in PIDs : signalEscapedDescendants(pid)

Server == ServeRoot \/ registerDescendant \/ Respond \/ ServerEnds
Escalate == WaitDone \/ SignalClosed \/ SignalAll \/ SignalAllEnds
Reaper == ReapRoot \/ MarkRootDone \/ Close \/ JoinGoroutines \/ KillOwned \/ WaitOwned \/ CloseEnds

Next ==
    \/ Environment \/ Daemon
    \/ StartFails \/ StartProcess \/ AnchorRoot \/ AnchorFails
    \/ TrackDescendants \/ StopTracking \/ DrainStderr
    \/ Server \/ Signals \/ BeginShutdown \/ Escalate \/ Reaper

Spec == Init /\ [][Next]_vars

\* Some goroutine of the supervisor that can run does run, and the system ends a
\* killed process. Weaker than fairness to each goroutine, and enough.
Goroutines ==
    AnchorRoot \/ AnchorFails \/ StopTracking \/ DrainStderr \/ Server \/ Signals \/ Escalate
    \/ Reaper

Fairness == WF_vars(Goroutines) /\ WF_vars(\E p \in doomed : Exit(p))

FairSpec == Spec /\ Fairness

-----------------------------------------------------------------------------
TypeOK ==
    /\ proc \in [Procs -> Record]
    /\ doomed \subseteq Procs
    /\ faults \in 0 .. MaxFaults
    /\ starter \in {"idle", "failed", "anchor", "started", "unanchored"}
    /\ supervisor \in [root : Procs \cup {NoProc}, children : SUBSET Procs, rootDone : BOOLEAN,
                       rootOpened : BOOLEAN, closed : BOOLEAN]
    /\ history \subseteq Failures
    /\ tracker \in {"off", "running", "done"}
    /\ server \in {"off", "reading", "accept", "reject", "done"}
    /\ drain \in {"off", "copying", "done"}
    /\ wire \in [request : PIDs, response : {"none", "accept", "reject"}, closed : BOOLEAN]
    /\ closer \in {"off", "wait", "reaped", "close", "join", "kill", "killing", "finish", "done"}
    /\ escalation \in {"off", "graceful", "terminate", "terminating", "terminated", "kill",
                       "killing", "abandoned", "end"}
    /\ operation \in {"free", "escalate", "close"}
    /\ sig \in [step : {"idle", "snapshot", "group", "escaped", "end"},
                kind : {"none", "term", "kill"}, group : BOOLEAN, pids : SUBSET PIDs,
                seen : BOOLEAN, failed : BOOLEAN]
    /\ launcher \in {"adopt", "adopting", "unadopted", "ready", "launching", "registering",
                     "serving", "abort", "joining"}
    /\ gate \in {"none", "await", "acknowledged", "released", "closed"}
    /\ working \in BOOLEAN
    /\ cleanup \subseteq Failures
    /\ known \subseteq Procs
    /\ omitted \subseteq Procs
    /\ struck \in BOOLEAN

\* A Wait that reports clean containment means that every descendant the
\* supervisor ever discovered or registered has left the process table, whatever
\* it forked, however it detached, and whenever it was registered
\* (killAndWaitOwned, Close). The exception is a descendant that a snapshot left
\* out and no later one found again: it is forgotten (discoverLocked).
CleanWaitContains ==
    WaitResult = "clean" => \A p \in known : proc[p].st = "gone" \/ p \in omitted

\* A child behind the registration gate gets to user work only as a process the
\* supervisor owns, so none of them survives a clean Wait, unless a later snapshot
\* left it out (DescendantRegistry.Start, Await, registerDescendant).
GatedChildOwned ==
    working => /\ Child \in known
               /\ WaitResult = "clean" => proc[Child].st = "gone" \/ Child \in omitted

\* A process of somebody else that took over the PID or the group of an exited
\* one before the snapshot is never signalled: only one born after it can be. The
\* exception the code leaves is a root that was never anchored at start, when
\* a late discovery takes the next holder of the root PID for the root.
ReusedNeverSignalled == starter # "unanchored" => ~struck

\* Every failure recorded is in the answer of Wait: the tracker, the server, the
\* drain and the escalation have stopped recording when Close joins the history.
NothingReportedLate == closer = "done" => cleanup = history

\* A requested shutdown completes, whether or not the daemon reacts to its
\* closed input or to SIGTERM, and whoever holds the mutexes when a timer fires,
\* unless the final Kill of escalate failed, or did not see the root
\* (BeginShutdown, escalate, reap).
ShutdownCompletes == (escalation # "off") ~> (closer = "done" \/ escalation = "abandoned")
=============================================================================
