----------------------------- MODULE ProcessTable -----------------------------
(***************************************************************************)
(* The part of a Unix system that process containment depends on           *)
(* (src/internal/processcontainment reads it): every process has a PID     *)
(* that the system reuses and a birth identity that it does not (a member  *)
(* of Procs), orphans are reparented to init, a process that was sent      *)
(* SIGKILL stays in the table until it exits and is reaped.                *)
(***************************************************************************)
EXTENDS Integers, FiniteSets

VARIABLES
    proc,       \* process table by birth identity
    doomed      \* processes with a pending SIGKILL

Root  == "root"    \* the process the code launches
Child == "child"   \* a child of the root
Stray == "stray"   \* forked by the root or the child, and free to detach
Other == "other"   \* a process of somebody else that reuses a PID

Procs == {Root, Child, Stray, Other}
NoProc == "none"

SupervisorPID == 0
InitPID == 1
RootPID == 2
ChildPID == 3
StrayPID == 4
PIDs == 0 .. 4

Record == [st : {"absent", "running", "zombie", "gone"}, pid : PIDs, ppid : PIDs, pgid : PIDs]

Visible == {p \in Procs : proc[p].st \in {"running", "zombie"}}
Active(p) == proc[p].st = "running" /\ p \notin doomed
RootAlive == proc[Root].st = "running"
Group(S, pgid) == {p \in S : proc[p].pgid = pgid}
At(S, pid) == {p \in S : proc[p].pid = pid}

\* What a snapshot that succeeds may list: the table, or on Linux, when entries
\* cannot be read or parsed (failures left: n), any part of it. Such an entry is
\* skipped without an error.
Listings(n) == {Visible} \cup (IF n > 0 THEN SUBSET Visible ELSE {})

\* The failures that are left after it.
FaultsAfter(n, listed) == IF listed = Visible THEN n ELSE n - 1

Born(pid, ppid, pgid) == [st |-> "running", pid |-> pid, ppid |-> ppid, pgid |-> pgid]

\* p exits and its children go to init. The root and the gated child are zombies
\* until the code reaps them; any other parent reaps at once.
Died(p) ==
    [q \in Procs |->
        CASE q = p -> [proc[p] EXCEPT !.st = IF p \in {Root, Child} /\ proc[p].ppid # InitPID
                                              THEN "zombie" ELSE "gone"]
          [] q # p /\ q \in Visible /\ proc[q].ppid = proc[p].pid ->
                IF proc[q].st = "zombie" THEN [proc[q] EXCEPT !.st = "gone"]
                                         ELSE [proc[q] EXCEPT !.ppid = InitPID]
          [] OTHER -> proc[q]]

\* A set of processes with every listed process whose parent it holds.
ClosedUnderFork(S, listed) ==
    \A p \in listed : (\E q \in S : proc[p].ppid = proc[q].pid) => p \in S

\* What the loop over the snapshot adds to a set of owned processes until it
\* finds no more: the least set around them that is closed.
DescendantsOf(base, listed) ==
    {p \in Procs : \A S \in SUBSET Procs :
                      base \subseteq S /\ ClosedUnderFork(S, listed) => p \in S}

\* A PID is free when no process has it and no process group uses it.
PIDFree(pid) ==
    /\ \E p \in Procs : proc[p].st = "gone" /\ proc[p].pid = pid
    /\ At(Visible, pid) = {} /\ Group(Visible, pid) = {}

\* The running processes among those a kill(2) call addresses.
Killed(targets) == {p \in targets : proc[p].st = "running"}

NoProcess == [st |-> "absent", pid |-> 0, ppid |-> 0, pgid |-> 0]

=============================================================================
