---------------------------- MODULE WindowsProcess ----------------------------
(***************************************************************************)
(* Launch, termination and release of a contained process on Windows: the  *)
(* managed daemon (src/internal/daemonprocess) and a tool or plugin        *)
(* process (src/internal/processplatform). Both create the root suspended, *)
(* assign it to a kill-on-close Job and only then resume it; they differ   *)
(* in what they do when a step fails and in how they join and release.     *)
(*                                                                         *)
(* A handle is a number the system may give to somebody else after it was  *)
(* closed, so closing or using a closed one is an error of its own.        *)
(***************************************************************************)
EXTENDS Integers, FiniteSets

CONSTANT MaxFaults  \* system calls that fail in a behaviour

ASSUME WindowsFaultsAssumption == MaxFaults \in Nat

VARIABLES
    kind,       \* "daemon" or "tool"
    st,         \* state of the root and of a descendant it starts
    doomed,     \* processes whose termination was requested
    code,       \* exit code of the root: its own, or that of the first termination
    assigned,   \* the root was assigned to the Job
    faults,     \* failures that may still happen
    handles,    \* every handle the launch opened
    held,       \* handles the code still refers to
    launch,     \* progress of start
    failures,   \* failures and cleanupErr
    reaper,     \* Process.reap with Wait and Close, or reap with cleanup
    mutex,      \* holder of mu where a critical section takes several steps
    closed,     \* the closed flag
    sent,       \* stopSent and killSent of a tool
    outcome,    \* root outcome of a tool
    stdin,      \* the copy of the caller's reader into a tool's input
    waitCompleted, \* the daemon's root was waited for during abort
    misuse      \* a closed handle was closed again or used

winVars    == <<st, doomed, code, assigned>>
launchVars == <<launch, waitCompleted>>
ownerVars  == <<handles, held, misuse>>
joinVars   == <<reaper, mutex, closed, sent, outcome, stdin>>
vars == <<kind, faults, failures, winVars, launchVars, ownerVars, joinVars>>

Processes == {"root", "descendant"}
RawHandles == {"job", "process", "thread", "childEnds"}
Files == {"input", "output"}
Handles == RawHandles \cup Files
Codes == {"stop", "kill"}

Live(p) == st[p] \in {"suspended", "running"}
JobEmpty == \A p \in Processes : ~Live(p)

-----------------------------------------------------------------------------
(* Windows *)

\* A system call that may fail: ok says whether it did its work.
Call(ok) ==
    /\ ok \in BOOLEAN
    /\ ok \/ faults > 0
    /\ faults' = IF ok THEN faults ELSE faults - 1

\* TerminateJobObject or TerminateProcess, with the exit code of the caller.
Terminated(targets) == doomed \cup {p \in targets : Live(p)}
ExitCode(exit) == IF Live("root") /\ "root" \notin doomed THEN exit ELSE code
JobMembers == IF assigned THEN Processes ELSE {"root"}

Terminates(exit, ok) ==
    /\ doomed' = IF ok THEN Terminated(JobMembers) ELSE doomed
    /\ code' = IF ok THEN ExitCode(exit) ELSE code
    /\ UNCHANGED <<st, assigned>>

\* CloseHandle for the handles in hs, of which those in kept cannot be closed:
\* they stay open with their owner, or are lost when it forgets them.
\* Closing an *os.File twice is an error of the file, not of a handle. Closing
\* the last handle of a kill-on-close Job terminates its members.
Closed(hs, kept) == [h \in Handles |-> IF h \in hs \ kept THEN "closed" ELSE handles[h]]
Dropped(hs, kept) == [h \in Handles |-> IF h \in hs \cap kept THEN "lost" ELSE Closed(hs, kept)[h]]
Misused(hs) == misuse \/ \E h \in hs \cap RawHandles : handles[h] # "open"
JobClosed(hs, kept) == assigned /\ "job" \in hs \ kept

Exit(p) ==
    /\ st[p] = "running" \/ (Live(p) /\ p \in doomed)
    /\ st' = [st EXCEPT ![p] = "exited"]
    /\ code' = IF p = "root" /\ p \notin doomed THEN "own" ELSE code
    /\ UNCHANGED <<kind, faults, failures, doomed, assigned, launchVars, ownerVars, joinVars>>

\* The root starts a process, which the Job contains.
Spawn ==
    /\ st["root"] = "running" /\ "root" \notin doomed
    /\ st["descendant"] = "none"
    /\ st' = [st EXCEPT !["descendant"] = "running"]
    /\ UNCHANGED <<kind, faults, failures, doomed, code, assigned, launchVars, ownerVars, joinVars>>

-----------------------------------------------------------------------------
Init ==
    /\ kind \in {"daemon", "tool"}
    /\ st = [p \in Processes |-> "none"]
    /\ doomed = {}
    /\ code = "none"
    /\ assigned = FALSE
    /\ faults = MaxFaults
    /\ handles = [h \in Handles |-> "none"]
    /\ held = {}
    /\ launch = "idle"
    /\ failures = {}
    /\ reaper = "off"
    /\ mutex = "free"
    /\ closed = FALSE
    /\ sent = {}
    /\ outcome = "none"
    /\ stdin = "off"
    /\ waitCompleted = FALSE
    /\ misuse = FALSE

-----------------------------------------------------------------------------
(* start, createSuspendedProcess and finish *)

\* The specification is invalid, or the Job cannot be created.
StartRefused ==
    /\ launch = "idle"
    /\ launch' = "refused"
    /\ UNCHANGED <<kind, faults, failures, winVars, waitCompleted, ownerVars, joinVars>>

OpenJob ==
    /\ launch = "idle"
    /\ launch' = "pipes"
    /\ held' = {"job"}
    /\ handles' = [handles EXCEPT !["job"] = "open"]
    /\ UNCHANGED <<kind, faults, failures, winVars, waitCompleted, misuse, joinVars>>

\* The Job cannot be made kill-on-close, or one of the pipes cannot be opened or
\* kept from the child: the handles opened so far are closed, then the Job, and
\* a handle that cannot be closed is lost.
PipeHandles == {"childEnds", "input", "output"}

PipesFail ==
    /\ launch = "pipes" /\ faults > 0
    /\ \E opened \in {{}, {"childEnds", "input"}, PipeHandles} :
          LET all == opened \cup {"job"} IN
          \E kept \in {{}} \cup {{h} : h \in all} :
             /\ Cardinality(kept) < faults
             /\ faults' = faults - 1 - Cardinality(kept)
             /\ handles' = Dropped(all, kept)
    /\ misuse' = Misused(held)
    /\ held' = {}
    /\ launch' = "refused"
    /\ UNCHANGED <<kind, failures, winVars, waitCompleted, joinVars>>

OpenPipes ==
    /\ launch = "pipes"
    /\ launch' = "create"
    /\ held' = held \cup PipeHandles
    /\ handles' = [h \in Handles |-> IF h \in PipeHandles THEN "open" ELSE handles[h]]
    /\ UNCHANGED <<kind, faults, failures, winVars, waitCompleted, misuse, joinVars>>

\* Mutant: the deferred cleanup closes the pipes only.
CreateFailsKeepsJob ==
    /\ launch = "create" /\ faults > 0
    /\ faults' = faults - 1
    /\ handles' = Closed(held \ {"job"}, {})
    /\ misuse' = Misused(held)
    /\ held' = {}
    /\ launch' = "refused"
    /\ UNCHANGED <<kind, failures, winVars, waitCompleted, joinVars>>

\* The process cannot be created: the deferred cleanup closes pipes and Job, and
\* ignores what cannot be closed.
CreateFails ==
    /\ launch = "create" /\ faults > 0
    /\ \E kept \in {{}} \cup {{h} : h \in held \cap RawHandles} :
          /\ Cardinality(kept) < faults
          /\ faults' = faults - 1 - Cardinality(kept)
          /\ handles' = Dropped(held, kept)
    /\ misuse' = Misused(held)
    /\ held' = {}
    /\ launch' = "refused"
    /\ UNCHANGED <<kind, failures, winVars, waitCompleted, joinVars>>

CreateSuspended ==
    /\ launch = "create"
    /\ st' = [st EXCEPT !["root"] = "suspended"]
    /\ held' = held \cup {"process", "thread"}
    /\ handles' = [handles EXCEPT !["process"] = "open", !["thread"] = "open"]
    /\ launch' = "assign"
    /\ UNCHANGED <<kind, faults, failures, doomed, code, assigned, waitCompleted, misuse, joinVars>>

\* Mutant: the root is resumed although it is in no Job.
AssignIgnored ==
    /\ launch = "assign"
    /\ \E ok \in BOOLEAN :
          /\ Call(ok)
          /\ assigned' = ok
          /\ launch' = "ends"
    /\ UNCHANGED <<kind, failures, st, doomed, code, waitCompleted, ownerVars, joinVars>>

AssignToJob ==
    /\ launch = "assign"
    /\ \E ok \in BOOLEAN :
          /\ Call(ok)
          /\ assigned' = ok
          /\ launch' = IF ok THEN "ends" ELSE "abort ends"
    /\ UNCHANGED <<kind, failures, st, doomed, code, waitCompleted, ownerVars, joinVars>>

\* closeChildEnds forgets the handles whether or not they could be closed.
CloseChildEnds ==
    /\ launch \in {"ends", "abort ends"}
    /\ \E ok \in BOOLEAN :
          /\ Call(ok)
          /\ handles' = [handles EXCEPT !["childEnds"] = IF ok THEN "closed" ELSE "lost"]
          /\ failures' = IF ok THEN failures ELSE failures \cup {"close"}
          /\ launch' = IF ok /\ launch = "ends" THEN "resume" ELSE "abort"
    /\ misuse' = Misused({"childEnds"})
    /\ held' = held \ {"childEnds"}
    /\ UNCHANGED <<kind, winVars, waitCompleted, joinVars>>

ResumeThread ==
    /\ launch = "resume"
    /\ \E ok \in BOOLEAN :
          /\ Call(ok)
          /\ st' = IF ok THEN [st EXCEPT !["root"] = "running"] ELSE st
          /\ launch' = IF ok THEN "thread" ELSE "abort"
    /\ UNCHANGED <<kind, failures, doomed, code, assigned, waitCompleted, ownerVars, joinVars>>

\* The last step of a launch. From here on reap owns the process.
CloseThread ==
    /\ launch = "thread"
    /\ \E ok \in BOOLEAN :
          /\ Call(ok)
          /\ handles' = IF ok THEN Closed({"thread"}, {}) ELSE handles
          /\ held' = IF ok THEN held \ {"thread"} ELSE held
          /\ failures' = IF ok THEN failures ELSE failures \cup {"close"}
          /\ launch' = IF ok THEN "owned" ELSE "abort"
          /\ reaper' = IF ok THEN "wait" ELSE "off"
          /\ stdin' = IF ok /\ kind = "tool" THEN "copying" ELSE "off"
    /\ misuse' = Misused({"thread"})
    /\ UNCHANGED <<kind, winVars, waitCompleted, mutex, closed, sent, outcome>>

-----------------------------------------------------------------------------
(* abortLaunch of a tool: the candidate always goes to the caller *)

AbortTool ==
    /\ kind = "tool" /\ launch = "abort"
    /\ \E ok \in BOOLEAN :
          /\ Call(ok)
          /\ Terminates("kill", ok)
          /\ sent' = IF ok THEN {"kill"} ELSE {}
    /\ launch' = "owned"
    /\ reaper' = "wait"
    /\ stdin' = "copying"
    /\ UNCHANGED <<kind, failures, waitCompleted, ownerVars, mutex, closed, outcome>>

(* abort of the daemon: terminate, wait, close everything; whatever fails    *)
(* makes a candidate that owns what is left                                  *)

AbortTerminate ==
    /\ kind = "daemon" /\ launch = "abort"
    /\ \E ok \in BOOLEAN :
          /\ Call(ok)
          /\ Terminates("kill", ok)
          /\ failures' = IF ok THEN failures ELSE failures \cup {"terminate"}
    /\ launch' = "abort wait"
    /\ UNCHANGED <<kind, waitCompleted, ownerVars, joinVars>>

\* The root and, if assigned, the Job are waited for, each for five seconds.
AbortWait ==
    /\ launch = "abort wait"
    /\ \/ JobEmpty /\ UNCHANGED <<faults, failures>>
       \/ ~JobEmpty /\ failures' = failures \cup {"timeout"} /\ UNCHANGED faults
       \/ Call(FALSE) /\ failures' = failures \cup {"job"}
    /\ launch' = IF failures' = {} THEN "abort close" ELSE "owned"
    /\ reaper' = IF failures' = {} THEN "off" ELSE "wait"
    /\ UNCHANGED <<kind, winVars, waitCompleted, ownerVars, mutex, closed, sent, outcome, stdin>>

AbortClose ==
    /\ launch = "abort close"
    /\ \E kept \in {{}} \cup {{h} : h \in held \cap RawHandles} :
          /\ Call(kept = {})
          /\ handles' = Closed(held, kept)
          /\ held' = kept \cup (IF kept = {} THEN {} ELSE Files)
          /\ failures' = IF kept = {} THEN failures ELSE failures \cup {"close"}
          /\ launch' = IF kept = {} THEN "refused" ELSE "owned"
          /\ reaper' = IF kept = {} THEN "off" ELSE "wait"
          /\ waitCompleted' = (kept # {})
    /\ misuse' = Misused(held)
    /\ UNCHANGED <<kind, winVars, mutex, closed, sent, outcome, stdin>>

-----------------------------------------------------------------------------
(* terminate: Terminate and Kill of the daemon's escalation, RequestStop and *)
(* ForceKill of a tool's client                                              *)

TerminateDaemon(exit) ==
    LET target == IF assigned THEN "job" ELSE "process" IN
    /\ kind = "daemon" /\ launch = "owned" /\ mutex = "free" /\ ~closed
    /\ "job" \in held \/ ("process" \in held /\ ~assigned)
    /\ \/ /\ target \in held
          /\ \E ok \in BOOLEAN :
                /\ Call(ok)
                /\ Terminates(exit, ok)
                /\ failures' = IF ok THEN failures ELSE failures \cup {"terminate"}
          /\ misuse' = Misused({target})
       \* an abort closed the process but not the Job: there is no handle to use
       \/ /\ target \notin held
          /\ failures' = failures \cup {"terminate"}
          /\ UNCHANGED <<faults, winVars, misuse>>
    /\ UNCHANGED <<kind, launchVars, handles, held, joinVars>>

\* The operation is remembered in the critical section that did it; a failure
\* is not, so that it can be retried.
TerminateTool(exit) ==
    /\ kind = "tool" /\ launch = "owned" /\ mutex = "free" /\ ~closed
    /\ exit \notin sent
    /\ \E ok \in BOOLEAN :
          /\ Call(ok)
          /\ Terminates(exit, ok)
          /\ sent' = IF ok THEN sent \cup {exit} ELSE sent
    /\ misuse' = Misused({IF assigned THEN "job" ELSE "process"})
    /\ UNCHANGED <<kind, failures, launchVars, handles, held, reaper, mutex, closed, outcome, stdin>>

-----------------------------------------------------------------------------
(* The daemon: windowsProcess.Wait and Close, called by Process.reap *)

\* Wait returns with the root's exit or with a failure of the wait itself,
\* and closes stderr when it does not drain in time.
WaitDaemon ==
    /\ kind = "daemon" /\ reaper = "wait"
    /\ \/ (waitCompleted \/ ~Live("root")) /\ UNCHANGED faults
       \/ ~waitCompleted /\ Call(FALSE)
    /\ waitCompleted' = TRUE
    /\ reaper' = "close"
    /\ UNCHANGED <<kind, failures, winVars, launch, ownerVars, mutex, closed, sent, outcome, stdin>>

\* Close takes the handles away and terminates the Job, all under mu.
CloseDaemon ==
    /\ kind = "daemon" /\ reaper = "close"
    /\ closed' = TRUE
    /\ IF assigned /\ "job" \in held
       THEN /\ \E ok \in BOOLEAN :
                  /\ Call(ok)
                  /\ Terminates("kill", ok)
                  /\ failures' = IF ok THEN failures ELSE failures \cup {"terminate"}
            /\ misuse' = Misused({"job"})
            /\ mutex' = "close" /\ reaper' = "drain"
       ELSE /\ mutex' = "free" /\ reaper' = "release"
            /\ UNCHANGED <<faults, failures, winVars, misuse>>
    /\ UNCHANGED <<kind, launchVars, handles, held, sent, outcome, stdin>>

\* Mutant: the end of the root is taken for the end of the Job.
DrainDaemonRootOnly ==
    /\ kind = "daemon" /\ reaper = "drain"
    /\ \/ ~Live("root") /\ UNCHANGED <<faults, failures>>
       \/ Live("root") /\ failures' = failures \cup {"timeout"} /\ UNCHANGED faults
       \/ Call(FALSE) /\ failures' = failures \cup {"job"}
    /\ mutex' = "free"
    /\ reaper' = "release"
    /\ UNCHANGED <<kind, winVars, launchVars, ownerVars, closed, sent, outcome, stdin>>

\* Mutant: the daemon's drain has no deadline, like the tool's.
DrainDaemonForever ==
    /\ kind = "daemon" /\ reaper = "drain"
    /\ \/ JobEmpty /\ UNCHANGED <<faults, failures>>
       \/ Call(FALSE) /\ failures' = failures \cup {"job"}
    /\ mutex' = "free"
    /\ reaper' = "release"
    /\ UNCHANGED <<kind, winVars, launchVars, ownerVars, closed, sent, outcome, stdin>>

\* waitEmpty gives up after five seconds.
DrainDaemon ==
    /\ kind = "daemon" /\ reaper = "drain"
    /\ \/ JobEmpty /\ UNCHANGED <<faults, failures>>
       \/ ~JobEmpty /\ failures' = failures \cup {"timeout"} /\ UNCHANGED faults
       \/ Call(FALSE) /\ failures' = failures \cup {"job"}
    /\ mutex' = "free"
    /\ reaper' = "release"
    /\ UNCHANGED <<kind, winVars, launchVars, ownerVars, closed, sent, outcome, stdin>>

\* Everything taken is closed; a handle that cannot be closed is reported.
ReleaseDaemon ==
    /\ kind = "daemon" /\ reaper = "release"
    /\ \E kept \in {{}} \cup {{h} : h \in held \cap RawHandles} :
          /\ Call(kept = {})
          /\ handles' = Dropped(held, kept)
          /\ failures' = IF kept = {} THEN failures ELSE failures \cup {"close"}
          /\ doomed' = IF JobClosed(held, kept) THEN Terminated(Processes) ELSE doomed
          /\ code' = IF JobClosed(held, kept) THEN ExitCode("kill") ELSE code
    /\ misuse' = Misused(held)
    /\ held' = {}
    /\ reaper' = "done"
    /\ UNCHANGED <<kind, st, assigned, launchVars, mutex, closed, sent, outcome, stdin>>

-----------------------------------------------------------------------------
(* The tool: reap and cleanup *)

\* The root's exit is awaited before the flags are read under mu.
ReapTool ==
    /\ kind = "tool" /\ reaper = "wait"
    /\ mutex = "free"
    /\ \/ /\ ~Live("root")
          /\ outcome' = IF sent # {} /\ code \in Codes THEN "signaled" ELSE "exited"
          /\ UNCHANGED faults
       \/ Call(FALSE) /\ outcome' = "unobserved"
    /\ reaper' = "drain"
    /\ UNCHANGED <<kind, failures, winVars, launchVars, ownerVars, mutex, closed, sent, stdin>>

\* copyInput ends when the caller's reader has ended, or when a write fails: the
\* process closed its end, or closeInput closed ours. It closes the input.
CopyInput ==
    /\ stdin = "copying"
    /\ stdin' = "done"
    /\ handles' = Closed({"input"}, {})
    /\ UNCHANGED <<kind, faults, failures, winVars, launchVars, held, misuse, reaper, mutex, closed, sent, outcome>>

\* cleanup waits for an empty Job without a deadline, and closes the input.
DrainTool ==
    /\ kind = "tool" /\ reaper = "drain"
    /\ \/ (assigned => JobEmpty) /\ UNCHANGED <<faults, failures>>
       \/ assigned /\ Call(FALSE) /\ failures' = failures \cup {"job"}
    /\ handles' = Closed({"input"}, {})
    /\ reaper' = "copies"
    /\ UNCHANGED <<kind, winVars, launchVars, held, misuse, mutex, closed, sent, outcome, stdin>>

\* The copies are joined: that of the input whenever it ends, those of the output
\* when no process has the pipes any more. A suspended process has them; one that
\* runs may have closed them, and is met here if the Job could not be queried.
JoinCopies ==
    /\ kind = "tool" /\ reaper = "copies"
    /\ stdin = "done"
    /\ \A p \in Processes : st[p] # "suspended"
    /\ \E ok \in BOOLEAN :
          /\ Call(ok)
          /\ failures' = IF ok THEN failures ELSE failures \cup {"copy"}
    /\ handles' = Closed({"output"}, {})
    /\ reaper' = "take"
    /\ UNCHANGED <<kind, winVars, launchVars, held, misuse, mutex, closed, sent, outcome, stdin>>

\* Mutant: closed is set by the critical section that records the result instead.
TakeHandlesOpen ==
    /\ kind = "tool" /\ reaper = "take"
    /\ mutex = "free"
    /\ reaper' = "release"
    /\ UNCHANGED <<kind, faults, failures, winVars, launchVars, ownerVars, mutex, closed, sent, outcome, stdin>>

\* The handles are taken and closed is set in one critical section ...
TakeHandles ==
    /\ kind = "tool" /\ reaper = "take"
    /\ mutex = "free"
    /\ closed' = TRUE
    /\ reaper' = "release"
    /\ UNCHANGED <<kind, faults, failures, winVars, launchVars, ownerVars, mutex, sent, outcome, stdin>>

\* ... and closed after it, the Job last.
ReleaseTool ==
    /\ kind = "tool" /\ reaper = "release"
    /\ \E kept \in {{}} \cup {{h} : h \in held \cap RawHandles} :
          /\ Call(kept = {})
          /\ handles' = Dropped(held \cap RawHandles, kept)
          /\ failures' = IF kept = {} THEN failures ELSE failures \cup {"close"}
          /\ doomed' = IF JobClosed(held, kept) THEN Terminated(Processes) ELSE doomed
          /\ code' = IF JobClosed(held, kept) THEN ExitCode("kill") ELSE code
    /\ misuse' = Misused(held)
    /\ held' = {}
    /\ reaper' = "done"
    /\ UNCHANGED <<kind, st, assigned, launchVars, mutex, closed, sent, outcome, stdin>>

-----------------------------------------------------------------------------
Windows == Spawn \/ \E p \in Processes : Exit(p)

Launch ==
    \/ StartRefused \/ OpenJob \/ PipesFail \/ OpenPipes
    \/ CreateFails \/ CreateSuspended \/ AssignToJob
    \/ CloseChildEnds \/ ResumeThread \/ CloseThread
    \/ AbortTool \/ AbortTerminate \/ AbortWait \/ AbortClose

Clients == \E exit \in Codes : TerminateDaemon(exit) \/ TerminateTool(exit)

Reaper ==
    \/ WaitDaemon \/ CloseDaemon \/ DrainDaemon \/ ReleaseDaemon
    \/ ReapTool \/ DrainTool \/ JoinCopies \/ TakeHandles \/ ReleaseTool

Next == Windows \/ Launch \/ Clients \/ CopyInput \/ Reaper

Spec == Init /\ [][Next]_vars

\* start and reap run, and the system ends a terminated process. That the output
\* copies end is promised only once no process is left, and that the caller's
\* reader ends is promised by nobody.
FairSpec ==
    /\ Spec
    /\ WF_vars(Launch)
    /\ WF_vars(Reaper /\ (reaper = "copies" => JobEmpty))
    /\ WF_vars(\E p \in doomed : Exit(p))

-----------------------------------------------------------------------------
SystemOK ==
    /\ kind \in {"daemon", "tool"}
    /\ st \in [Processes -> {"none", "suspended", "running", "exited"}]
    /\ doomed \subseteq Processes
    /\ code \in Codes \cup {"none", "own"}

HandlesOK ==
    /\ handles \in [Handles -> {"none", "open", "closed", "lost"}]
    /\ held \subseteq Handles

ThreadsOK ==
    /\ launch \in {"idle", "refused", "pipes", "create", "assign", "ends", "abort ends", "resume", "thread",
                   "abort", "abort wait", "abort close", "owned"}
    /\ failures \subseteq {"close", "terminate", "timeout", "job", "copy"}
    /\ reaper \in {"off", "wait", "close", "drain", "copies", "take", "release", "done"}
    /\ mutex \in {"free", "close"}
    /\ sent \subseteq Codes
    /\ outcome \in {"none", "exited", "signaled", "unobserved"}
    /\ stdin \in {"off", "copying", "done"}

FlagsOK ==
    /\ assigned \in BOOLEAN
    /\ closed \in BOOLEAN
    /\ waitCompleted \in BOOLEAN
    /\ misuse \in BOOLEAN

\* Every variable keeps its type, and no more calls fail than the bound says.
TypeOK == SystemOK /\ HandlesOK /\ ThreadsOK /\ FlagsOK /\ faults \in 0 .. MaxFaults

\* No handle is closed twice or used after it was closed, whichever launch step
\* fails and however terminations race the release (windowsHandleOwner,
\* windowsHandleSet, terminate against Close and cleanup).
HandlesUsedWhileOpen == ~misuse

\* No process that nobody has asked to end runs outside a Job whose kill-on-close
\* handle the program still has: a failed assignment never leads to a resumed root, and no
\* Job is dropped with members alive (start, finish, abort, Close, cleanup).
RunsOnlyInJob ==
    \A p \in Processes \ doomed : st[p] = "running" => assigned /\ handles["job"] \in {"open", "lost"}

\* A start that returns no candidate has left nothing behind: no live process, and
\* no handle it did not at least try to close (the deferred cleanup of start, abort).
RefusedLeavesNothing ==
    launch = "refused" => JobEmpty /\ \A h \in Handles : handles[h] # "open"

\* A join that reports no failure has released everything: the root and its
\* descendants ended and every handle was closed (Close, cleanup).
CleanJoinReleasesAll ==
    reaper = "done" /\ failures = {} =>
        JobEmpty /\ \A h \in Handles : handles[h] \in {"none", "closed"}

\* A tool that ended because of RequestStop or ForceKill is reported as signaled,
\* and one that ended by itself is not, however the two race (terminate, reap,
\* deriveOutcome).
TerminationReported ==
    outcome \in {"exited", "signaled"} => (outcome = "signaled" <=> code \in Codes)

\* Once everything alive has been asked to end, the reaper finishes, the one of an
\* aborted launch included, except that a tool's waits without a bound for a
\* caller's reader that does not end (what TestWindowsWaitJoinsBlockedStdinCopy
\* asserts); the daemon's finishes as soon as the root has ended, whether or not
\* its descendants could be terminated (reap, Close, cleanup).
TerminatedJoins ==
    /\ (reaper # "off" /\ stdin # "copying" /\ \A p \in Processes : Live(p) => p \in doomed)
           ~> (reaper = "done")
    /\ (kind = "daemon" /\ reaper # "off" /\ ~Live("root")) ~> (reaper = "done")

=============================================================================
