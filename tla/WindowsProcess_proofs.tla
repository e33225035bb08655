----------------------- MODULE WindowsProcess_proofs -----------------------
(***************************************************************************)
(* Every safety invariant of WindowsProcess, for any number of failing     *)
(* system calls. The inductive invariant says which handles are open at    *)
(* every point of a launch and of a release (HandleInv), what may be alive *)
(* there (JobInv), what a failure free of records means (CleanInv), and    *)
(* who set the exit code of a tool (CodeInv).                              *)
(***************************************************************************)
EXTENDS WindowsProcess, FiniteSetTheorems, TLAPS

\* A launch that holds the Job, and one that holds the root as well.
LaunchingJob == {"pipes", "create", "assign", "ends", "abort ends", "resume", "thread", "abort",
                 "abort wait", "abort close"}
LaunchingRoot == LaunchingJob \ {"pipes", "create"}

\* The handles the code refers to are open, and no other raw handle is.
HandleInv ==
    /\ \A h \in held \cap RawHandles : handles[h] = "open"
    /\ \A h \in Handles : handles[h] = "open" => h \in held
    /\ launch \in {"idle", "refused"} => held = {}
    /\ launch \in LaunchingJob => "job" \in held
    /\ launch \in LaunchingRoot => "process" \in held
    /\ launch \in {"create", "assign", "ends", "abort ends"} => "childEnds" \in held
    /\ launch \in {"assign", "ends", "resume", "thread"} => "thread" \in held
    /\ kind = "tool" /\ launch = "owned" /\ ~closed => {"job", "process"} \subseteq held
    /\ launch \in {"abort wait", "abort close"} => kind = "daemon"
    /\ reaper # "off" => launch = "owned"
    /\ kind = "tool" /\ reaper \in {"release", "done"} => closed
    /\ launch = "pipes" => held = {"job"}
    /\ launch # "owned" => stdin = "off"
    /\ stdin # "off" => kind = "tool"
    /\ stdin = "done" => handles["input"] # "open"
    /\ kind = "tool" /\ reaper \in {"take", "release", "done"} =>
          \A h \in Files : handles[h] # "open"
    /\ ~misuse

\* What runs was assigned to a Job that is open, and nothing lives where the Job
\* is given up without termination.
JobInv ==
    /\ launch \in {"idle", "pipes", "create"} => \A p \in Processes : st[p] = "none"
    /\ launch = "assign" => st["root"] # "running" /\ st["descendant"] = "none"
    /\ launch \in {"ends", "resume", "thread"} => assigned
    /\ st["root"] = "running" => assigned
    /\ st["descendant"] # "none" => assigned
    /\ launch \in {"abort close", "refused"} => JobEmpty
    /\ kind = "tool" /\ reaper \in {"copies", "take", "release", "done"} =>
          JobEmpty \/ "job" \in failures \/ (~assigned /\ reaper = "copies")
    /\ RunsOnlyInJob

\* As long as no failure is recorded, the daemon's Job is there to be drained,
\* it is empty once drained, and every handle given up was closed.
CleanInv ==
    /\ kind = "daemon" /\ launch = "owned" /\ failures = {} => assigned
    /\ kind = "daemon" /\ reaper \in {"wait", "close"} /\ failures = {} => "job" \in held
    /\ kind = "daemon" /\ reaper \in {"release", "done"} /\ failures = {} => JobEmpty
    /\ reaper = "done" => held = {}
    /\ \A h \in Handles : handles[h] = "lost" => failures # {} \/ launch = "refused"

\* A tool's root got a termination code only from an operation that was recorded.
CodeInv ==
    /\ kind = "daemon" => outcome = "none"
    /\ kind = "tool" => (outcome = "none" <=> reaper \in {"off", "wait"})
    /\ kind = "tool" /\ launch # "owned" => sent = {}
    /\ kind = "tool" /\ code \in Codes => sent # {} \/ outcome = "unobserved"
    /\ outcome \in {"exited", "signaled"} => ~Live("root") /\ launch = "owned"
    /\ TerminationReported

IInv == TypeOK /\ HandleInv /\ JobInv /\ CleanInv /\ CodeInv

-----------------------------------------------------------------------------
\* The initial state of a launch satisfies the invariant.
LEMMA InitInv == Init => IInv
<1> SUFFICES ASSUME Init PROVE IInv
    OBVIOUS
<1> USE DEF Init, Processes, RawHandles, Files, Handles, Codes
<1>1. SystemOK /\ HandlesOK /\ ThreadsOK
    BY DEF SystemOK, HandlesOK, ThreadsOK
<1>2. FlagsOK
    BY DEF FlagsOK
<1>3. faults \in 0 .. MaxFaults
    BY WindowsFaultsAssumption
<1>4. HandleInv
    BY DEF HandleInv, LaunchingJob, LaunchingRoot
<1>5. JobInv
    BY DEF JobInv, RunsOnlyInJob
<1>6. CleanInv
    BY DEF CleanInv
<1>7. CodeInv
    BY DEF CodeInv, TerminationReported
<1>8. QED
    BY <1>1, <1>2, <1>3, <1>4, <1>5, <1>6, <1>7 DEF IInv, TypeOK

\* The types of the processes (start, abort, terminate, reap).
LEMMA SystemStep ==
    ASSUME SystemOK, [Next]_vars
    PROVE  SystemOK'
<1> USE DEF SystemOK, Processes, RawHandles, Files, Handles, Codes
<1>1. CASE Spawn
    BY <1>1 DEF Spawn, winVars, launchVars, ownerVars, joinVars
<1>2. ASSUME NEW p \in Processes, Exit(p) PROVE SystemOK'
    BY <1>2 DEF Exit, winVars, launchVars, ownerVars, joinVars, Live
<1>3. CASE StartRefused
    BY <1>3 DEF StartRefused, winVars, launchVars, ownerVars, joinVars
<1>4. CASE OpenJob
    BY <1>4 DEF OpenJob, winVars, launchVars, ownerVars, joinVars
<1>5. CASE CreateFails
    BY <1>5 DEF CreateFails, winVars, launchVars, ownerVars, joinVars, Dropped, Closed, Misused
<1>6. CASE CreateSuspended
    BY <1>6 DEF CreateSuspended, winVars, launchVars, ownerVars, joinVars
<1>7. CASE AssignToJob
    BY <1>7 DEF AssignToJob, winVars, launchVars, ownerVars, joinVars, Call
<1>8. CASE CloseChildEnds
    BY <1>8 DEF CloseChildEnds, winVars, launchVars, ownerVars, joinVars, Call, Misused
<1>9. CASE ResumeThread
    BY <1>9 DEF ResumeThread, winVars, launchVars, ownerVars, joinVars, Call
<1>10. CASE CloseThread
    BY <1>10 DEF CloseThread, winVars, launchVars, ownerVars, joinVars, Call, Closed, Misused
<1>11. CASE AbortTool
    BY <1>11
       DEF AbortTool, winVars, launchVars, ownerVars, joinVars, Call, Terminates, Terminated,
           ExitCode, JobMembers, Live
<1>12. CASE AbortTerminate
    BY <1>12
       DEF AbortTerminate, winVars, launchVars, ownerVars, joinVars, Call, Terminates, Terminated,
           ExitCode, JobMembers, Live
<1>13. CASE AbortWait
    BY <1>13 DEF AbortWait, winVars, launchVars, ownerVars, joinVars, Call, JobEmpty, Live
<1>14. CASE AbortClose
    BY <1>14 DEF AbortClose, winVars, launchVars, ownerVars, joinVars, Call, Closed, Misused
<1>15. ASSUME NEW exit \in Codes, TerminateDaemon(exit) PROVE SystemOK'
    BY <1>15
       DEF TerminateDaemon, winVars, launchVars, ownerVars, joinVars, Call, Terminates, Terminated,
           ExitCode, JobMembers, Live, Misused
<1>16. ASSUME NEW exit \in Codes, TerminateTool(exit) PROVE SystemOK'
    BY <1>16
       DEF TerminateTool, winVars, launchVars, ownerVars, joinVars, Call, Terminates, Terminated,
           ExitCode, JobMembers, Live, Misused
<1>17. CASE WaitDaemon
    BY <1>17 DEF WaitDaemon, winVars, launchVars, ownerVars, joinVars, Call, Live
<1>18. CASE CloseDaemon
    BY <1>18
       DEF CloseDaemon, winVars, launchVars, ownerVars, joinVars, Call, Terminates, Terminated,
           ExitCode, JobMembers, Live, Misused
<1>19. CASE DrainDaemon
    BY <1>19 DEF DrainDaemon, winVars, launchVars, ownerVars, joinVars, Call, JobEmpty, Live
<1>20. CASE ReleaseDaemon
    BY <1>20
       DEF ReleaseDaemon, winVars, launchVars, ownerVars, joinVars, Call, Dropped, Closed, JobClosed,
           Terminated, ExitCode, Live, Misused
<1>21. CASE ReapTool
    BY <1>21 DEF ReapTool, winVars, launchVars, ownerVars, joinVars, Call, Live
<1>22. CASE DrainTool
    BY <1>22 DEF DrainTool, winVars, launchVars, ownerVars, joinVars, Call, JobEmpty, Live, Closed
<1>23. CASE JoinCopies
    BY <1>23 DEF JoinCopies, winVars, launchVars, ownerVars, joinVars, Call, JobEmpty, Live, Closed
<1>24. CASE TakeHandles
    BY <1>24 DEF TakeHandles, winVars, launchVars, ownerVars, joinVars
<1>25. CASE ReleaseTool
    BY <1>25
       DEF ReleaseTool, winVars, launchVars, ownerVars, joinVars, Call, Dropped, Closed, JobClosed,
           Terminated, ExitCode, Live, Misused
<1>26. CASE UNCHANGED vars
    BY <1>26 DEF vars, winVars, launchVars, ownerVars, joinVars
<1>27. CASE PipesFail
    BY <1>27
       DEF PipesFail, winVars, launchVars, ownerVars, joinVars, Dropped, Closed, Misused, PipeHandles
<1>28. CASE OpenPipes
    BY <1>28 DEF OpenPipes, winVars, launchVars, ownerVars, joinVars, PipeHandles
<1>29. CASE CopyInput
    BY <1>29 DEF CopyInput, winVars, launchVars, ownerVars, joinVars, Closed
<1> HIDE DEF SystemOK, Processes, RawHandles, Files, Handles, Codes
<1>30. QED
    BY <1>1, <1>2, <1>3, <1>4, <1>5, <1>6, <1>7, <1>8, <1>9, <1>10, <1>11, <1>12, <1>13, <1>14, <1>15, <1>16, <1>17, <1>18, <1>19, <1>20, <1>21, <1>22, <1>23, <1>24, <1>25, <1>26, <1>27, <1>28, <1>29
       DEF Next, Windows, Launch, Clients, Reaper

\* A call uses up at most what is left of the fault budget.
LEMMA CallStep ==
    ASSUME faults \in 0 .. MaxFaults, NEW ok, Call(ok)
    PROVE  faults' \in 0 .. MaxFaults
BY WindowsFaultsAssumption DEF Call

\* No more system calls fail than the bound allows.
LEMMA FaultsStep ==
    ASSUME faults \in 0 .. MaxFaults, [Next]_vars
    PROVE  (faults \in 0 .. MaxFaults)'
<1> USE WindowsFaultsAssumption, CallStep DEF vars, Processes, RawHandles, Files, Handles, Codes
<1>1. CASE Spawn
    BY <1>1 DEF Spawn, winVars, launchVars, ownerVars, joinVars
<1>2. ASSUME NEW p \in Processes, Exit(p) PROVE (faults \in 0 .. MaxFaults)'
    BY <1>2 DEF Exit, winVars, launchVars, ownerVars, joinVars, Live
<1>3. CASE StartRefused
    BY <1>3 DEF StartRefused, winVars, launchVars, ownerVars, joinVars
<1>4. CASE OpenJob
    BY <1>4 DEF OpenJob, winVars, launchVars, ownerVars, joinVars
<1>5. CASE CreateFails
    <2>1. PICK kept \in {{}} \cup {{h} : h \in held \cap RawHandles} :
             Cardinality(kept) < faults /\ faults' = faults - 1 - Cardinality(kept)
        BY <1>5 DEF CreateFails
    <2>2. Cardinality(kept) \in Nat
        BY FS_EmptySet, FS_Singleton
    <2>3. QED
        BY <2>1, <2>2
<1>6. CASE CreateSuspended
    BY <1>6 DEF CreateSuspended, winVars, launchVars, ownerVars, joinVars
<1>7. CASE AssignToJob
    BY <1>7 DEF AssignToJob, winVars, launchVars, ownerVars, joinVars, Call
<1>8. CASE CloseChildEnds
    BY <1>8 DEF CloseChildEnds, winVars, launchVars, ownerVars, joinVars, Call, Misused
<1>9. CASE ResumeThread
    BY <1>9 DEF ResumeThread, winVars, launchVars, ownerVars, joinVars, Call
<1>10. CASE CloseThread
    BY <1>10 DEF CloseThread, winVars, launchVars, ownerVars, joinVars, Call, Closed, Misused
<1>11. CASE AbortTool
    BY <1>11
       DEF AbortTool, winVars, launchVars, ownerVars, joinVars, Call, Terminates, Terminated,
           ExitCode, JobMembers, Live
<1>12. CASE AbortTerminate
    BY <1>12
       DEF AbortTerminate, winVars, launchVars, ownerVars, joinVars, Call, Terminates, Terminated,
           ExitCode, JobMembers, Live
<1>13. CASE AbortWait
    BY <1>13 DEF AbortWait, winVars, launchVars, ownerVars, joinVars, Call, JobEmpty, Live
<1>14. CASE AbortClose
    BY <1>14 DEF AbortClose, winVars, launchVars, ownerVars, joinVars, Call, Closed, Misused
<1>15. ASSUME NEW exit \in Codes, TerminateDaemon(exit) PROVE (faults \in 0 .. MaxFaults)'
    BY <1>15
       DEF TerminateDaemon, winVars, launchVars, ownerVars, joinVars, Call, Terminates, Terminated,
           ExitCode, JobMembers, Live, Misused
<1>16. ASSUME NEW exit \in Codes, TerminateTool(exit) PROVE (faults \in 0 .. MaxFaults)'
    BY <1>16
       DEF TerminateTool, winVars, launchVars, ownerVars, joinVars, Call, Terminates, Terminated,
           ExitCode, JobMembers, Live, Misused
<1>17. CASE WaitDaemon
    BY <1>17 DEF WaitDaemon, winVars, launchVars, ownerVars, joinVars, Call, Live
<1>18. CASE CloseDaemon
    BY <1>18
       DEF CloseDaemon, winVars, launchVars, ownerVars, joinVars, Call, Terminates, Terminated,
           ExitCode, JobMembers, Live, Misused
<1>19. CASE DrainDaemon
    BY <1>19 DEF DrainDaemon, winVars, launchVars, ownerVars, joinVars, Call, JobEmpty, Live
<1>20. CASE ReleaseDaemon
    BY <1>20
       DEF ReleaseDaemon, winVars, launchVars, ownerVars, joinVars, Call, Dropped, Closed, JobClosed,
           Terminated, ExitCode, Live, Misused
<1>21. CASE ReapTool
    BY <1>21 DEF ReapTool, winVars, launchVars, ownerVars, joinVars, Call, Live
<1>22. CASE DrainTool
    BY <1>22 DEF DrainTool, winVars, launchVars, ownerVars, joinVars, Call, JobEmpty, Live, Closed
<1>23. CASE JoinCopies
    BY <1>23 DEF JoinCopies, winVars, launchVars, ownerVars, joinVars, Call, JobEmpty, Live, Closed
<1>24. CASE TakeHandles
    BY <1>24 DEF TakeHandles, winVars, launchVars, ownerVars, joinVars
<1>25. CASE ReleaseTool
    BY <1>25
       DEF ReleaseTool, winVars, launchVars, ownerVars, joinVars, Call, Dropped, Closed, JobClosed,
           Terminated, ExitCode, Live, Misused
<1>26. CASE UNCHANGED vars
    BY <1>26 DEF vars, winVars, launchVars, ownerVars, joinVars
<1>27. CASE PipesFail
    <2>1. PICK opened \in {{}, {"childEnds", "input"}, PipeHandles} :
             \E kept \in {{}} \cup {{h} : h \in opened \cup {"job"}} :
                Cardinality(kept) < faults /\ faults' = faults - 1 - Cardinality(kept)
        BY <1>27 DEF PipesFail
    <2>2. PICK kept \in {{}} \cup {{h} : h \in opened \cup {"job"}} :
             Cardinality(kept) < faults /\ faults' = faults - 1 - Cardinality(kept)
        BY <2>1
    <2>3. CASE kept = {}
        BY <2>2, <2>3, FS_EmptySet
    <2>4. CASE kept # {}
        <3>1. PICK h : kept = {h}
            BY <2>2, <2>4
        <3>2. Cardinality(kept) = 1
            BY <3>1, FS_Singleton
        <3>3. QED
            BY <2>2, <3>2
    <2>5. QED
        BY <2>3, <2>4
<1>28. CASE OpenPipes
    BY <1>28 DEF OpenPipes, winVars, launchVars, ownerVars, joinVars, PipeHandles
<1>29. CASE CopyInput
    BY <1>29 DEF CopyInput, winVars, launchVars, ownerVars, joinVars, Closed
<1> HIDE DEF vars, Processes, RawHandles, Files, Handles, Codes
<1>30. QED
    BY <1>1, <1>2, <1>3, <1>4, <1>5, <1>6, <1>7, <1>8, <1>9, <1>10, <1>11, <1>12, <1>13, <1>14, <1>15, <1>16, <1>17, <1>18, <1>19, <1>20, <1>21, <1>22, <1>23, <1>24, <1>25, <1>26, <1>27, <1>28, <1>29
       DEF Next, Windows, Launch, Clients, Reaper

\* The types of the handles (windowsHandleOwner, windowsHandleSet).
LEMMA HandlesStep ==
    ASSUME HandlesOK, [Next]_vars
    PROVE  HandlesOK'
<1> USE DEF HandlesOK, Processes, RawHandles, Files, Handles, Codes
<1>1. CASE Spawn
    BY <1>1 DEF Spawn, winVars, launchVars, ownerVars, joinVars
<1>2. ASSUME NEW p \in Processes, Exit(p) PROVE HandlesOK'
    BY <1>2 DEF Exit, winVars, launchVars, ownerVars, joinVars, Live
<1>3. CASE StartRefused
    BY <1>3 DEF StartRefused, winVars, launchVars, ownerVars, joinVars
<1>4. CASE OpenJob
    BY <1>4 DEF OpenJob, winVars, launchVars, ownerVars, joinVars
<1>5. CASE CreateFails
    BY <1>5 DEF CreateFails, winVars, launchVars, ownerVars, joinVars, Dropped, Closed, Misused
<1>6. CASE CreateSuspended
    BY <1>6 DEF CreateSuspended, winVars, launchVars, ownerVars, joinVars
<1>7. CASE AssignToJob
    BY <1>7 DEF AssignToJob, winVars, launchVars, ownerVars, joinVars, Call
<1>8. CASE CloseChildEnds
    BY <1>8 DEF CloseChildEnds, winVars, launchVars, ownerVars, joinVars, Call, Misused
<1>9. CASE ResumeThread
    BY <1>9 DEF ResumeThread, winVars, launchVars, ownerVars, joinVars, Call
<1>10. CASE CloseThread
    BY <1>10 DEF CloseThread, winVars, launchVars, ownerVars, joinVars, Call, Closed, Misused
<1>11. CASE AbortTool
    BY <1>11
       DEF AbortTool, winVars, launchVars, ownerVars, joinVars, Call, Terminates, Terminated,
           ExitCode, JobMembers, Live
<1>12. CASE AbortTerminate
    BY <1>12
       DEF AbortTerminate, winVars, launchVars, ownerVars, joinVars, Call, Terminates, Terminated,
           ExitCode, JobMembers, Live
<1>13. CASE AbortWait
    BY <1>13 DEF AbortWait, winVars, launchVars, ownerVars, joinVars, Call, JobEmpty, Live
<1>14. CASE AbortClose
    <2>1. PICK kept \in {{}} \cup {{h} : h \in held \cap RawHandles} :
             handles' = Closed(held, kept) /\ held' = kept \cup (IF kept = {} THEN {} ELSE Files)
        BY <1>14 DEF AbortClose
    <2>2. kept \subseteq Handles
        OBVIOUS
    <2>3. handles' \in [Handles -> {"none", "open", "closed", "lost"}]
        BY <2>1 DEF Closed
    <2>4. held' \subseteq Handles
        BY <2>1, <2>2
    <2>5. QED
        BY <2>3, <2>4
<1>15. ASSUME NEW exit \in Codes, TerminateDaemon(exit) PROVE HandlesOK'
    BY <1>15
       DEF TerminateDaemon, winVars, launchVars, ownerVars, joinVars, Call, Terminates, Terminated,
           ExitCode, JobMembers, Live, Misused
<1>16. ASSUME NEW exit \in Codes, TerminateTool(exit) PROVE HandlesOK'
    BY <1>16
       DEF TerminateTool, winVars, launchVars, ownerVars, joinVars, Call, Terminates, Terminated,
           ExitCode, JobMembers, Live, Misused
<1>17. CASE WaitDaemon
    BY <1>17 DEF WaitDaemon, winVars, launchVars, ownerVars, joinVars, Call, Live
<1>18. CASE CloseDaemon
    BY <1>18
       DEF CloseDaemon, winVars, launchVars, ownerVars, joinVars, Call, Terminates, Terminated,
           ExitCode, JobMembers, Live, Misused
<1>19. CASE DrainDaemon
    BY <1>19 DEF DrainDaemon, winVars, launchVars, ownerVars, joinVars, Call, JobEmpty, Live
<1>20. CASE ReleaseDaemon
    BY <1>20
       DEF ReleaseDaemon, winVars, launchVars, ownerVars, joinVars, Call, Dropped, Closed, JobClosed,
           Terminated, ExitCode, Live, Misused
<1>21. CASE ReapTool
    BY <1>21 DEF ReapTool, winVars, launchVars, ownerVars, joinVars, Call, Live
<1>22. CASE DrainTool
    BY <1>22 DEF DrainTool, winVars, launchVars, ownerVars, joinVars, Call, JobEmpty, Live, Closed
<1>23. CASE JoinCopies
    BY <1>23 DEF JoinCopies, winVars, launchVars, ownerVars, joinVars, Call, JobEmpty, Live, Closed
<1>24. CASE TakeHandles
    BY <1>24 DEF TakeHandles, winVars, launchVars, ownerVars, joinVars
<1>25. CASE ReleaseTool
    BY <1>25
       DEF ReleaseTool, winVars, launchVars, ownerVars, joinVars, Call, Dropped, Closed, JobClosed,
           Terminated, ExitCode, Live, Misused
<1>26. CASE UNCHANGED vars
    BY <1>26 DEF vars, winVars, launchVars, ownerVars, joinVars
<1>27. CASE PipesFail
    BY <1>27
       DEF PipesFail, winVars, launchVars, ownerVars, joinVars, Dropped, Closed, Misused, PipeHandles
<1>28. CASE OpenPipes
    BY <1>28 DEF OpenPipes, winVars, launchVars, ownerVars, joinVars, PipeHandles
<1>29. CASE CopyInput
    BY <1>29 DEF CopyInput, winVars, launchVars, ownerVars, joinVars, Closed
<1> HIDE DEF HandlesOK, Processes, RawHandles, Files, Handles, Codes
<1>30. QED
    BY <1>1, <1>2, <1>3, <1>4, <1>5, <1>6, <1>7, <1>8, <1>9, <1>10, <1>11, <1>12, <1>13, <1>14, <1>15, <1>16, <1>17, <1>18, <1>19, <1>20, <1>21, <1>22, <1>23, <1>24, <1>25, <1>26, <1>27, <1>28, <1>29
       DEF Next, Windows, Launch, Clients, Reaper

\* The types of the progress of start and reap.
LEMMA ThreadsStep ==
    ASSUME ThreadsOK, [Next]_vars
    PROVE  ThreadsOK'
<1> USE DEF ThreadsOK, Processes, RawHandles, Files, Handles, Codes
<1>1. CASE Spawn
    BY <1>1 DEF Spawn, winVars, launchVars, ownerVars, joinVars
<1>2. ASSUME NEW p \in Processes, Exit(p) PROVE ThreadsOK'
    BY <1>2 DEF Exit, winVars, launchVars, ownerVars, joinVars, Live
<1>3. CASE StartRefused
    BY <1>3 DEF StartRefused, winVars, launchVars, ownerVars, joinVars
<1>4. CASE OpenJob
    BY <1>4 DEF OpenJob, winVars, launchVars, ownerVars, joinVars
<1>5. CASE CreateFails
    BY <1>5 DEF CreateFails, winVars, launchVars, ownerVars, joinVars, Dropped, Closed, Misused
<1>6. CASE CreateSuspended
    BY <1>6 DEF CreateSuspended, winVars, launchVars, ownerVars, joinVars
<1>7. CASE AssignToJob
    BY <1>7 DEF AssignToJob, winVars, launchVars, ownerVars, joinVars, Call
<1>8. CASE CloseChildEnds
    BY <1>8 DEF CloseChildEnds, winVars, launchVars, ownerVars, joinVars, Call, Misused
<1>9. CASE ResumeThread
    BY <1>9 DEF ResumeThread, winVars, launchVars, ownerVars, joinVars, Call
<1>10. CASE CloseThread
    BY <1>10 DEF CloseThread, winVars, launchVars, ownerVars, joinVars, Call, Closed, Misused
<1>11. CASE AbortTool
    BY <1>11
       DEF AbortTool, winVars, launchVars, ownerVars, joinVars, Call, Terminates, Terminated,
           ExitCode, JobMembers, Live
<1>12. CASE AbortTerminate
    BY <1>12
       DEF AbortTerminate, winVars, launchVars, ownerVars, joinVars, Call, Terminates, Terminated,
           ExitCode, JobMembers, Live
<1>13. CASE AbortWait
    BY <1>13 DEF AbortWait, winVars, launchVars, ownerVars, joinVars, Call, JobEmpty, Live
<1>14. CASE AbortClose
    BY <1>14 DEF AbortClose, winVars, launchVars, ownerVars, joinVars, Call, Closed, Misused
<1>15. ASSUME NEW exit \in Codes, TerminateDaemon(exit) PROVE ThreadsOK'
    BY <1>15
       DEF TerminateDaemon, winVars, launchVars, ownerVars, joinVars, Call, Terminates, Terminated,
           ExitCode, JobMembers, Live, Misused
<1>16. ASSUME NEW exit \in Codes, TerminateTool(exit) PROVE ThreadsOK'
    BY <1>16
       DEF TerminateTool, winVars, launchVars, ownerVars, joinVars, Call, Terminates, Terminated,
           ExitCode, JobMembers, Live, Misused
<1>17. CASE WaitDaemon
    BY <1>17 DEF WaitDaemon, winVars, launchVars, ownerVars, joinVars, Call, Live
<1>18. CASE CloseDaemon
    BY <1>18
       DEF CloseDaemon, winVars, launchVars, ownerVars, joinVars, Call, Terminates, Terminated,
           ExitCode, JobMembers, Live, Misused
<1>19. CASE DrainDaemon
    BY <1>19 DEF DrainDaemon, winVars, launchVars, ownerVars, joinVars, Call, JobEmpty, Live
<1>20. CASE ReleaseDaemon
    BY <1>20
       DEF ReleaseDaemon, winVars, launchVars, ownerVars, joinVars, Call, Dropped, Closed, JobClosed,
           Terminated, ExitCode, Live, Misused
<1>21. CASE ReapTool
    BY <1>21 DEF ReapTool, winVars, launchVars, ownerVars, joinVars, Call, Live
<1>22. CASE DrainTool
    BY <1>22 DEF DrainTool, winVars, launchVars, ownerVars, joinVars, Call, JobEmpty, Live, Closed
<1>23. CASE JoinCopies
    BY <1>23 DEF JoinCopies, winVars, launchVars, ownerVars, joinVars, Call, JobEmpty, Live, Closed
<1>24. CASE TakeHandles
    BY <1>24 DEF TakeHandles, winVars, launchVars, ownerVars, joinVars
<1>25. CASE ReleaseTool
    BY <1>25
       DEF ReleaseTool, winVars, launchVars, ownerVars, joinVars, Call, Dropped, Closed, JobClosed,
           Terminated, ExitCode, Live, Misused
<1>26. CASE UNCHANGED vars
    BY <1>26 DEF vars, winVars, launchVars, ownerVars, joinVars
<1>27. CASE PipesFail
    BY <1>27
       DEF PipesFail, winVars, launchVars, ownerVars, joinVars, Dropped, Closed, Misused, PipeHandles
<1>28. CASE OpenPipes
    BY <1>28 DEF OpenPipes, winVars, launchVars, ownerVars, joinVars, PipeHandles
<1>29. CASE CopyInput
    BY <1>29 DEF CopyInput, winVars, launchVars, ownerVars, joinVars, Closed
<1> HIDE DEF ThreadsOK, Processes, RawHandles, Files, Handles, Codes
<1>30. QED
    BY <1>1, <1>2, <1>3, <1>4, <1>5, <1>6, <1>7, <1>8, <1>9, <1>10, <1>11, <1>12, <1>13, <1>14, <1>15, <1>16, <1>17, <1>18, <1>19, <1>20, <1>21, <1>22, <1>23, <1>24, <1>25, <1>26, <1>27, <1>28, <1>29
       DEF Next, Windows, Launch, Clients, Reaper

\* The types of the flags (terminate, Close, cleanup).
LEMMA FlagsStep ==
    ASSUME FlagsOK, [Next]_vars
    PROVE  FlagsOK'
<1> USE DEF FlagsOK, Processes, RawHandles, Files, Handles, Codes
<1>1. CASE Spawn
    BY <1>1 DEF Spawn, winVars, launchVars, ownerVars, joinVars
<1>2. ASSUME NEW p \in Processes, Exit(p) PROVE FlagsOK'
    BY <1>2 DEF Exit, winVars, launchVars, ownerVars, joinVars, Live
<1>3. CASE StartRefused
    BY <1>3 DEF StartRefused, winVars, launchVars, ownerVars, joinVars
<1>4. CASE OpenJob
    BY <1>4 DEF OpenJob, winVars, launchVars, ownerVars, joinVars
<1>5. CASE CreateFails
    BY <1>5 DEF CreateFails, winVars, launchVars, ownerVars, joinVars, Dropped, Closed, Misused
<1>6. CASE CreateSuspended
    BY <1>6 DEF CreateSuspended, winVars, launchVars, ownerVars, joinVars
<1>7. CASE AssignToJob
    BY <1>7 DEF AssignToJob, winVars, launchVars, ownerVars, joinVars, Call
<1>8. CASE CloseChildEnds
    BY <1>8 DEF CloseChildEnds, winVars, launchVars, ownerVars, joinVars, Call, Misused
<1>9. CASE ResumeThread
    BY <1>9 DEF ResumeThread, winVars, launchVars, ownerVars, joinVars, Call
<1>10. CASE CloseThread
    BY <1>10 DEF CloseThread, winVars, launchVars, ownerVars, joinVars, Call, Closed, Misused
<1>11. CASE AbortTool
    BY <1>11
       DEF AbortTool, winVars, launchVars, ownerVars, joinVars, Call, Terminates, Terminated,
           ExitCode, JobMembers, Live
<1>12. CASE AbortTerminate
    BY <1>12
       DEF AbortTerminate, winVars, launchVars, ownerVars, joinVars, Call, Terminates, Terminated,
           ExitCode, JobMembers, Live
<1>13. CASE AbortWait
    BY <1>13 DEF AbortWait, winVars, launchVars, ownerVars, joinVars, Call, JobEmpty, Live
<1>14. CASE AbortClose
    BY <1>14 DEF AbortClose, winVars, launchVars, ownerVars, joinVars, Call, Closed, Misused
<1>15. ASSUME NEW exit \in Codes, TerminateDaemon(exit) PROVE FlagsOK'
    BY <1>15
       DEF TerminateDaemon, winVars, launchVars, ownerVars, joinVars, Call, Terminates, Terminated,
           ExitCode, JobMembers, Live, Misused
<1>16. ASSUME NEW exit \in Codes, TerminateTool(exit) PROVE FlagsOK'
    BY <1>16
       DEF TerminateTool, winVars, launchVars, ownerVars, joinVars, Call, Terminates, Terminated,
           ExitCode, JobMembers, Live, Misused
<1>17. CASE WaitDaemon
    BY <1>17 DEF WaitDaemon, winVars, launchVars, ownerVars, joinVars, Call, Live
<1>18. CASE CloseDaemon
    BY <1>18
       DEF CloseDaemon, winVars, launchVars, ownerVars, joinVars, Call, Terminates, Terminated,
           ExitCode, JobMembers, Live, Misused
<1>19. CASE DrainDaemon
    BY <1>19 DEF DrainDaemon, winVars, launchVars, ownerVars, joinVars, Call, JobEmpty, Live
<1>20. CASE ReleaseDaemon
    BY <1>20
       DEF ReleaseDaemon, winVars, launchVars, ownerVars, joinVars, Call, Dropped, Closed, JobClosed,
           Terminated, ExitCode, Live, Misused
<1>21. CASE ReapTool
    BY <1>21 DEF ReapTool, winVars, launchVars, ownerVars, joinVars, Call, Live
<1>22. CASE DrainTool
    BY <1>22 DEF DrainTool, winVars, launchVars, ownerVars, joinVars, Call, JobEmpty, Live, Closed
<1>23. CASE JoinCopies
    BY <1>23 DEF JoinCopies, winVars, launchVars, ownerVars, joinVars, Call, JobEmpty, Live, Closed
<1>24. CASE TakeHandles
    BY <1>24 DEF TakeHandles, winVars, launchVars, ownerVars, joinVars
<1>25. CASE ReleaseTool
    BY <1>25
       DEF ReleaseTool, winVars, launchVars, ownerVars, joinVars, Call, Dropped, Closed, JobClosed,
           Terminated, ExitCode, Live, Misused
<1>26. CASE UNCHANGED vars
    BY <1>26 DEF vars, winVars, launchVars, ownerVars, joinVars
<1>27. CASE PipesFail
    BY <1>27
       DEF PipesFail, winVars, launchVars, ownerVars, joinVars, Dropped, Closed, Misused, PipeHandles
<1>28. CASE OpenPipes
    BY <1>28 DEF OpenPipes, winVars, launchVars, ownerVars, joinVars, PipeHandles
<1>29. CASE CopyInput
    BY <1>29 DEF CopyInput, winVars, launchVars, ownerVars, joinVars, Closed
<1> HIDE DEF FlagsOK, Processes, RawHandles, Files, Handles, Codes
<1>30. QED
    BY <1>1, <1>2, <1>3, <1>4, <1>5, <1>6, <1>7, <1>8, <1>9, <1>10, <1>11, <1>12, <1>13, <1>14, <1>15, <1>16, <1>17, <1>18, <1>19, <1>20, <1>21, <1>22, <1>23, <1>24, <1>25, <1>26, <1>27, <1>28, <1>29
       DEF Next, Windows, Launch, Clients, Reaper

\* No step closes or uses a handle the code no longer refers to
\* (windowsHandleOwner, windowsHandleSet).
LEMMA HandleStep ==
    ASSUME TypeOK, HandleInv, [Next]_vars
    PROVE  HandleInv'
<1> USE DEF TypeOK, SystemOK, HandlesOK, ThreadsOK, FlagsOK, HandleInv, LaunchingJob, LaunchingRoot, Processes, RawHandles, Files, Handles, Codes
<1>1. CASE Spawn
    BY <1>1 DEF Spawn, winVars, launchVars, ownerVars, joinVars
<1>2. ASSUME NEW p \in Processes, Exit(p) PROVE HandleInv'
    BY <1>2 DEF Exit, winVars, launchVars, ownerVars, joinVars, Live
<1>3. CASE StartRefused
    BY <1>3 DEF StartRefused, winVars, launchVars, ownerVars, joinVars
<1>4. CASE OpenJob
    BY <1>4 DEF OpenJob, winVars, launchVars, ownerVars, joinVars
<1>5. CASE CreateFails
    BY <1>5 DEF CreateFails, winVars, launchVars, ownerVars, joinVars, Dropped, Closed, Misused
<1>6. CASE CreateSuspended
    BY <1>6 DEF CreateSuspended, winVars, launchVars, ownerVars, joinVars
<1>7. CASE AssignToJob
    <2>1. PICK ok \in BOOLEAN : assigned' = ok /\ launch' = (IF ok THEN "ends" ELSE "abort ends")
        BY <1>7 DEF AssignToJob, Call
    <2>2. launch = "assign" /\ UNCHANGED <<kind, failures, st, doomed, code, handles, held, misuse, reaper, closed, stdin>>
        BY <1>7 DEF AssignToJob, ownerVars, joinVars
    <2>3. CASE ok
        BY <2>1, <2>2, <2>3
    <2>4. CASE ~ok
        BY <2>1, <2>2, <2>4
    <2>5. QED
        BY <2>3, <2>4
<1>8. CASE CloseChildEnds
    BY <1>8 DEF CloseChildEnds, winVars, launchVars, ownerVars, joinVars, Call, Misused
<1>9. CASE ResumeThread
    <2>1. PICK ok \in BOOLEAN : /\ st' = (IF ok THEN [st EXCEPT !["root"] = "running"] ELSE st)
                                  /\ launch' = (IF ok THEN "thread" ELSE "abort")
        BY <1>9 DEF ResumeThread, Call
    <2>2. launch = "resume" /\ UNCHANGED <<kind, failures, doomed, code, assigned, handles, held, misuse, reaper, closed, stdin>>
        BY <1>9 DEF ResumeThread, ownerVars, joinVars
    <2>3. CASE ok
        BY <2>1, <2>2, <2>3
    <2>4. CASE ~ok
        BY <2>1, <2>2, <2>4
    <2>5. QED
        BY <2>3, <2>4
<1>10. CASE CloseThread
    BY <1>10 DEF CloseThread, winVars, launchVars, ownerVars, joinVars, Call, Closed, Misused
<1>11. CASE AbortTool
    BY <1>11
       DEF AbortTool, winVars, launchVars, ownerVars, joinVars, Call, Terminates, Terminated,
           ExitCode, JobMembers, Live
<1>12. CASE AbortTerminate
    BY <1>12
       DEF AbortTerminate, winVars, launchVars, ownerVars, joinVars, Call, Terminates, Terminated,
           ExitCode, JobMembers, Live
<1>13. CASE AbortWait
    BY <1>13 DEF AbortWait, winVars, launchVars, ownerVars, joinVars, Call, JobEmpty, Live
<1>14. CASE AbortClose
    <2>1. PICK kept \in {{}} \cup {{h} : h \in held \cap RawHandles} : 
             /\ handles' = Closed(held, kept)
             /\ held' = kept \cup (IF kept = {} THEN {} ELSE Files)
             /\ launch' = (IF kept = {} THEN "refused" ELSE "owned")
             /\ reaper' = (IF kept = {} THEN "off" ELSE "wait")
        BY <1>14 DEF AbortClose
    <2>2. launch = "abort close" /\ misuse' = Misused(held) /\ UNCHANGED <<kind, closed, stdin>>
        BY <1>14 DEF AbortClose
    <2>3. CASE kept = {}
        BY <2>1, <2>2, <2>3 DEF Closed, Misused
    <2>4. CASE kept # {}
        <3> HIDE DEF TypeOK, SystemOK, HandlesOK, ThreadsOK, FlagsOK, HandleInv, RawHandles, Files, Handles
        <3>0. kept \in {{h} : h \in held \cap RawHandles}
            BY <2>1, <2>4
        <3>1. PICK k \in held \cap RawHandles : kept = {k}
            BY <3>0
        <3> USE DEF HandlesOK, TypeOK, HandleInv, RawHandles, Files, Handles
        <3>2. launch' = "owned" /\ reaper' = "wait" /\ held' = {k} \cup Files /\ kind' = "daemon"
            BY <2>1, <2>2, <3>1
        <3>3. handles' = [h \in Handles |-> IF h \in held \ {k} THEN "closed" ELSE handles[h]]
            BY <2>1, <3>1 DEF Closed
        <3>4. ~misuse'
            BY <2>2 DEF Misused
        <3>5. \A h \in Handles : handles'[h] = "open" => h \in held'
            BY <3>2, <3>3
        <3>6. \A h \in held' \cap RawHandles : handles'[h] = "open"
            BY <3>1, <3>2, <3>3
        <3>7. stdin' = "off" /\ closed' = closed
            BY <2>2
        <3>8. QED
            BY <3>2, <3>4, <3>5, <3>6, <3>7
    <2>5. QED
        BY <2>3, <2>4
<1>15. ASSUME NEW exit \in Codes, TerminateDaemon(exit) PROVE HandleInv'
    BY <1>15
       DEF TerminateDaemon, winVars, launchVars, ownerVars, joinVars, Call, Terminates, Terminated,
           ExitCode, JobMembers, Live, Misused
<1>16. ASSUME NEW exit \in Codes, TerminateTool(exit) PROVE HandleInv'
    BY <1>16
       DEF TerminateTool, winVars, launchVars, ownerVars, joinVars, Call, Terminates, Terminated,
           ExitCode, JobMembers, Live, Misused
<1>17. CASE WaitDaemon
    BY <1>17 DEF WaitDaemon, winVars, launchVars, ownerVars, joinVars, Call, Live
<1>18. CASE CloseDaemon
    BY <1>18
       DEF CloseDaemon, winVars, launchVars, ownerVars, joinVars, Call, Terminates, Terminated,
           ExitCode, JobMembers, Live, Misused
<1>19. CASE DrainDaemon
    BY <1>19 DEF DrainDaemon, winVars, launchVars, ownerVars, joinVars, Call, JobEmpty, Live
<1>20. CASE ReleaseDaemon
    BY <1>20
       DEF ReleaseDaemon, winVars, launchVars, ownerVars, joinVars, Call, Dropped, Closed, JobClosed,
           Terminated, ExitCode, Live, Misused
<1>21. CASE ReapTool
    BY <1>21 DEF ReapTool, winVars, launchVars, ownerVars, joinVars, Call, Live
<1>22. CASE DrainTool
    BY <1>22 DEF DrainTool, winVars, launchVars, ownerVars, joinVars, Call, JobEmpty, Live, Closed
<1>23. CASE JoinCopies
    BY <1>23 DEF JoinCopies, winVars, launchVars, ownerVars, joinVars, Call, JobEmpty, Live, Closed
<1>24. CASE TakeHandles
    BY <1>24 DEF TakeHandles, winVars, launchVars, ownerVars, joinVars
<1>25. CASE ReleaseTool
    BY <1>25
       DEF ReleaseTool, winVars, launchVars, ownerVars, joinVars, Call, Dropped, Closed, JobClosed,
           Terminated, ExitCode, Live, Misused
<1>26. CASE UNCHANGED vars
    BY <1>26 DEF vars, winVars, launchVars, ownerVars, joinVars
<1>27. CASE PipesFail
    BY <1>27
       DEF PipesFail, winVars, launchVars, ownerVars, joinVars, Dropped, Closed, Misused, PipeHandles
<1>28. CASE OpenPipes
    BY <1>28 DEF OpenPipes, winVars, launchVars, ownerVars, joinVars, PipeHandles
<1>29. CASE CopyInput
    BY <1>29 DEF CopyInput, winVars, launchVars, ownerVars, joinVars, Closed
<1> HIDE DEF TypeOK, SystemOK, HandlesOK, ThreadsOK, FlagsOK, HandleInv, LaunchingJob, LaunchingRoot, Processes, RawHandles, Files, Handles, Codes
<1>30. QED
    BY <1>1, <1>2, <1>3, <1>4, <1>5, <1>6, <1>7, <1>8, <1>9, <1>10, <1>11, <1>12, <1>13, <1>14, <1>15, <1>16, <1>17, <1>18, <1>19, <1>20, <1>21, <1>22, <1>23, <1>24, <1>25, <1>26, <1>27, <1>28, <1>29
       DEF Next, Windows, Launch, Clients, Reaper

\* No step lets a process run outside its Job (start, finish, Close, cleanup).
LEMMA JobStep ==
    ASSUME TypeOK, HandleInv, JobInv, [Next]_vars
    PROVE  JobInv'
<1> USE DEF TypeOK, SystemOK, HandlesOK, ThreadsOK, FlagsOK, HandleInv, JobInv, RunsOnlyInJob, JobEmpty, Live, LaunchingJob, LaunchingRoot, Processes, RawHandles, Files, Handles, Codes
<1>1. CASE Spawn
    BY <1>1 DEF Spawn, winVars, launchVars, ownerVars, joinVars
<1>2. ASSUME NEW p \in Processes, Exit(p) PROVE JobInv'
    BY <1>2 DEF Exit, winVars, launchVars, ownerVars, joinVars, Live
<1>3. CASE StartRefused
    BY <1>3 DEF StartRefused, winVars, launchVars, ownerVars, joinVars
<1>4. CASE OpenJob
    BY <1>4 DEF OpenJob, winVars, launchVars, ownerVars, joinVars
<1>5. CASE CreateFails
    BY <1>5 DEF CreateFails, winVars, launchVars, ownerVars, joinVars, Dropped, Closed, Misused
<1>6. CASE CreateSuspended
    BY <1>6 DEF CreateSuspended, winVars, launchVars, ownerVars, joinVars
<1>7. CASE AssignToJob
    <2>1. PICK ok \in BOOLEAN : assigned' = ok /\ launch' = (IF ok THEN "ends" ELSE "abort ends")
        BY <1>7 DEF AssignToJob, Call
    <2>2. launch = "assign" /\ UNCHANGED <<kind, failures, st, doomed, code, handles, held, misuse, reaper, closed>>
        BY <1>7 DEF AssignToJob, ownerVars, joinVars
    <2>3. CASE ok
        BY <2>1, <2>2, <2>3
    <2>4. CASE ~ok
        BY <2>1, <2>2, <2>4
    <2>5. QED
        BY <2>3, <2>4
<1>8. CASE CloseChildEnds
    BY <1>8 DEF CloseChildEnds, winVars, launchVars, ownerVars, joinVars, Call, Misused
<1>9. CASE ResumeThread
    BY <1>9 DEF ResumeThread, winVars, launchVars, ownerVars, joinVars, Call
<1>10. CASE CloseThread
    BY <1>10 DEF CloseThread, winVars, launchVars, ownerVars, joinVars, Call, Closed, Misused
<1>11. CASE AbortTool
    BY <1>11
       DEF AbortTool, winVars, launchVars, ownerVars, joinVars, Call, Terminates, Terminated,
           ExitCode, JobMembers, Live
<1>12. CASE AbortTerminate
    <2>1. launch = "abort" /\ launch' = "abort wait" /\ kind = "daemon"
        BY <1>12 DEF AbortTerminate
    <2>2. UNCHANGED <<kind, st, assigned, handles, reaper>> /\ doomed \subseteq doomed'
        BY <1>12 DEF AbortTerminate, Terminates, Terminated, ownerVars, joinVars
    <2>3. QED
        BY <2>1, <2>2
<1>13. CASE AbortWait
    BY <1>13 DEF AbortWait, winVars, launchVars, ownerVars, joinVars, Call, JobEmpty, Live
<1>14. CASE AbortClose
    BY <1>14 DEF AbortClose, winVars, launchVars, ownerVars, joinVars, Call, Closed, Misused
<1>15. ASSUME NEW exit \in Codes, TerminateDaemon(exit) PROVE JobInv'
    BY <1>15
       DEF TerminateDaemon, winVars, launchVars, ownerVars, joinVars, Call, Terminates, Terminated,
           ExitCode, JobMembers, Live, Misused
<1>16. ASSUME NEW exit \in Codes, TerminateTool(exit) PROVE JobInv'
    BY <1>16
       DEF TerminateTool, winVars, launchVars, ownerVars, joinVars, Call, Terminates, Terminated,
           ExitCode, JobMembers, Live, Misused
<1>17. CASE WaitDaemon
    BY <1>17 DEF WaitDaemon, winVars, launchVars, ownerVars, joinVars, Call, Live
<1>18. CASE CloseDaemon
    BY <1>18
       DEF CloseDaemon, winVars, launchVars, ownerVars, joinVars, Call, Terminates, Terminated,
           ExitCode, JobMembers, Live, Misused
<1>19. CASE DrainDaemon
    BY <1>19 DEF DrainDaemon, winVars, launchVars, ownerVars, joinVars, Call, JobEmpty, Live
<1>20. CASE ReleaseDaemon
    BY <1>20
       DEF ReleaseDaemon, winVars, launchVars, ownerVars, joinVars, Call, Dropped, Closed, JobClosed,
           Terminated, ExitCode, Live, Misused
<1>21. CASE ReapTool
    BY <1>21 DEF ReapTool, winVars, launchVars, ownerVars, joinVars, Call, Live
<1>22. CASE DrainTool
    BY <1>22 DEF DrainTool, winVars, launchVars, ownerVars, joinVars, Call, JobEmpty, Live, Closed
<1>23. CASE JoinCopies
    BY <1>23 DEF JoinCopies, winVars, launchVars, ownerVars, joinVars, Call, JobEmpty, Live, Closed
<1>24. CASE TakeHandles
    BY <1>24 DEF TakeHandles, winVars, launchVars, ownerVars, joinVars
<1>25. CASE ReleaseTool
    BY <1>25
       DEF ReleaseTool, winVars, launchVars, ownerVars, joinVars, Call, Dropped, Closed, JobClosed,
           Terminated, ExitCode, Live, Misused
<1>26. CASE UNCHANGED vars
    BY <1>26 DEF vars, winVars, launchVars, ownerVars, joinVars
<1>27. CASE PipesFail
    BY <1>27
       DEF PipesFail, winVars, launchVars, ownerVars, joinVars, Dropped, Closed, Misused, PipeHandles
<1>28. CASE OpenPipes
    BY <1>28 DEF OpenPipes, winVars, launchVars, ownerVars, joinVars, PipeHandles
<1>29. CASE CopyInput
    BY <1>29 DEF CopyInput, winVars, launchVars, ownerVars, joinVars, Closed
<1> HIDE DEF TypeOK, SystemOK, HandlesOK, ThreadsOK, FlagsOK, HandleInv, JobInv, RunsOnlyInJob, JobEmpty, Live, LaunchingJob, LaunchingRoot, Processes, RawHandles, Files, Handles, Codes
<1>30. QED
    BY <1>1, <1>2, <1>3, <1>4, <1>5, <1>6, <1>7, <1>8, <1>9, <1>10, <1>11, <1>12, <1>13, <1>14, <1>15, <1>16, <1>17, <1>18, <1>19, <1>20, <1>21, <1>22, <1>23, <1>24, <1>25, <1>26, <1>27, <1>28, <1>29
       DEF Next, Windows, Launch, Clients, Reaper

\* No step gives up a handle or a process without a record (recordFailure).
LEMMA CleanStep ==
    ASSUME HandlesOK, HandleInv, JobInv, CleanInv, [Next]_vars
    PROVE  CleanInv'
<1> USE DEF HandlesOK, HandleInv, JobInv, CleanInv, JobEmpty, Live, LaunchingJob, LaunchingRoot, Processes, RawHandles, Files, Handles, Codes
<1>1. CASE Spawn
    BY <1>1 DEF Spawn, winVars, launchVars, ownerVars, joinVars
<1>2. ASSUME NEW p \in Processes, Exit(p) PROVE CleanInv'
    BY <1>2 DEF Exit, winVars, launchVars, ownerVars, joinVars, Live
<1>3. CASE StartRefused
    BY <1>3 DEF StartRefused, winVars, launchVars, ownerVars, joinVars
<1>4. CASE OpenJob
    BY <1>4 DEF OpenJob, winVars, launchVars, ownerVars, joinVars
<1>5. CASE CreateFails
    BY <1>5 DEF CreateFails, winVars, launchVars, ownerVars, joinVars, Dropped, Closed, Misused
<1>6. CASE CreateSuspended
    BY <1>6 DEF CreateSuspended, winVars, launchVars, ownerVars, joinVars
<1>7. CASE AssignToJob
    BY <1>7 DEF AssignToJob, winVars, launchVars, ownerVars, joinVars, Call
<1>8. CASE CloseChildEnds
    BY <1>8 DEF CloseChildEnds, winVars, launchVars, ownerVars, joinVars, Call, Misused
<1>9. CASE ResumeThread
    BY <1>9 DEF ResumeThread, winVars, launchVars, ownerVars, joinVars, Call
<1>10. CASE CloseThread
    BY <1>10 DEF CloseThread, winVars, launchVars, ownerVars, joinVars, Call, Closed, Misused
<1>11. CASE AbortTool
    BY <1>11
       DEF AbortTool, winVars, launchVars, ownerVars, joinVars, Call, Terminates, Terminated,
           ExitCode, JobMembers, Live
<1>12. CASE AbortTerminate
    <2>1. launch = "abort" /\ launch' = "abort wait" /\ reaper = "off"
        BY <1>12 DEF AbortTerminate
    <2>2. UNCHANGED <<kind, handles, reaper>> /\ failures \subseteq failures'
        BY <1>12 DEF AbortTerminate, ownerVars, joinVars
    <2>3. \A h \in Handles : handles'[h] = "lost" => failures' # {}
        <3> HIDE DEF HandlesOK, HandleInv, JobInv, JobEmpty, Live
        <3>1. handles' = handles /\ \A h \in Handles : handles[h] = "lost" => failures # {}
            BY <2>1, <2>2
        <3>2. failures # {} => failures' # {}
            BY <2>2
        <3>3. QED
            BY <3>1, <3>2
    <2>4. QED
        BY <2>1, <2>2, <2>3
<1>13. CASE AbortWait
    <2>1. launch = "abort wait" /\ reaper = "off"
        BY <1>13 DEF AbortWait
    <2>2. UNCHANGED <<kind, handles>> /\ failures \subseteq failures'
        BY <1>13 DEF AbortWait, ownerVars
    <2>3. CASE failures' = {}
        BY <1>13, <2>1, <2>2, <2>3 DEF AbortWait
    <2>4. CASE failures' # {}
        BY <1>13, <2>1, <2>2, <2>4 DEF AbortWait
    <2>5. QED
        BY <2>3, <2>4
<1>14. CASE AbortClose
    BY <1>14 DEF AbortClose, winVars, launchVars, ownerVars, joinVars, Call, Closed, Misused
<1>15. ASSUME NEW exit \in Codes, TerminateDaemon(exit) PROVE CleanInv'
    BY <1>15
       DEF TerminateDaemon, winVars, launchVars, ownerVars, joinVars, Call, Terminates, Terminated,
           ExitCode, JobMembers, Live, Misused
<1>16. ASSUME NEW exit \in Codes, TerminateTool(exit) PROVE CleanInv'
    BY <1>16
       DEF TerminateTool, winVars, launchVars, ownerVars, joinVars, Call, Terminates, Terminated,
           ExitCode, JobMembers, Live, Misused
<1>17. CASE WaitDaemon
    BY <1>17 DEF WaitDaemon, winVars, launchVars, ownerVars, joinVars, Call, Live
<1>18. CASE CloseDaemon
    BY <1>18
       DEF CloseDaemon, winVars, launchVars, ownerVars, joinVars, Call, Terminates, Terminated,
           ExitCode, JobMembers, Live, Misused
<1>19. CASE DrainDaemon
    BY <1>19 DEF DrainDaemon, winVars, launchVars, ownerVars, joinVars, Call, JobEmpty, Live
<1>20. CASE ReleaseDaemon
    BY <1>20
       DEF ReleaseDaemon, winVars, launchVars, ownerVars, joinVars, Call, Dropped, Closed, JobClosed,
           Terminated, ExitCode, Live, Misused
<1>21. CASE ReapTool
    BY <1>21 DEF ReapTool, winVars, launchVars, ownerVars, joinVars, Call, Live
<1>22. CASE DrainTool
    BY <1>22 DEF DrainTool, winVars, launchVars, ownerVars, joinVars, Call, JobEmpty, Live, Closed
<1>23. CASE JoinCopies
    BY <1>23 DEF JoinCopies, winVars, launchVars, ownerVars, joinVars, Call, JobEmpty, Live, Closed
<1>24. CASE TakeHandles
    BY <1>24 DEF TakeHandles, winVars, launchVars, ownerVars, joinVars
<1>25. CASE ReleaseTool
    <2>1. PICK kept \in {{}} \cup {{h} : h \in held \cap RawHandles} : 
             /\ handles' = Dropped(held \cap RawHandles, kept)
             /\ failures' = (IF kept = {} THEN failures ELSE failures \cup {"close"})
        BY <1>25 DEF ReleaseTool
    <2>2. kind = "tool" /\ reaper = "release" /\ held' = {} /\ UNCHANGED <<kind, launch>>
        BY <1>25 DEF ReleaseTool, launchVars
    <2>3. CASE kept = {}
        BY <2>1, <2>2, <2>3 DEF Dropped, Closed
    <2>4. CASE kept # {}
        BY <2>1, <2>2, <2>4 DEF Dropped, Closed
    <2>5. QED
        BY <2>3, <2>4
<1>26. CASE UNCHANGED vars
    BY <1>26 DEF vars, winVars, launchVars, ownerVars, joinVars
<1>27. CASE PipesFail
    BY <1>27
       DEF PipesFail, winVars, launchVars, ownerVars, joinVars, Dropped, Closed, Misused, PipeHandles
<1>28. CASE OpenPipes
    BY <1>28 DEF OpenPipes, winVars, launchVars, ownerVars, joinVars, PipeHandles
<1>29. CASE CopyInput
    BY <1>29 DEF CopyInput, winVars, launchVars, ownerVars, joinVars, Closed
<1> HIDE DEF HandlesOK, HandleInv, JobInv, CleanInv, JobEmpty, Live, LaunchingJob, LaunchingRoot, Processes, RawHandles, Files, Handles, Codes
<1>30. QED
    BY <1>1, <1>2, <1>3, <1>4, <1>5, <1>6, <1>7, <1>8, <1>9, <1>10, <1>11, <1>12, <1>13, <1>14, <1>15, <1>16, <1>17, <1>18, <1>19, <1>20, <1>21, <1>22, <1>23, <1>24, <1>25, <1>26, <1>27, <1>28, <1>29
       DEF Next, Windows, Launch, Clients, Reaper

\* The exit code of a tool's root is never ahead of the record of its cause
\* (terminate, deriveOutcome).
LEMMA CodeStep ==
    ASSUME TypeOK, HandleInv, CodeInv, [Next]_vars
    PROVE  CodeInv'
<1> USE DEF TypeOK, SystemOK, HandlesOK, ThreadsOK, FlagsOK, HandleInv, CodeInv, TerminationReported, Live, Processes, RawHandles, Files, Handles, Codes
<1>1. CASE Spawn
    BY <1>1 DEF Spawn, winVars, launchVars, ownerVars, joinVars
<1>2. ASSUME NEW p \in Processes, Exit(p) PROVE CodeInv'
    BY <1>2 DEF Exit, winVars, launchVars, ownerVars, joinVars, Live
<1>3. CASE StartRefused
    BY <1>3 DEF StartRefused, winVars, launchVars, ownerVars, joinVars
<1>4. CASE OpenJob
    BY <1>4 DEF OpenJob, winVars, launchVars, ownerVars, joinVars
<1>5. CASE CreateFails
    BY <1>5 DEF CreateFails, winVars, launchVars, ownerVars, joinVars, Dropped, Closed, Misused
<1>6. CASE CreateSuspended
    BY <1>6 DEF CreateSuspended, winVars, launchVars, ownerVars, joinVars
<1>7. CASE AssignToJob
    BY <1>7 DEF AssignToJob, winVars, launchVars, ownerVars, joinVars, Call
<1>8. CASE CloseChildEnds
    BY <1>8 DEF CloseChildEnds, winVars, launchVars, ownerVars, joinVars, Call, Misused
<1>9. CASE ResumeThread
    BY <1>9 DEF ResumeThread, winVars, launchVars, ownerVars, joinVars, Call
<1>10. CASE CloseThread
    BY <1>10 DEF CloseThread, winVars, launchVars, ownerVars, joinVars, Call, Closed, Misused
<1>11. CASE AbortTool
    BY <1>11
       DEF AbortTool, winVars, launchVars, ownerVars, joinVars, Call, Terminates, Terminated,
           ExitCode, JobMembers, Live
<1>12. CASE AbortTerminate
    BY <1>12
       DEF AbortTerminate, winVars, launchVars, ownerVars, joinVars, Call, Terminates, Terminated,
           ExitCode, JobMembers, Live
<1>13. CASE AbortWait
    BY <1>13 DEF AbortWait, winVars, launchVars, ownerVars, joinVars, Call, JobEmpty, Live
<1>14. CASE AbortClose
    BY <1>14 DEF AbortClose, winVars, launchVars, ownerVars, joinVars, Call, Closed, Misused
<1>15. ASSUME NEW exit \in Codes, TerminateDaemon(exit) PROVE CodeInv'
    BY <1>15
       DEF TerminateDaemon, winVars, launchVars, ownerVars, joinVars, Call, Terminates, Terminated,
           ExitCode, JobMembers, Live, Misused
<1>16. ASSUME NEW exit \in Codes, TerminateTool(exit) PROVE CodeInv'
    BY <1>16
       DEF TerminateTool, winVars, launchVars, ownerVars, joinVars, Call, Terminates, Terminated,
           ExitCode, JobMembers, Live, Misused
<1>17. CASE WaitDaemon
    BY <1>17 DEF WaitDaemon, winVars, launchVars, ownerVars, joinVars, Call, Live
<1>18. CASE CloseDaemon
    BY <1>18
       DEF CloseDaemon, winVars, launchVars, ownerVars, joinVars, Call, Terminates, Terminated,
           ExitCode, JobMembers, Live, Misused
<1>19. CASE DrainDaemon
    BY <1>19 DEF DrainDaemon, winVars, launchVars, ownerVars, joinVars, Call, JobEmpty, Live
<1>20. CASE ReleaseDaemon
    BY <1>20
       DEF ReleaseDaemon, winVars, launchVars, ownerVars, joinVars, Call, Dropped, Closed, JobClosed,
           Terminated, ExitCode, Live, Misused
<1>21. CASE ReapTool
    BY <1>21 DEF ReapTool, winVars, launchVars, ownerVars, joinVars, Call, Live
<1>22. CASE DrainTool
    BY <1>22 DEF DrainTool, winVars, launchVars, ownerVars, joinVars, Call, JobEmpty, Live, Closed
<1>23. CASE JoinCopies
    BY <1>23 DEF JoinCopies, winVars, launchVars, ownerVars, joinVars, Call, JobEmpty, Live, Closed
<1>24. CASE TakeHandles
    BY <1>24 DEF TakeHandles, winVars, launchVars, ownerVars, joinVars
<1>25. CASE ReleaseTool
    BY <1>25
       DEF ReleaseTool, winVars, launchVars, ownerVars, joinVars, Call, Dropped, Closed, JobClosed,
           Terminated, ExitCode, Live, Misused
<1>26. CASE UNCHANGED vars
    BY <1>26 DEF vars, winVars, launchVars, ownerVars, joinVars
<1>27. CASE PipesFail
    BY <1>27
       DEF PipesFail, winVars, launchVars, ownerVars, joinVars, Dropped, Closed, Misused, PipeHandles
<1>28. CASE OpenPipes
    BY <1>28 DEF OpenPipes, winVars, launchVars, ownerVars, joinVars, PipeHandles
<1>29. CASE CopyInput
    BY <1>29 DEF CopyInput, winVars, launchVars, ownerVars, joinVars, Closed
<1> HIDE DEF TypeOK, SystemOK, HandlesOK, ThreadsOK, FlagsOK, HandleInv, CodeInv, TerminationReported, Live, Processes, RawHandles, Files, Handles, Codes
<1>30. QED
    BY <1>1, <1>2, <1>3, <1>4, <1>5, <1>6, <1>7, <1>8, <1>9, <1>10, <1>11, <1>12, <1>13, <1>14, <1>15, <1>16, <1>17, <1>18, <1>19, <1>20, <1>21, <1>22, <1>23, <1>24, <1>25, <1>26, <1>27, <1>28, <1>29
       DEF Next, Windows, Launch, Clients, Reaper

-----------------------------------------------------------------------------
\* The invariant is inductive.
THEOREM Inductive == Spec => []IInv
<1>1. Init => IInv
    BY InitInv
<1>2. IInv /\ [Next]_vars => IInv'
    BY SystemStep, FaultsStep, HandlesStep, ThreadsStep, FlagsStep, HandleStep, JobStep, CleanStep, CodeStep
       DEF IInv, TypeOK
<1>3. QED
    BY <1>1, <1>2, PTL DEF Spec

\* Every variable of a launch keeps its type, and no more calls fail than the bound says.
THEOREM TypeCorrect == Spec => []TypeOK
BY Inductive, PTL DEF IInv

\* No handle is closed twice or used after it was closed (windowsHandleOwner,
\* windowsHandleSet).
THEOREM HandlesOpen == Spec => []HandlesUsedWhileOpen
<1>1. IInv => HandlesUsedWhileOpen
    BY DEF IInv, HandleInv, HandlesUsedWhileOpen
<1>2. QED
    BY Inductive, <1>1, PTL

\* A process nobody asked to end runs only inside an open kill-on-close Job
\* (start, finish, Close, cleanup).
THEOREM RunsInJob == Spec => []RunsOnlyInJob
<1>1. IInv => RunsOnlyInJob
    BY DEF IInv, JobInv
<1>2. QED
    BY Inductive, <1>1, PTL

\* A launch without a candidate leaves no process and no handle behind (the
\* deferred cleanup of start, abort).
THEOREM RefusedClean == Spec => []RefusedLeavesNothing
<1>1. IInv => RefusedLeavesNothing
    BY DEF IInv, HandleInv, JobInv, RefusedLeavesNothing
<1>2. QED
    BY Inductive, <1>1, PTL

\* A join without a recorded failure has released every process and handle
\* (Close, cleanup).
THEOREM JoinReleases == Spec => []CleanJoinReleasesAll
<1>1. IInv => CleanJoinReleasesAll
    <2> SUFFICES ASSUME IInv, reaper = "done", failures = {}
                 PROVE  JobEmpty /\ \A h \in Handles : handles[h] \in {"none", "closed"}
        BY DEF CleanJoinReleasesAll
    <2>1. JobEmpty
        BY DEF IInv, TypeOK, SystemOK, JobInv, CleanInv
    <2>2. \A h \in Handles : handles[h] \in {"none", "closed"}
        BY DEF IInv, TypeOK, HandlesOK, HandleInv, CleanInv, Handles
    <2>3. QED
        BY <2>1, <2>2
<1>2. QED
    BY Inductive, <1>1, PTL

\* A tool is reported as signaled exactly when a recorded operation ended it
\* (terminate, reap, deriveOutcome).
THEOREM Reported == Spec => []TerminationReported
<1>1. IInv => TerminationReported
    BY DEF IInv, CodeInv
<1>2. QED
    BY Inductive, <1>1, PTL
=============================================================================
