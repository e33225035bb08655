# Verification of spice-agent-coding

This directory holds TLA+ models of the parts of `spice-agent-coding` whose
correctness depends on the order in which goroutines, callers and processes
act, the TLC instances that check them, and TLAPS proofs of the main results.
`PROJECT.json` lists components, runs, the source lines each definition models,
findings, hazards and theorems.

## 1. The system

The distribution has two programs. `spice-agentd` (the daemon) serves an
authenticated local gRPC endpoint; `spice-agent` (the terminal) attaches to it
or starts one it owns. Both are wired by generated Spice applications; the
handwritten logic is small and concurrent.

| Component (source) | State | Operations | Interacts with | Hard behaviour | What makes it correct |
|---|---|---|---|---|---|
| TUI session connection (`internal/tuisession`: `session_connection`, `session_commands`, `session_lifecycle`, `session_resources`) | client session and its generation, `reconnectMutex`, active run, worker fence, stream fields, `closed` | initialize once, submit, cancel, restore, Close | connector and client session (external), observers | several lanes restore at once; remote calls under a mutex; Close at any moment; bounded channel | no session lost, no Start accepted twice, fresh session only when idle, Close joins and finishes |
| TUI observers and publisher (`session_event_observer`, `session_interaction_observer`, `session_publisher`) | stream, cursor, reconnecting flag; update channel, failure | open, consume, release, retry; publish, recordFailure, Receive | connection, state | blocking publication; errors on every path; overlap of two runs' observers | a run is observed or the failure is reported; updates ordered and bounded |
| TUI interaction state (`session_state`, `interaction_selector`) | pending interactions, revision | merge snapshot or change, reset, select | interaction observer, restore | lost, repeated or stale frames; reset racing a merge; revisions restart with a new daemon | the merged set is the daemon's |
| Daemon runtime (`internal/daemon/runtime.go`) | phase, listener, publication, serve result | Start, Stop (retryable), observeServe, Done/Err | gRPC server, endpoint store, runner | partial failure of each step; concurrent Stop; transport dying | announced only while serving; withdrawn before shutdown; stopped means released |
| Plugin activation (`runtime_plugin_activation.go`) | activation state | Start, PublicationReady | runtime | canceled, optional and required failures | failed activation never publishes |
| Daemon runner (`cmd/spice-agentd`) | command context, parent control channel | Run, stop | runtime | signal, parent EOF and transport end race | the process does not stay alive without transport |
| Daemon process ownership (`internal/daemonprocess`: `process.go`, `starter.go`) | root, reap result, escalation timers | start, BeginShutdown, escalate, Wait | containment | escalation racing reap and Close | a requested shutdown ends; Wait reports every failure |
| Unix containment (`unix_launched_process_unix.go`, `descendant_registry_unix.go`) | process group, registered and discovered descendants by PID and birth identity, failure history | register, discover, signal, Close | process table, registry socket | PID reuse, escape from the group, registration racing Close, failing snapshots | a clean Wait leaves no owned process; nobody else is signalled |
| Tool processes (`internal/processplatform`) | root and children, outcome, `done` and `joined` | Start, reap, track, RequestStop, ForceKill, Wait | process table, registrar | children orphaned between snapshots; signals after reap; launch that cannot be anchored | a clean Wait contains what was seen; a killed tool is joined |
| Windows containment (both packages, `*_windows.go`) | Job, process, thread and pipe handles | launch suspended into a Job, abort, terminate, wait, drain, release | Windows | every call may fail; terminate racing release | nothing runs outside the Job; no handle used after close; nothing left behind |
| Generated applications and their commands (`internal/spicegen`, `cmd/*`, `internal/daemoncommand`, `internal/terminalcommand`) | beans built, registered cleanups, started hooks, lifecycle state, contexts | configure, construct, roll back, start, stop, check, exit | every bean above; the vendored lifecycle coordinator | any constructor, hook or cleanup failing; cancellation anywhere; a drain that outlives its context | reverse release, nothing skipped, success only when clean, the command ends |
| Explicit connector (`internal/terminalconnector`) | closed flag, last session | Initialize, Close | endpoint discovery | Initialize racing Close | no session survives Close |
| Accessible terminal model (`internal/terminal/accessible_model.go`) | revision, lanes, running commands | Update | TUI session | messages out of order | revisions strictly increase, one command per lane |
| Release tools, quality gate, acceptance suites | files | – | – | sequential | not modelled (see section 7) |

## 2. Modules

| Module | Models |
|---|---|
| `TuiConnection` | the connection core of the TUI session: threads `init`, `submit`, `interactions`, one per run, and the goroutine of `close` |
| `TuiInteractions` | the merge of the interaction stream against restores and daemon replacements |
| `TuiEvents` | the way of a run's events from the daemon's streams through cursor, publisher and channel to `Receive` |
| `EventLog` | what the terminal is promised about those events; `TuiEvents` implements it |
| `DaemonRuntime` | plugin activation, `Runtime.Start`/`Stop`, the serve goroutine and the runner |
| `ProcessTable` | processes, PIDs, groups, zombies and reparenting: the part of Unix both containment models extend |
| `DaemonProcess` | a managed daemon on Unix: start, descendant registry, tracking, escalation, reap and Close |
| `ToolProcess` | a tool or plugin process on Unix: start, reap, ownership tracking, RequestStop, ForceKill, Wait |
| `WindowsProcess` | launch, abort, termination and release of either kind on Windows |
| `ApplicationBeans` | the generated data: construction orders, what each bean takes and releases, hooks, configuration schemas, replaceable beans |
| `Application` | construction with rollback, hooks, the foreground, Stop, and the commands around them up to the exit code |
| `MC*` | model values and the generated data for TLC |
| `*_proofs` | TLAPS proofs about the module they are named after |

Definitions followed by a comment `mutant:` are deliberately wrong variants of
the definition below them. They belong to no specification; substituting one
must make TLC refute the property `PROJECT.json` pairs with it, which shows the
property can fail.

### TuiConnection

Each goroutine that outlives a critical section is a thread with a program
counter; a step is what the goroutine does between two points where another
goroutine can be observed: one critical section, one remote call's return, one
channel operation. Client sessions are numbered as the connector returns them;
`open` is the set not yet closed, `client`/`generation` the adapter's fields,
`held[t]` a session only thread `t` refers to.

* `EnsureInitialized`, `Initialize*`: `initializeOnce` and `initialize`. The
  first connection may fail, be refused by `validateConnection` (and then is
  not closed, as in the code), or be installed; the snapshot publication may
  find the session closed.
* `Submit`, `SubmitLock`, `StartAccepted`, `StartFailed`, `SubmitRecord`,
  `SubmitHistory`, `SubmitSpawn`: `performSubmit` under `ordinaryMutex`, with
  `startSubmittedRun` under `reconnectMutex`. An uncertain failure may or may
  not have been accepted by the daemon. `Cancel`/`CancelReturns` are
  `performCancel`; its capture and its answer are separate steps.
* `Restore*`: `restoreConnectionLocked`, shared by observers and submit lane:
  generation check, reconnect with the claim, `activeRunExists`, fresh
  initialization, install, close of the old session, publication. Retries of
  `initializeForRestore` leave the state unchanged and are stuttering.
* `OpenStream` … `ReportFailure`: both observers, which share
  `retryObservation`. Errors are abstracted to the classes that
  `canRetryObservation` tells apart: `eof` (reopen), `lost` (restore first),
  `fatal`. Opening a stream can fail in a fourth way, `canceled`: when the first
  page does not arrive, the client returns the bare `context.Canceled` of the
  stream's own context (`grpcclient/streams.go:252`, `status.go:146-149`), which
  is not retried and which `recordFailure` drops, so that the observer ends
  without a word (`AfterRelease`, `RecordFailure`).
* `Close*`: `close`, one step per resource. `Receive` is the only reader of
  the update channel, of which the model keeps the length.

A publication is one step. `publishMutex` only orders goroutines that all wait
for the same channel, so holding it while blocked adds no behaviour that the
order of the steps does not already give.

### TuiInteractions

A daemon incarnation (one daemon-side session) is the history of its pending
set; a frame is a kind and a revision into that history. The swap of the client
session, the reset of the interaction state and the close of the old session
are separate steps, as in `restoreConnectionLocked`. `Current` is the choice of
`interaction_selector.go`, `announced` what the terminal was last told, `settled`
false from an unannounced change of the active run or reset until the next
announcement. Two facts about the
environment are chosen in `Init`: `faulty` (streams may lose, repeat or
misplace frames) and `commands` (lanes other than the observer restore, too).

### TuiEvents

`observeEvents` is the thread `events`; every other user of `publish` and
`recordFailure` (interaction observer, commands, restores by other lanes) is the
thread `other`. Here a publication has two steps, unlike in `TuiConnection`:
`PublishBegin` takes `publishMutex` and numbers the update, `PublishSent` or
`PublishClosed` ends the `select`; `recordFailure` sends without that mutex.
`cursor` is the observer's local variable, `at` what the daemon's stream has
sent. A stream is healthy (contiguous from the cursor it was opened with) or,
when `faulty` was chosen in `Init`, sends any events and acknowledgements.
`MaxRevision` stands for the last `uint64`: the model reaches it and takes the
refusal. A restoration is one step with the outcomes `TuiConnection` details.
`OpenCanceled` is the opening that fails with `context.Canceled` and ends the
observer without a recorded failure.
Once `closed`, a select with another ready case may take either.

### DaemonRuntime

The runner's calls, `Stop` by any number of other callers, the serve goroutine
and `observeServe` interleave; `lifecycle` is the mutex both `Start` and `Stop`
hold throughout. Listening, publishing, withdrawing and joining may fail; the
transport may end at any time. `kept` and `loose` record that a withdrawal was
refused and that a failed Start ran out of its own cleanup time.

### ProcessTable, DaemonProcess, ToolProcess

A process is its birth identity (`Root`, `Child`, `Stray`, `Other`); its PID may
be taken over, once it has left the table, by `Other`, a process of somebody
else. A process that exits is a zombie until its parent reaps it, orphans go to
init, and `doomed` processes have a pending SIGKILL.

`discoverLocked` is a set comprehension over what a snapshot lists: owned
identities that are still listed, and whatever descends from them.
`DescendantsOf` is the least set around them that is closed under fork,
which is what the loop of the code reaches when it adds nothing more. A
snapshot may fail, and it may succeed with any part of the table (`Listings`):
the Linux snapshotter skips an entry it cannot read or parse
(`snapshotter_linux.go:34-41`). `omitted` remembers the owned processes a
successful snapshot left out until a later one finds them again. These, a kill
and the other calls that the code records may fail, `MaxFaults` times in all. `signalOwned` and `signal` are
several steps (snapshot, group, each escaped PID), since a process may exit and
its PID be reused between them; they hold the discovery mutex throughout.
`struck` records that a process of somebody else was signalled although the
snapshot showed who it was; a PID reused after the snapshot can be hit by any
code that signals by PID, and the models do not count it.

`DaemonProcess` also has the daemon's side of the registry
(`DescendantRegistry.Start` and the child's `Await`) and the two socket pairs,
so that a registration can meet a closing supervisor at each of its steps. The
copy of the daemon's stderr is one more goroutine that may record a failure
(`DrainStderr`); Close joins it last.

### WindowsProcess

One module for both packages: `kind` is chosen in `Init`, and the actions of the
launch up to `ResumeThread` are shared as the two factories perform the same
calls. `OpenJob` and `OpenPipes` are separate steps: with the Job open the pipes
may fail (`PipesFail`), and what was opened is closed before there is a process.
`stdin` is the copy of a tool's standard input, which reads from the caller and
ends when it likes (`CopyInput`); `JoinCopies` waits for it. A handle is `open`, `closed` or `lost` (its close failed); closing or using
a closed one sets `misuse`. The root is created suspended and may only spawn once
resumed.

### ApplicationBeans, Application

`ApplicationBeans` is data taken from the generated providers, contracts and
configuration of `spice_agentd` (45 beans), `spice_agent` (36) and the
architecture proof (16): the order, the beans each constructor takes, the kind of
its cleanup (`close`, `drain`: returns at the end of its context while its work
goes on, `contain`: uses a budget of its own, `attach`: only when attached).
`Application` gives them their behaviour: the command line and its early exits,
missing or undecodable configuration, layers of replacements, construction with
rollback, hooks, the foreground (transport, shell or none), cancellation at any
point, the stop context that may expire, a panic, and the exit code.
`ComposeBeanOverrides` is the result of the code's pass over the layers, stated
by the last layer that replaces a bean (`Setting`). The lifecycle
coordinator (hooks, cleanups, `runCallbacks`) is modelled from its vendored source,
`vendor/github.com/spice-framework/spice/lifecycle`.

## 3. Runs

| Run | Instance | Checks |
|---|---|---|
| `tui_connection` | 1 run, 2 client sessions, 1 update slot, fairness | `OpenClientsOwned`, `StartAcceptedAtMostOnce`, `ActiveRunObserved`, `ObserversEndLoudly`, `FreshOnlyWhenIdle`, `CloseJoinsWorkers`, `CloseCompletes` |
| `interactions` | 2 interactions, 2 daemons, 3 revisions, 3 generations | `MergedByObserver`, `SnapshotRestoresAuthority`, `OrderedByObserver`, `AnsweredAsAnnounced` |
| `tui_events` | 3 events, 6 revisions, 1 slot, fairness | `ShownAsLogged` (refinement of `EventLog`), `ResumesAfterPublished`, `RevisionsIncrease`, `FailureReachesTerminal`, `RunShownToTheEnd` |
| `daemon_runtime` | runner and 2 callers of Stop, fairness | `PublishedImpliesListening`, `StoppedReleasesEverything`, `PublishedOnlyWhenServing`, `ServeFailureEndsProcess` |
| `daemon_process` | root, gated child, stray, foreign process; 1 fault; PIDs of root and child reusable; fairness | `CleanWaitContains`, `GatedChildOwned`, `ReusedNeverSignalled`, `NothingReportedLate`, `ShutdownCompletes` |
| `tool_process` | the processes and bounds of `daemon_process`; fairness | `CleanWaitContains`, `ReusedNeverSignalled`, `JoinIsFinal`, `KilledJoins` |
| `windows_process` | both kinds, 2 failing calls, fairness | `HandlesUsedWhileOpen`, `RunsOnlyInJob`, `RefusedLeavesNothing`, `CleanJoinReleasesAll`, `TerminatedJoins` |
| `application` | the three real applications, up to 2 layers of replacements, fairness | `ReleasedAfterDependents`, `EverythingReleased`, `ServesOverLiveBeans`, `ContainmentNotSkipped`, `CleanExit`, `CommandEnds` |
| `interactions_replaced`, `tui_unresumed`, `tool_process_ordinary`, `tool_process_inspection` | as `interactions`, `tui_connection` and `tool_process` | refuted statements, section 5 |

Exceptions that the checked properties make, because the code makes them:
`ActiveRunObserved`, `ObserversEndLoudly` and `RunShownToTheEnd` except an opening
that failed with `context.Canceled`; `CleanWaitContains` and `GatedChildOwned` a
descendant that a successful snapshot left out (`omitted`); `TerminatedJoins` a
tool whose caller's reader has not ended, as `TestWindowsWaitJoinsBlockedStdinCopy`
asserts; `ShutdownCompletes` a final
Kill that failed or whose snapshot did not list the root, after which the code
tries nothing more; `ReusedNeverSignalled` a daemon root that was never anchored;
`StoppedReleasesEverything` a failed Start that ran out of its cleanup time;
`AnsweredAsAnnounced` the window before the next announcement. Section 5 says
what the first two exceptions amount to.

The type invariants are not part of the runs: each module's `TypeOK` is a theorem
(`TypeCorrect` in its proofs, section 6).

Why the bounds suffice. Two client sessions let a session be initialized and
restored by one lane while the others arrive late or meet Close; a third is
another restore of the same shape. One update slot makes every publication block;
a larger channel only blocks later. One run has an event observer beside the
interaction observer; two runs, whose observers overlap after a cancel that finds
its run terminal, are left to the proofs, which hold for any number of runs and
client sessions and cover every property of this run except `CloseCompletes`. Two
daemons and three generations make a reconnect before or after a replacement; a
third daemon meets an adapter whose state was reset just as for the second. Two interactions and three revisions
allow an open, a close, a gap, and a repetition that leaves a wrong set (which
two revisions do not). Three events let a stream break before, between and
after events, skip one and repeat one; six revisions leave room for the events
and two notices and still make the counter run out elsewhere. Four processes are
the root, one descendant inside and one outside its group, and one foreign
process that takes over a PID; more descendants meet the same set operations.
One failing call, or one snapshot that leaves any processes out, is enough to
separate every pair of steps that depend on it, and two failing Windows calls let
an abort fail as well. The applications are not scaled down at all; two layers let one replacement meet
another of the same bean and a refused name. Bounds appear only in guards of external
steps (`used < MaxClients`, `daemon < MaxDaemons`, …), so reaching one looks
like an environment that stops offering something.

Deadlock is checked in the runs of the TUI session and of the daemon runtime,
whose final states (`Terminated`, `Failed`) stutter explicitly; a daemon whose
process has exited still accepts `CallStop` steps. The process and application
runs allow it: a process that ended and was joined, and a command that exited,
really stop. That they do stop is stated as liveness.

## 4. Fairness

* `TuiConnection`: once `closed` is closed, every context the adapter passes to
  a remote call is done and every publication has a ready `select` case, so
  some thread that can proceed does (weak fairness of all those steps together
  while `closed`, weaker than fairness to each). Nothing is assumed before
  that, nor that anyone receives.
* `TuiEvents`: publication and failure reporting proceed, the shell calls
  Receive again and does not cancel every one that could have returned an
  update. About the link only this: if opening a stream, or an event, is on
  offer again and again, it eventually comes (strong fairness of
  `OpenEventStream` and `NextEvent`); a link that never comes back is retried
  for ever by design.
* `DaemonRuntime`: the runner, `observeServe`, the accept loop and each Stop run
  under bounded contexts and proceed. Strong fairness of the runner's `Stop`
  entry reflects that a Go mutex in starvation mode hands itself to the waiter.
  Signals and the end of the transport are never assumed to happen.
* `DaemonProcess`: some goroutine of the supervisor that can run does (weaker
  than fairness to each), and the system ends a process with a pending SIGKILL.
  Neither SIGTERM nor a closed input is assumed to end anything.
* `ToolProcess`, `WindowsProcess`: the reaper, the tracker and the launch proceed
  and the system ends a killed or terminated process. Clients are never assumed
  to call anything, and the caller's reader of a Windows tool is not assumed to
  end (no fairness of `CopyInput`); the output copies are assumed to end only
  once the Job is empty.
* `Application`: the command takes its own steps and the timeout of Stop runs
  out. A drain that was used, and the draining of a transport, may last for
  ever; a drain with nothing to wait for ends. A forced stop is assumed to end:
  it closes every connection and cancels what the handlers wait on, but then
  waits for them without a bound (`grpcserver/server.go:287`), so a handler that
  ignores its context would falsify `CommandEnds`. The handlers belong to the
  vendored server and are not modelled.

## 5. Findings

1. `interactions_replaced` (`OrderedFramesAccepted`): the observer takes a frame
   and handles it while another lane restores. In TLC's trace the observer has
   merged a snapshot of revision 2 and taken the control frame that acknowledges
   it, the daemon has been replaced, the submit lane swaps the session and resets
   the interaction revision to 0, and the control frame is refused
   (`session_interaction_observer.go:89`); the session fails for good although no
   frame was out of order. `docs/development-loop.md:126-129` promises a fresh
   session and a second prompt. `SnapshotRestoresAuthority` shows that the merged
   set is never silently wrong once the current session's snapshot is merged,
   `OrderedByObserver` that nothing is refused when the observer alone restores.
2. `tui_unresumed` (`InterruptedRunResumed`): the stream of an active run is lost,
   "reconnecting" is announced, the connection is restored, and the reopening
   fails with the client's bare `context.Canceled`. It is neither retried nor
   recorded (`session_publisher.go:78`): the run stays active, nobody observes it
   and Receive does not fail. `docs/terminal-target.md:69-71` and
   `docs/development-loop.md:115-117` say that an interrupted stream is resumed.
   `ActiveRunObserved` and `ObserversEndLoudly` show that this is the only way an
   observer ends silently.
3. `tool_process_ordinary` (`OrdinaryDescendantsCaught`): a tool that forks a
   child in its own process group and exits before a snapshot lists the child is
   joined cleanly while the child runs. The comment on `unixProcess` says
   ordinary descendants are caught. What is caught is what a snapshot showed
   (`CleanWaitContains`).
4. `tool_process_inspection` (`InspectionFailuresReported`): a child the tool owns
   already is left out of one snapshot because its `/proc` entry could not be read;
   it is forgotten, nothing is recorded and the tool is joined cleanly while the
   child runs. `unix_process_unix.go:28-29` and `docs/daemon-target.md:120-122` say
   that inspection failures fail the containment proof. A snapshot that fails as a
   whole does, and `CleanWaitContains` shows that the skipped entries are the only
   way past it. The supervisor of the daemon rebuilds its children from snapshots
   in the same way (`unix_launched_process_unix.go:296-306`); a child left out of
   the snapshot of the final kill is not signalled and Wait reports clean
   containment.

Behaviour met while modelling that no document contradicts, or that is outside
what the runs state:

* `restoreConnectionLocked` installs a replacement without looking at `closed`,
  and `close` picks the session to close before it waits for the workers: Close
  can return with the replacement open. A first connection refused by
  `validateConnection` is not closed, unlike a refused replacement.
* A definitely rejected Start is sent again once on a fresh daemon
  (`StartAcceptedAtMostOnce` shows that this is safe).
* A change of the active run, or a reset, moves the interaction that
  `performRespond` would answer without an announcement; `AnsweredAsAnnounced`
  holds outside that window.
* A daemon root whose anchoring failed is anchored by a later snapshot by PID
  alone (`unix_launched_process_unix.go:293`); `ReusedNeverSignalled` excepts it.
* `ForceKill` does nothing after its first success, so a descendant discovered
  later has to end by itself; a snapshot that keeps failing adds an error to
  `cleanupErr` every five milliseconds (`unix_process_unix.go:299`, `:178`).
* A Windows tool is joined only after the copy of its standard input returns,
  which is the caller's reader (`processplatform/windows_process_windows.go:262`);
  a test asserts it, and `TerminatedJoins` excepts it. On Unix `exec.Cmd.Wait` waits
  for such a copy as well; the readers the program uses are in memory and end, and
  `ToolProcess` leaves the copy out.
* A final kill whose snapshot leaves out the root itself reaches nobody, also when
  the root still runs; nothing is tried after it, and the supervisor waits until
  the root ends by itself.
* A read error of the registration server is recorded, and the registration it
  interrupts is never answered: the child behind the gate does not start its work.
* A panic ends a command with failure and without its cleanups. The generated
  daemon command waits for its context only; the runner of this repository is
  what notices a transport that ended.
* `docs/daemon-target.md:97` calls the root registry the first generated bean; it
  is the fourth. Everything that uses it is still released before it.

## 6. Proofs

All proofs hold for every value of the constants and are checked by TLAPS with
SMT, Zenon and LS4 (for temporal steps).

**TuiConnection_proofs**, assuming run names differ from the fixed thread names,
`MaxClients \in Nat` and `UpdateCapacity \in Nat \ {0}`. `TypeOK` alone is
inductive (`TypeCorrect`). The safety results need `IInv`:

* `LockInv`: a thread between the check and the end of a restore, and the submit
  lane between its lock and recording the run, hold `reconnectMutex`. Without
  it nothing about captured generations survives a step of another thread.
* `InitInv`: nobody runs before the initializer is done, and no client session
  is installed before it.
* `WorkerInv`: the worker of a run is off until its submit lane starts it;
  without it a second start could forget a session the worker holds.
* `GenerationInv`: the generation a restoring thread captured is current until
  it installs, then one behind.
* `FreshInv`: no run is active while a fresh session is being acquired or
  installed. Only the submit lane sets `activeRun`, and it needs the mutex.
* `AcceptedInv`: an operation whose Start may still be sent has not been
  accepted.
* `HeldInv`: only threads about to install or close hold a session.

* `CloseInv`: `closed` and `workersClosed` follow the progress of Close, so an
  open session still starts workers.
* `LoudInv`: an observer on its way to its end has a recorded failure, its
  terminal event or the canceled opening that nobody records; with `CloseInv` it carries `ObserversEndLoudly` and
  `ActiveRunObserved`, the latter also through the submit lane's hand-over.
* `JoinInv`: an observer has an open stream or the mutex only while it runs, and
  none runs once Close joined them. It needs `InitInv` and `WorkerInv`: a worker
  is started only where none ran.

Theorems: `TypeCorrect`, `Inductive`, `AcceptedOnce`, `CapturedClient`,
`ClientsOwned`, `FreshIdle` (an action property), `RunObserved`, `EndLoudly`,
`CloseJoins`.

**TuiEvents_proofs**, for every number of events, every last revision and every
capacity (`EventBounds`): `TypeCorrect`, `Inductive`, `RevisionsOrdered` and
`ImplementsLog`, the refinement of `EventLog`, and `Resumption`. The first two
properties do not mention the channel, so the inductive invariant has to: `ChannelInv` says that there are two
functions over the positions of the channel, the events and the revision
published up to there, which start with what Receive returned, advance with each
delivery (a failure carries no revision) and end with the cursor and the
publisher's revision. `PublisherInv` (the number taken under `publishMutex` is
still the next one when it is sent), `CursorInv` (the event being published is
the one after the cursor) and `ReaderInv` (no Receive waits after the failure)
keep it. `Resumption` (the cursor a stream is reopened with neither skips nor
repeats an event) needs two more: `CountInv`, that the cursor is the number of
events shown or still in the channel, and `StreamInv`, that a stream which loses
nothing has delivered up to the cursor, or the event being published besides.

**TuiInteractions_proofs**, for every set of interactions and every number of
daemons, revisions and generations (`InteractionBounds`): `TypeCorrect`, `Inductive`,
`MergedAuthority`, `SnapshotAuthority`, `OrderedAccepted`, `AnswersAnnounced`.
`StreamInv` ties a stream of the current generation to the attached daemon,
`RestoreInv` says who restores when, `MergeInv` that the merged set is one of the
daemon's own except between the swap of the client session and the reset of the
interaction state, and `OrderInv` what the next frame of a healthy stream may be.
The lemma `HistoryGrows` (a daemon's past sets never change) is what lets a merged
revision keep its meaning while the daemon moves on.

**DaemonRuntime_proofs**, assuming the callers' names differ from `runner` and
`nobody`: `TypeCorrect`, `Inductive`, `Listening`, `Released`, `HandleKept`,
`PublishedInOrder`. The invariant ties the holder of `lifecycle` to the caller's
position, the phase to the holder, and `publication`, `endpoint` and
`withdrawn` to each other in each phase of Stop.

**WindowsProcess_proofs**, assuming only `MaxFaults \in Nat`, so for any number of
failing calls: `TypeCorrect`, `Inductive`, `HandlesOpen`, `RunsInJob`,
`RefusedClean`, `JoinReleases`, `Reported`. The inductive invariant adds to the
types

* `HandleInv`: a handle the code still refers to is not closed, and which ones
  it refers to at each step of launch (only the Job between `OpenJob` and the
  pipes), abort, copy and release;
* `JobInv`: what runs was assigned to the Job, nothing lives where the Job is
  given up without a termination, and a tool whose Job was drained is empty
  unless the query failed and was recorded;
* `CleanInv`: as long as no failure is recorded, the daemon's Job is there to be
  drained, is empty once drained, and every handle given up was closed;
* `CodeInv`: a tool's root has the exit code of a termination only after an
  operation that was recorded, or without its end being observed, which gives
  `TerminationReported`.

**ToolProcess_proofs** and **DaemonProcess_proofs**, assuming `MaxFaults \in Nat` and
`ReusedPIDs \subseteq Nat`: for any number of snapshots that fail or leave
processes out, of other failing calls, and any reuse of PIDs. The processes themselves (root, gated or ordinary child, stray,
foreign process) are those of `ProcessTable`, and so is the shape of the table.
Both have `TypeCorrect`, `Inductive`, `WaitContains` and `ReuseSafe`; the tool also
`JoinFinal` (an action property), the daemon `ChildOwned` and `ReportedInTime`.
What the two inductive invariants share:

* `PIDInv`, `FamilyInv`, `OtherInv`: a process keeps its PID, the root keeps its
  parent and so is reaped by the code alone, and the foreign process is a child
  of init whose PID belongs to a process that is gone and whose group holds none
  of ours. Discovery goes by parent PIDs, so without these a snapshot could take
  the foreign process for a descendant.
* `AnchorInv`: the anchored root is the root; without an anchor nothing was ever
  owned and the failure is recorded. In the daemon an unanchored supervisor may
  hold the foreign process, the exception `ReusedNeverSignalled` makes.
* `ChildrenInv`: every process ever owned is still among the children, gone, or
  in `omitted`. It is what a clean Wait is concluded from, once the children are
  empty; without `omitted` it does not hold (finding 4).
* `SignalInv`: between the snapshot and the last kill, the PIDs and the group
  still to be signalled are not those of a foreign process the snapshot listed.

`LaunchInv` and `JoinInv` of the tool tie the launch, the reaper and the tracker to
`rootDone` and `joined`, so that nothing is recorded after the join. In the daemon
`RootInv` says how long the root stays in the table, `LockInv` that close,
escalation and signals exclude each other and that the tracker and the server
have ended when Close kills (which gives `ReportedInTime` with `ReportInv`), and
`ExchangeInv`, `BirthInv` and `GateInv` follow one registration over the two
sockets: an accepting answer is always about the child that waits behind the
gate, and that child is then known.

**Application_proofs**, for any construction order in which a bean takes earlier
beans only (`BeansAssumption`), any hooks and any layers: `TypeCorrect`,
`ReleaseOrder`, `Released`, `ServedBeansLive`, `Containment`, `ExitsClean`. `StackInv` says that the registered
cleanups still to run are exactly the armed beans not released, in construction
order, so that popping the top releases no bean before its dependents;
`PhaseInv` ties the lifecycle state to the command's position; `ServeInv` says
that a working foreground has released nothing, and that a stop hook which will
end it is still to run when the callbacks have begun.

`Containment` and `ExitsClean` rest on two more assumptions about the generated
data, which TLC evaluates on the three real applications: an application whose
hooks activate plugins has a bean whose cleanup contains their processes, and a
replacement of that bean does so too (`PluginHostAssumption`); an application
with a shell has no serve mode (`ModesAssumption`). `OverrideInv` keeps every
replacement one of the layers', `BuiltInv` says that every bean with a cleanup has
registered it when the hooks run, `PluginInv` that the containing cleanup is still
to come while plugins run, and `ExitInv` that whatever was not finished is recorded
as an error by the time the exit code is chosen.

Only model-checked: the liveness properties `CloseCompletes`,
`FailureReachesTerminal`, `RunShownToTheEnd`, `ServeFailureEndsProcess`,
`ShutdownCompletes`, `KilledJoins`, `TerminatedJoins` and `CommandEnds`, since fairness
and ENABLED are outside the prover; and that the declarative `DescendantsOf` and
`ComposeBeanOverrides` are what the code's loops compute, which would be an
induction over their input and is argued in their comments. Every invariant and
action property that a passing run checks is a theorem.

## 7. Not modelled

* Texts: prompts, history, activity formatting, messages, logging.
* The explicit connector and the accessible terminal model. The connector is
  sequential around two library calls, with a closed flag tested before and
  after them; the model is the state of one goroutine.
* The values beans are configured with. Only which keys are required, which are
  decoded and may be refused, and which bean takes which enter `Application`.
* The parsing of `/proc` and of the Darwin process table: what a record holds is
  what the process is. Which entries a snapshot fails to list is modelled, for
  Linux; on Darwin a snapshot fails or lists the whole table, which is among the
  behaviours the model allows.
* The health report derived from plugin activation.
* Release installation and assets, the quality gate and the acceptance suites:
  sequential tools and tests over files and external programs.

The gRPC client and server, the endpoint store, the connector, the event log of
the daemon, and the operating systems are external: their calls return every
outcome the code tells apart.

## 8. What could come next

A model of the explicit connector composed with `TuiConnection` in the place of
the external one; the number of descendants of the process models as a constant.
