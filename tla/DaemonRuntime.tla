--------------------------- MODULE DaemonRuntime ---------------------------
(***************************************************************************)
(* Publication lifecycle of the daemon: the runtime-plugin activation gate *)
(* and Runtime (internal/daemon), driven by the runner of cmd/spice-agentd.*)
(*                                                                         *)
(* The runner activates plugins, calls Runtime.Start, waits for a signal or*)
(* for the end of the transport, and calls Runtime.Stop once.  Other       *)
(* callers may call Runtime.Stop at any time, repeatedly: Stop is          *)
(* retryable.  The serve goroutine and observeServe run beside them.  The  *)
(* gRPC server, the listener and the endpoint store are external.          *)
(***************************************************************************)
EXTENDS Integers

CONSTANT Stoppers     \* callers of Runtime.Stop other than the runner

ASSUME StoppersAssumption == Stoppers \cap {"runner", "nobody"} = {}

Callers == Stoppers \cup {"runner"}
Nobody  == "nobody"

VARIABLES
  plan,         \* RuntimePluginPlan: "disabled", "optional" or "required"
  activation,   \* RuntimePluginActivation.state
  state,        \* Runtime.state
  lifecycle,    \* holder of Runtime.lifecycle
  pc,           \* progress of every caller
  cancelled,    \* the command context is done: a signal, or EOF on stdin
  serve,        \* the serve goroutine: "off", "entering", "accepting", "ended"
  result,       \* serveResult: "none", "ok" (normalized away) or "err"
  listener,     \* the socket: "none", "open" or "closed"
  shutdown,     \* server.Shutdown has been called
  endpoint,     \* the endpoint store holds this process's metadata
  publication,  \* Runtime.publication # nil
  observing,    \* observeServe has been started
  done,         \* Runtime.serveDone is closed
  serveErr,     \* Runtime.serveErr # nil
  withdrawn,    \* publicationClosed of the Stop in progress
  joined,       \* what that Stop's waitDone returned
  loose,        \* stopUnpublished timed out before the serve loop ended
  kept          \* some withdrawal failed and left the metadata published

callVars   == <<plan, activation, state, lifecycle, pc, cancelled>>
serverVars == <<serve, result, listener, shutdown>>
pubVars    == <<endpoint, publication, withdrawn, joined, loose, kept>>
doneVars   == <<observing, done, serveErr>>
vars == <<callVars, serverVars, pubVars, doneVars>>

FlagsOK ==
  /\ cancelled \in BOOLEAN /\ shutdown \in BOOLEAN
  /\ endpoint \in BOOLEAN /\ publication \in BOOLEAN
  /\ observing \in BOOLEAN /\ done \in BOOLEAN /\ serveErr \in BOOLEAN
  /\ withdrawn \in BOOLEAN /\ joined \in BOOLEAN
  /\ loose \in BOOLEAN /\ kept \in BOOLEAN

StatesOK ==
  /\ plan \in {"disabled", "optional", "required"}
  /\ activation \in {"new", "starting", "ready", "degraded", "failed"}
  /\ state \in {"new", "starting", "running", "stopping", "stopped"}
  /\ lifecycle \in Callers \cup {Nobody}
  /\ pc \in [Callers -> {"idle", "activating", "activated", "listen", "ready", "publish",
                         "cleanup", "serving", "stop", "withdraw", "shutdown", "close",
                         "join", "finish", "exited"}]
  /\ serve \in {"off", "entering", "accepting", "ended"}
  /\ result \in {"none", "ok", "err"}
  /\ listener \in {"none", "open", "closed"}

TypeOK == StatesOK /\ FlagsOK

Init ==
  /\ plan \in {"disabled", "optional", "required"}
  /\ activation = "new"
  /\ state = "new"
  /\ lifecycle = Nobody
  /\ pc = [c \in Callers |-> "idle"]
  /\ cancelled = FALSE
  /\ serve = "off"
  /\ result = "none"
  /\ listener = "none"
  /\ shutdown = FALSE
  /\ endpoint = FALSE /\ publication = FALSE
  /\ observing = FALSE /\ done = FALSE /\ serveErr = FALSE
  /\ withdrawn = FALSE /\ joined = FALSE
  /\ loose = FALSE /\ kept = FALSE

At(c, s)   == pc[c] = s
Goto(c, s) == pc' = [pc EXCEPT ![c] = s]
----------------------------------------------------------------------------
(* RuntimePluginActivation.Start, the first start hook *)

ActivationStart ==
  /\ At("runner", "idle")
  /\ activation = "new"
  /\ activation' = IF plan = "disabled" THEN "ready" ELSE "starting"
  /\ Goto("runner", IF plan = "disabled" THEN "activated" ELSE "activating")
  /\ UNCHANGED <<plan, state, lifecycle, cancelled, serverVars, pubVars, doneVars>>

(* What a failed host.Activate means: the canceled context first, then the plan. *)
ActivationAfterError == IF cancelled \/ plan = "required" THEN "failed" ELSE "degraded"

(* host.Activate returned; a failed hook ends application.Start. *)
ActivationReturns ==
  /\ At("runner", "activating")
  /\ activation' \in {"ready", ActivationAfterError}
  /\ Goto("runner", IF activation' = "failed" THEN "stop" ELSE "activated")
  /\ UNCHANGED <<plan, state, lifecycle, cancelled, serverVars, pubVars, doneVars>>

PublicationReady == activation \in {"ready", "degraded"}
----------------------------------------------------------------------------
(* Runtime.Start *)

StartLock ==
  /\ At("runner", "activated")
  /\ lifecycle = Nobody
  /\ IF PublicationReady /\ state = "new"
       THEN lifecycle' = "runner" /\ state' = "starting" /\ Goto("runner", "listen")
       ELSE Goto("runner", "stop") /\ UNCHANGED <<lifecycle, state>>
  /\ UNCHANGED <<plan, activation, cancelled, serverVars, pubVars, doneVars>>

StartListen ==
  /\ At("runner", "listen")
  /\ \/ /\ listener' = "open"
        /\ serve' = "entering"
        /\ Goto("runner", "ready")
        /\ UNCHANGED <<state, lifecycle>>
     \/ /\ state' = "stopped"                 \* resetAfterStartFailure
        /\ lifecycle' = Nobody
        /\ Goto("runner", "stop")
        /\ UNCHANGED <<listener, serve>>
  /\ UNCHANGED <<plan, activation, cancelled, result, shutdown, pubVars, doneVars>>

(* waitForPublicationReadiness: readiness counts only while no serve result  *)
(* is there; the select may also take a canceled context.                    *)
AcceptLoopEntered == serve # "off"                            \* mutant: not awaited
AcceptLoopReady   == serve = "accepting" /\ result = "none"

StartReady ==
  /\ At("runner", "ready")
  /\ \/ AcceptLoopReady /\ Goto("runner", "publish")
     \/ (cancelled \/ result # "none") /\ Goto("runner", "cleanup")
  /\ UNCHANGED <<plan, activation, state, lifecycle, cancelled, serverVars, pubVars, doneVars>>

(* metadata, publish, and the fields set under Runtime.mu. *)
StartPublish ==
  /\ At("runner", "publish")
  /\ \/ /\ endpoint' = TRUE
        /\ publication' = TRUE
        /\ state' = "running"
        /\ observing' = TRUE
        /\ lifecycle' = Nobody
        /\ Goto("runner", "serving")
     \/ /\ Goto("runner", "cleanup")
        /\ UNCHANGED <<endpoint, publication, state, observing, lifecycle>>
  /\ UNCHANGED <<plan, activation, cancelled, serverVars, withdrawn, joined, loose, kept,
                 done, serveErr>>

(* stopUnpublished and resetAfterStartFailure: shutdown, close, and a join   *)
(* bounded by its own timeout.                                               *)
StartCleanup ==
  /\ At("runner", "cleanup")
  /\ IF ~shutdown
       THEN /\ shutdown' = TRUE
            /\ listener' = "closed"
            /\ UNCHANGED <<state, lifecycle, pc, loose>>
       ELSE /\ loose' = (result = "none")     \* waitServe took ctx.Done()
            /\ state' = "stopped"
            /\ lifecycle' = Nobody
            /\ Goto("runner", "stop")
            /\ UNCHANGED <<shutdown, listener>>
  /\ UNCHANGED <<plan, activation, cancelled, serve, result, endpoint, publication,
                 withdrawn, joined, kept, doneVars>>

Start == StartLock \/ StartListen \/ StartReady \/ StartPublish \/ StartCleanup
----------------------------------------------------------------------------
(* The serve goroutine and observeServe *)

(* readyListener.Accept closes ready once. *)
EnterAccept ==
  /\ serve = "entering"
  /\ serve' = "accepting"
  /\ UNCHANGED <<callVars, result, listener, shutdown, pubVars, doneVars>>

(* Serve returns: by itself with an error, or with ErrServerStopped or       *)
(* net.ErrClosed, which normalizedServeError drops.                          *)
ServeEnds ==
  /\ serve \in {"entering", "accepting"}
  /\ serve' = "ended"
  /\ result' \in IF shutdown \/ listener = "closed" THEN {"ok", "err"} ELSE {"err"}
  /\ UNCHANGED <<callVars, listener, shutdown, pubVars, doneVars>>

ObserveServe ==
  /\ observing /\ ~done
  /\ result # "none"
  /\ serveErr' = (result = "err")
  /\ done' = TRUE
  /\ UNCHANGED <<callVars, serverVars, pubVars, observing>>
----------------------------------------------------------------------------
(* Runtime.Stop *)

(* Stop withdraws the metadata it still owns before it touches the server. *)
ShutdownFirst   == "shutdown"                                 \* mutant: withdrawal left for later
FirstStepOfStop == IF publication THEN "withdraw" ELSE "shutdown"

Stop(c) ==
  /\ At(c, "stop")
  /\ lifecycle = Nobody
  /\ IF state \in {"new", "stopped"}
       THEN /\ Goto(c, IF c = "runner" THEN "exited" ELSE "idle")
            /\ UNCHANGED <<lifecycle, state, withdrawn>>
       ELSE /\ lifecycle' = c
            /\ state' = "stopping"
            /\ withdrawn' = ~publication
            /\ Goto(c, FirstStepOfStop)
  /\ UNCHANGED <<plan, activation, cancelled, serverVars, endpoint, publication, joined,
                 loose, kept, doneVars>>

(* publication.CloseContext(ctx); its failure does not stop the shutdown. *)
StopWithdraw(c) ==
  /\ At(c, "withdraw")
  /\ \/ endpoint' = FALSE /\ withdrawn' = TRUE /\ UNCHANGED kept
     \/ kept' = TRUE /\ UNCHANGED <<endpoint, withdrawn>>
  /\ Goto(c, "shutdown")
  /\ UNCHANGED <<plan, activation, state, lifecycle, cancelled, serverVars,
                 publication, joined, loose, doneVars>>

StopShutdown(c) ==
  /\ At(c, "shutdown")
  /\ shutdown' = TRUE
  /\ Goto(c, "close")
  /\ UNCHANGED <<plan, activation, state, lifecycle, cancelled, serve, result, listener,
                 pubVars, doneVars>>

StopClose(c) ==
  /\ At(c, "close")
  /\ listener' = "closed"
  /\ Goto(c, "join")
  /\ UNCHANGED <<plan, activation, state, lifecycle, cancelled, serve, result, shutdown,
                 pubVars, doneVars>>

(* waitDone: the serve loop ended, or the caller's context did. *)
StopJoin(c) ==
  /\ At(c, "join")
  /\ joined' \in {FALSE} \cup {done}
  /\ Goto(c, "finish")
  /\ UNCHANGED <<plan, activation, state, lifecycle, cancelled, serverVars, endpoint,
                 publication, withdrawn, loose, kept, doneVars>>

StoppedWhenJoined == joined                                   \* mutant: publication ignored
StopComplete      == withdrawn /\ joined

(* publicationClosed clears the handle; a failed withdrawal keeps it. *)
KeepPublication == publication' = (publication /\ ~withdrawn)

StopFinish(c) ==
  /\ At(c, "finish")
  /\ KeepPublication
  /\ state' = IF StopComplete THEN "stopped" ELSE "stopping"
  /\ lifecycle' = Nobody
  /\ Goto(c, IF c = "runner" THEN "exited" ELSE "idle")
  /\ UNCHANGED <<plan, activation, cancelled, serverVars, endpoint, withdrawn, joined,
                 loose, kept, doneVars>>

StopStep(c) == Stop(c) \/ StopWithdraw(c) \/ StopShutdown(c) \/ StopClose(c)
               \/ StopJoin(c) \/ StopFinish(c)
----------------------------------------------------------------------------
(* The runner and the callers *)

RunnerIgnoresDone == cancelled                                \* mutant: Done not selected
RunnerWoken       == cancelled \/ done

RunnerWakes ==
  /\ At("runner", "serving")
  /\ RunnerWoken
  /\ Goto("runner", "stop")
  /\ UNCHANGED <<plan, activation, state, lifecycle, cancelled, serverVars, pubVars, doneVars>>

(* SIGINT, SIGTERM, or EOF on a managed stdin (withParentControl). *)
Signal ==
  /\ ~cancelled
  /\ cancelled' = TRUE
  /\ UNCHANGED <<plan, activation, state, lifecycle, pc, serverVars, pubVars, doneVars>>

CallStop(c) ==
  /\ At(c, "idle")
  /\ Goto(c, "stop")
  /\ UNCHANGED <<plan, activation, state, lifecycle, cancelled, serverVars, pubVars, doneVars>>

Runner == ActivationStart \/ ActivationReturns \/ Start \/ RunnerWakes \/ StopStep("runner")

Next ==
  \/ Runner
  \/ EnterAccept \/ ServeEnds \/ ObserveServe
  \/ Signal
  \/ \E c \in Stoppers : CallStop(c) \/ StopStep(c)

(* Start and Stop run with bounded contexts: their steps and the goroutines  *)
(* proceed.  A Go mutex hands itself to a waiter it starved, so the runner's *)
(* Stop is not overtaken forever.  The transport may serve forever, signals  *)
(* may never come.                                                           *)
Fairness ==
  /\ WF_vars(Runner)
  /\ SF_vars(Stop("runner"))
  /\ WF_vars(ObserveServe)
  /\ WF_vars(EnterAccept)
  /\ \A c \in Stoppers : WF_vars(StopStep(c))

Spec     == Init /\ [][Next]_vars
FairSpec == Spec /\ Fairness
----------------------------------------------------------------------------
(* Properties *)

(* "required failure prevents the dependent Runtime lifecycle from           *)
(* publishing" and "publishes only after the server has entered its accept   *)
(* loop" (runtime.go, runtime_plugin_activation.go): metadata appears only   *)
(* for an accepting, not yet stopped server behind a passed activation gate. *)
PublishedOnlyWhenServing ==
  [][~endpoint /\ endpoint' => /\ serve \in {"accepting", "ended"}
                               /\ listener = "open" /\ ~shutdown
                               /\ activation \in {"ready", "degraded"}
                               /\ activation = "degraded" => plan = "optional"]_vars

(* Published metadata points at a server that accepts, unless the transport  *)
(* failed by itself or the endpoint store refused the withdrawal: no order   *)
(* of Start, Stop and retried Stop closes a listener that is still announced. *)
PublishedImpliesListening == endpoint => kept \/ (listener = "open" /\ ~shutdown)

(* Stopped is final and complete: the metadata is withdrawn, the socket is   *)
(* closed and the serve loop has been joined (unless a failed Start ran out  *)
(* of its own cleanup time).                                                 *)
StoppedReleasesEverything ==
  state = "stopped" => /\ ~endpoint /\ ~publication
                       /\ listener # "open"
                       /\ serve \in {"off", "ended"} \/ loose

(* A Runtime that still owns the metadata keeps the publication handle, so a *)
(* later Stop can retry the withdrawal.                                      *)
PublicationNotLost == endpoint => publication

(* "An asynchronous serve failure ... cannot leave the process silently      *)
(* alive with an unusable published endpoint" (daemon-target.md): the runner *)
(* of a daemon whose transport ended stops it and exits.                     *)
ServeFailureEndsProcess == (endpoint /\ serve = "ended") ~> (At("runner", "exited"))
=============================================================================
