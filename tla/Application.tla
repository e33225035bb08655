----------------------------- MODULE Application -----------------------------
(***************************************************************************)
(* A generated Spice application from the command line to the exit code:   *)
(* construction of its beans with rollback, the lifecycle hooks, the wait  *)
(* for the end and the reverse release of everything that was built        *)
(* (src/internal/spicegen/*, src/cmd/*, and the vendored lifecycle         *)
(* coordinator they call).                                                 *)
(*                                                                         *)
(* A bean is its position in the construction order. The run context is    *)
(* cancelled by a signal or, for the daemon, by the end of its standard    *)
(* input; Stop gets a fresh context with a timeout.                        *)
(***************************************************************************)
EXTENDS Integers, Sequences, FiniteSets

CONSTANT Applications  \* what was generated for each application

Cleanups == {"none", "close", "drain", "contain"}

\* The generated construction order: a bean takes only earlier beans, so that
\* whatever it uses, directly or through others, was constructed before it.
ASSUME BeansAssumption ==
    \A a \in DOMAIN Applications :
        LET rows == Applications[a].beans IN
        /\ Applications[a].beans \in Seq([bean : STRING, cleanup : Cleanups \cup {"attach"},
                                          bound : BOOLEAN, uses : SUBSET Nat])
        /\ \A k \in 1 .. Len(rows) : rows[k].uses \subseteq 1 .. k - 1
        /\ Applications[a].hooks \in Seq([bean : STRING, stops : BOOLEAN])
        /\ Applications[a].entries \subseteq {"runner", "generated"}

\* A layer replaces only beans that BeanOverrides has a field for.
ASSUME LayersAssumption ==
    \A a \in DOMAIN Applications : \A ls \in Applications[a].layers :
        /\ Len(ls) \in Nat
        /\ \A i \in 1 .. Len(ls) : DOMAIN ls[i].overrides \subseteq Applications[a].replaceable

\* An application with a hook that activates plugins has a bean that owns their
\* processes, and a replacement of that bean contains them as the bean does.
ASSUME PluginHostAssumption ==
    \A a \in DOMAIN Applications :
        LET rows == Applications[a].beans IN
        (\E n \in 1 .. Len(Applications[a].hooks) : ~Applications[a].hooks[n].stops) =>
            \E k \in 1 .. Len(rows) :
                /\ rows[k].cleanup = "contain"
                /\ \A ls \in Applications[a].layers : \A i \in 1 .. Len(ls) :
                      k \in DOMAIN ls[i].overrides => ls[i].overrides[k] = "contain"

\* The shell belongs to the terminal, which has no request to serve.
ASSUME ModesAssumption ==
    \A a \in DOMAIN Applications :
        Applications[a].foreground = "shell" => "serve" \notin Applications[a].modes

VARIABLES
    app, entry, mode,   \* which command: the application, who runs it, what was asked
    configured,         \* required configuration keys that have a value
    layers, overrides,  \* layers of replacements, and the replacements they compose to
    pc, exit,           \* progress and exit code of the command
    ctx, stopCtx,       \* the run context and the context of Stop
    state,              \* state of the lifecycle coordinator
    built,              \* beans constructed so far
    armed,              \* beans whose cleanup was registered
    cleanups, released, \* registered cleanups still to run, and beans whose cleanup ran
    draining,           \* beans whose cleanup returned before their work was done
    started, stops,     \* hooks started, and hooks still to stop
    callback,           \* who runs the callbacks: Abort, failStart or Stop
    failed, stopErr,    \* the command, and the callbacks, met an error
    serving, served,    \* the foreground works, and has worked
    plugins             \* state of the runtime plugin processes

commandVars == <<app, entry, mode, configured>>
beanVars    == <<built, armed, cleanups, released, draining>>
hookVars    == <<started, stops, serving, served, plugins>>
errorVars   == <<failed, stopErr>>
vars == <<commandVars, layers, overrides, pc, exit, ctx, stopCtx, state, beanVars,
          hookVars, callback, errorVars>>

beans == Applications[app].beans
hooks == Applications[app].hooks

-----------------------------------------------------------------------------
(* Replacements *)

\* One named layer is blank or repeats another one.
InvalidLayers(ls) ==
    \E i \in 1 .. Len(ls) :
        \/ ls[i].name = ""
        \/ \E j \in 1 .. i - 1 : ls[j].name = ls[i].name

\* The layers that replace bean k.
Setting(ls, k) == {i \in 1 .. Len(ls) : k \in DOMAIN ls[i].overrides}

\* The layers are walked in order, and each replaces what earlier ones set.
ComposeBeanOverrides(ls) ==
    [k \in UNION {DOMAIN ls[i].overrides : i \in 1 .. Len(ls)} |->
        LET last == CHOOSE i \in Setting(ls, k) : \A j \in Setting(ls, k) : j <= i
        IN  ls[last].overrides[k]]

\* The cleanup that the constructor of bean k, or its replacement, returns.
Cleanup(k) ==
    CASE k \in DOMAIN overrides       -> overrides[k]
      [] beans[k].cleanup = "attach"  -> IF mode = "attach" THEN "close" ELSE "none"
      [] OTHER                        -> beans[k].cleanup

-----------------------------------------------------------------------------
(* The command line *)

Init ==
    /\ app \in DOMAIN Applications
    /\ entry \in Applications[app].entries
    /\ mode \in Applications[app].modes \cup {"check", "help", "invalid"}
    /\ configured \in SUBSET Applications[app].required
    /\ layers \in Applications[app].layers
    /\ overrides = << >>
    /\ pc = "execute" /\ exit = "none"
    /\ ctx = "live" /\ stopCtx = "none"
    /\ state = "constructed"
    /\ built = 0 /\ armed = {} /\ cleanups = << >> /\ released = {} /\ draining = {}
    /\ started = 0 /\ stops = << >> /\ serving = FALSE /\ served = FALSE
    /\ plugins = "none"
    /\ callback = "none"
    /\ failed = FALSE /\ stopErr = FALSE

Exit(code) == pc' = "exited" /\ exit' = code

\* Help, the version and refused arguments; a message that cannot be written
\* is a failure.
Usage ==
    /\ pc = "execute" /\ entry = "runner" /\ mode \in {"help", "invalid"}
    /\ \/ Exit(IF mode = "help" THEN "success" ELSE "usage")
       \/ Exit("failure")
    /\ UNCHANGED <<commandVars, layers, overrides, ctx, stopCtx, state, beanVars, hookVars,
                   callback, errorVars>>

\* The generated command takes the request for help as a refused argument and
\* does not care whether its message was written.
GeneratedUsage ==
    /\ pc = "execute" /\ entry = "generated" /\ mode \in {"help", "invalid"}
    /\ Exit("usage")
    /\ UNCHANGED <<commandVars, layers, overrides, ctx, stopCtx, state, beanVars, hookVars,
                   callback, errorVars>>

Compose ==
    /\ ~InvalidLayers(layers)
    /\ overrides' = ComposeBeanOverrides(layers)
    /\ pc' = "configure" /\ exit' = exit

Refuse == Exit("failure") /\ overrides' = overrides

\* The environment cannot be read, there is no terminal, or the options of the
\* application cannot be prepared.
Unavailable ==
    /\ pc = "execute" /\ layers' = << >> /\ Refuse
    /\ UNCHANGED <<commandVars, ctx, stopCtx, state, beanVars, hookVars, callback, errorVars>>

\* The commands of this repository look at the context first, and end when
\* the warning cannot be written.
Execute ==
    /\ pc = "execute" /\ entry = "runner" /\ mode \notin {"help", "invalid"}
    /\ layers' = << >>
    /\ \/ ctx = "live" /\ Compose
       \/ (InvalidLayers(layers) \/ ctx = "done" \/ mode # "check") /\ Refuse
    /\ UNCHANGED <<commandVars, ctx, stopCtx, state, beanVars, hookVars, callback, errorVars>>

\* The generated command looks at the context only when it starts the hooks.
RunCommand ==
    /\ pc = "execute" /\ entry = "generated" /\ mode \notin {"help", "invalid"}
    /\ layers' = << >>
    /\ Compose \/ (InvalidLayers(layers) /\ Refuse)
    /\ UNCHANGED <<commandVars, ctx, stopCtx, state, beanVars, hookVars, callback, errorVars>>

Cancel ==
    /\ pc # "exited" /\ ctx = "live"
    /\ ctx' = "done"
    /\ UNCHANGED <<commandVars, layers, overrides, pc, exit, stopCtx, state, beanVars, hookVars,
                   callback, errorVars>>

-----------------------------------------------------------------------------
(* runCallbacks: Abort, failStart and Stop *)

\* The started hooks in reverse order.
Backward(n) == [i \in 1 .. n |-> n + 1 - i]

RunCallbacks(who) ==
    /\ pc' = "callbacks"
    /\ callback' = who
    /\ state' = "stopping"
    /\ stops' = Backward(started)
    /\ started' = 0

CallbackDone == IF callback = "stop" THEN stopCtx = "expired" ELSE ctx = "done"

\* A callback returned; ok says whether it succeeded.
Returned(ok) == ok \in BOOLEAN /\ stopErr' = (stopErr \/ ~ok)

\* The stop callback of the latest started hook: Runtime.Stop returns when the
\* transport is drained, or forces it when its context is done.
StopHook(drained) ==
    /\ pc = "callbacks" /\ stops # << >>
    /\ \/ ~hooks[Head(stops)].stops /\ drained /\ UNCHANGED <<serving, stopErr>>
       \/ /\ hooks[Head(stops)].stops
          /\ serving' = FALSE
          /\ \/ drained /\ \E ok \in BOOLEAN : Returned(ok)
             \/ ~drained /\ CallbackDone /\ Returned(FALSE)
    /\ stops' = Tail(stops)
    /\ UNCHANGED <<commandVars, layers, overrides, pc, exit, ctx, stopCtx, state, beanVars, started,
                   served, plugins, callback, failed>>

Latest == cleanups[Len(cleanups)]

WithoutLatest == SubSeq(cleanups, 1, Len(cleanups) - 1)

\* Mutant: the stop hooks and the cleanups run side by side.
CleaningAtOnce(k, how) ==
    /\ pc = "callbacks" /\ cleanups # << >>
    /\ k = Latest /\ Cleanup(k) = how
    /\ released' = released \cup {k}
    /\ cleanups' = WithoutLatest
    /\ UNCHANGED <<commandVars, layers, overrides, pc, exit, ctx, stopCtx, state, built, armed, started, stops,
                   serving, served, callback, failed>>

Cleaning(k, how) ==
    /\ pc = "callbacks" /\ stops = << >> /\ cleanups # << >>
    /\ k = Latest /\ Cleanup(k) = how
    /\ released' = released \cup {k}
    /\ cleanups' = WithoutLatest
    /\ UNCHANGED <<commandVars, layers, overrides, pc, exit, ctx, stopCtx, state, built, armed, started, stops,
                   serving, served, callback, failed>>

CleanupCloses ==
    \E k \in armed, ok \in BOOLEAN :
        Cleaning(k, "close") /\ Returned(ok) /\ UNCHANGED <<draining, plugins>>

\* Processor.Close, RunHost.Shutdown, Engine.Shutdown and Session.Close.
CleanupDrains ==
    \E k \in armed, ok \in BOOLEAN :
        Cleaning(k, "drain") /\ Returned(ok) /\ UNCHANGED <<draining, plugins>>

\* Mutant: the drain is left when the context is done, as if it were finished.
CleanupExpiresSilently ==
    \E k \in armed :
        /\ CallbackDone
        /\ Cleaning(k, "drain") /\ Returned(TRUE)
        /\ draining' = draining \cup {k}
        /\ UNCHANGED plugins

CleanupExpires ==
    \E k \in armed :
        /\ CallbackDone
        /\ Cleaning(k, "drain") /\ Returned(FALSE)
        /\ draining' = draining \cup {k}
        /\ UNCHANGED plugins

\* Mutant: the cleanup of the plugin host hands on the context it was given.
CleanupContainsWithin ==
    \E k \in armed, ok \in BOOLEAN :
        /\ Cleaning(k, "contain") /\ Returned(ok)
        /\ plugins' = CASE CallbackDone -> plugins [] ok -> "contained" [] OTHER -> "escaped"
        /\ UNCHANGED draining

\* The plugin host is closed within a budget of its own; it fails when a
\* process outlives even that.
CleanupContains ==
    \E k \in armed, ok \in BOOLEAN :
        /\ Cleaning(k, "contain") /\ Returned(ok)
        /\ plugins' = IF ok THEN "contained" ELSE "escaped"
        /\ UNCHANGED draining

\* The work a cleanup did not wait for ends in the background.
DrainEnds ==
    /\ pc # "exited"
    /\ \E k \in draining : draining' = draining \ {k}
    /\ UNCHANGED <<commandVars, layers, overrides, pc, exit, ctx, stopCtx, state, built, armed, cleanups,
                   released, hookVars, callback, errorVars>>

\* Mutant: the callbacks end with the first one that fails.
CompleteAtFailure ==
    /\ pc = "callbacks" /\ stops = << >> /\ (cleanups = << >> \/ stopErr)
    /\ state' = IF callback = "stop" THEN "stopped" ELSE "failed"
    /\ IF callback = "stop" \/ (callback = "failStart" /\ entry = "runner")
       THEN pc' = "stop" /\ exit' = exit
       ELSE Exit("failure")
    /\ stopErr' = (stopErr \/ callback # "stop")
    /\ UNCHANGED <<commandVars, layers, overrides, ctx, stopCtx, beanVars, hookVars, callback, failed>>

\* completeTerminal. Abort returns to a caller that gives up, failStart to one
\* that stops the application again, and Stop to its caller.
CompleteTerminal ==
    /\ pc = "callbacks" /\ stops = << >> /\ cleanups = << >>
    /\ state' = IF callback = "stop" THEN "stopped" ELSE "failed"
    /\ IF callback = "stop" \/ (callback = "failStart" /\ entry = "runner")
       THEN pc' = "stop" /\ exit' = exit
       ELSE Exit("failure")
    /\ stopErr' = (stopErr \/ callback # "stop")
    /\ UNCHANGED <<commandVars, layers, overrides, ctx, stopCtx, beanVars, hookVars, callback, failed>>
-----------------------------------------------------------------------------
(* NewApplicationWithOptions *)

\* Configuration that cannot be resolved ends the command without Abort; a
\* value that cannot be used ends it with Abort, which finds nothing to release.
Configure ==
    /\ pc = "configure"
    /\ \/ /\ configured = Applications[app].required
          /\ pc' = "construct"
          /\ UNCHANGED <<exit, state, stops, started, callback>>
       \/ /\ configured = Applications[app].required
          /\ Applications[app].decoded # {}
          /\ RunCallbacks("abort") /\ UNCHANGED exit
       \/ Exit("failure") /\ UNCHANGED <<state, stops, started, callback>>
    /\ UNCHANGED <<commandVars, layers, overrides, ctx, stopCtx, beanVars, serving, served, plugins,
                   errorVars>>

\* Mutant: cleanups are registered in front of the others.
RegisterInFront(k) == <<k>> \o cleanups

\* RegisterModuleCleanup
Register(k) == Append(cleanups, k)

\* The next bean and, when it comes with a cleanup, its registration.
Construct ==
    /\ pc = "construct"
    /\ LET k == built + 1 IN
       IF built = Len(beans)
       THEN pc' = "constructed" /\ UNCHANGED <<built, armed, cleanups>>
       ELSE /\ built' = k
            /\ IF Cleanup(k) = "none"
               THEN UNCHANGED <<armed, cleanups>>
               ELSE armed' = armed \cup {k} /\ cleanups' = Register(k)
            /\ UNCHANGED pc
    /\ UNCHANGED <<commandVars, layers, overrides, exit, ctx, stopCtx, state, released, draining,
                   hookVars, callback, errorVars>>

ConstructFails ==
    /\ pc = "construct" /\ built < Len(beans)
    /\ RunCallbacks("abort")
    /\ UNCHANGED <<commandVars, layers, overrides, exit, ctx, stopCtx, beanVars, serving, served, plugins,
                   errorVars>>

\* A constructor, a hook, a cleanup or the shell panics: Command.Execute recovers,
\* the generated command crashes, and no cleanup runs.
Panics ==
    /\ \/ pc \in {"construct", "start", "callbacks"}
       \/ pc = "running" /\ serving /\ Applications[app].foreground = "shell"
    /\ Exit("failure")
    /\ UNCHANGED <<commandVars, layers, overrides, ctx, stopCtx, state, beanVars, hookVars, callback,
                   errorVars>>

-----------------------------------------------------------------------------
(* Start *)

Checked ==
    /\ pc = "constructed" /\ mode = "check"
    /\ pc' = "stop"
    /\ UNCHANGED <<commandVars, layers, overrides, exit, ctx, stopCtx, state, beanVars, hookVars, callback,
                   errorVars>>

Start ==
    /\ pc = "constructed" /\ mode # "check"
    /\ state' = "starting" /\ pc' = "start"
    /\ UNCHANGED <<commandVars, layers, overrides, exit, ctx, stopCtx, beanVars, hookVars, callback,
                   errorVars>>

\* The context is looked at before the hooks and before each of them.
StartHook ==
    /\ pc = "start" /\ ctx = "live" /\ started < Len(hooks)
    /\ started' = started + 1
    /\ IF hooks[started'].stops
       THEN serving' = TRUE /\ served' = TRUE /\ UNCHANGED plugins
       ELSE plugins' \in {"none", "running"} /\ UNCHANGED <<serving, served>>
    /\ UNCHANGED <<commandVars, layers, overrides, pc, exit, ctx, stopCtx, state, beanVars, stops,
                   callback, errorVars>>

\* failStart. An activation that fails may leave plugin processes behind.
StartFails ==
    /\ pc = "start"
    /\ \/ ctx = "done" /\ (started = 0 \/ started < Len(hooks)) /\ UNCHANGED plugins
       \/ /\ started < Len(hooks)
          /\ IF hooks[started + 1].stops THEN UNCHANGED plugins
                                         ELSE plugins' \in {"none", "running"}
    /\ RunCallbacks("failStart")
    /\ failed' = TRUE
    /\ UNCHANGED <<commandVars, layers, overrides, exit, ctx, stopCtx, beanVars, serving, served, stopErr>>

Ready ==
    /\ pc = "start" /\ started = Len(hooks)
    /\ (started = 0 => ctx = "live")
    /\ state' = "ready" /\ pc' = "running"
    /\ IF Applications[app].foreground = "shell" /\ entry = "runner"
       THEN serving' = TRUE /\ served' = TRUE
       ELSE UNCHANGED <<serving, served>>
    /\ UNCHANGED <<commandVars, layers, overrides, exit, ctx, stopCtx, beanVars, started, stops, plugins,
                   callback, errorVars>>

-----------------------------------------------------------------------------
(* The wait for the end *)

\* The transport stops by itself, or the user leaves the shell.
ForegroundEnds ==
    /\ pc = "running" /\ serving
    /\ serving' = FALSE
    /\ UNCHANGED <<commandVars, layers, overrides, pc, exit, ctx, stopCtx, state, beanVars, started, stops,
                   served, plugins, callback, errorVars>>

Cancelled ==
    /\ pc = "running" /\ ctx = "done"
    /\ pc' = "stop"
    /\ serving' = (serving /\ Applications[app].foreground # "shell")
    /\ UNCHANGED <<commandVars, layers, overrides, exit, ctx, stopCtx, state, beanVars, started, stops,
                   served, plugins, callback, errorVars>>

\* A transport that ends by itself is a failure even without an error; the
\* shell ends with or without one. The generated command does not watch.
Ended ==
    /\ pc = "running" /\ entry = "runner" /\ ~serving
    /\ IF Applications[app].foreground = "shell" THEN failed' \in BOOLEAN ELSE failed' = TRUE
    /\ pc' = "stop"
    /\ UNCHANGED <<commandVars, layers, overrides, exit, ctx, stopCtx, state, beanVars, hookVars, callback,
                   stopErr>>

-----------------------------------------------------------------------------
(* Stop *)

\* Mutant: stop without a timeout.
FreshContextUnbounded == "none"

FreshContext == "live"

Stop ==
    /\ pc = "stop" /\ state \in {"constructed", "ready"}
    /\ stopCtx' = FreshContext
    /\ RunCallbacks("stop")
    /\ UNCHANGED <<commandVars, layers, overrides, exit, ctx, beanVars, serving, served, plugins,
                   errorVars>>

Expire ==
    /\ pc = "callbacks" /\ callback = "stop" /\ stopCtx = "live"
    /\ stopCtx' = "expired"
    /\ UNCHANGED <<commandVars, layers, overrides, pc, exit, ctx, state, beanVars, hookVars, callback,
                   errorVars>>

\* Stop of a stopped or failed application answers with the recorded error.
Return ==
    /\ pc = "stop" /\ state \in {"stopped", "failed"}
    /\ Exit(IF failed \/ stopErr THEN "failure" ELSE "success")
    /\ UNCHANGED <<commandVars, layers, overrides, ctx, stopCtx, state, beanVars, hookVars, callback,
                   errorVars>>

\* The generated check also fails when it cannot write that it is ready.
ReadyNotWritten ==
    /\ pc = "stop" /\ state = "stopped" /\ mode = "check" /\ entry = "generated"
    /\ Exit("failure")
    /\ UNCHANGED <<commandVars, layers, overrides, ctx, stopCtx, state, beanVars, hookVars, callback,
                   errorVars>>

Callbacks ==
    \/ StopHook(TRUE) \/ StopHook(FALSE)
    \/ CleanupCloses \/ CleanupDrains \/ CleanupExpires \/ CleanupContains
    \/ CompleteTerminal

Next ==
    \/ Usage \/ GeneratedUsage \/ Unavailable \/ Execute \/ RunCommand
    \/ Configure \/ Construct \/ ConstructFails \/ Panics
    \/ Checked \/ Start \/ StartHook \/ StartFails \/ Ready
    \/ ForegroundEnds \/ Cancelled \/ Ended \/ Stop \/ Callbacks \/ Return \/ ReadyNotWritten
    \/ Cancel \/ Expire \/ DrainEnds

Spec == Init /\ [][Next]_vars

(***************************************************************************)
(* Every step the command takes by itself is taken, and the timeout of     *)
(* Stop runs out. A drain that has nothing to wait for ends; one that was  *)
(* used may never do so, and neither must a transport be drained. A stop   *)
(* that is forced ends: the transport closes every connection and cancels  *)
(* what its handlers wait on, and then waits for them without a bound, so  *)
(* a handler that ignores its context is outside this assumption           *)
(* (grpcserver Shutdown).                                                  *)
(***************************************************************************)
Fairness ==
    /\ WF_vars(Usage \/ GeneratedUsage \/ Execute \/ RunCommand \/ Configure \/ Construct
               \/ Checked \/ Start \/ StartHook \/ StartFails \/ Ready \/ Cancelled \/ Ended
               \/ Stop \/ Return)
    /\ WF_vars(CleanupCloses \/ CleanupExpires \/ CleanupContains \/ CompleteTerminal
               \/ StopHook(FALSE))
    /\ WF_vars(~served /\ CleanupDrains)
    /\ WF_vars(stops # << >> /\ ~hooks[Head(stops)].stops /\ StopHook(TRUE))
    /\ WF_vars(Expire)

FairSpec == Spec /\ Fairness

-----------------------------------------------------------------------------
(* Properties *)

ProgressOK ==
    /\ app \in DOMAIN Applications
    /\ entry \in {"runner", "generated"}
    /\ pc \in {"execute", "configure", "construct", "constructed", "start", "running", "stop",
               "callbacks", "exited"}
    /\ exit \in {"none", "success", "usage", "failure"}
    /\ ctx \in {"live", "done"} /\ stopCtx \in {"none", "live", "expired"}
    /\ state \in {"constructed", "starting", "ready", "stopping", "stopped", "failed"}
    /\ callback \in {"none", "abort", "failStart", "stop"}
    /\ plugins \in {"none", "running", "contained", "escaped"}

FlagsOK ==
    failed \in BOOLEAN /\ stopErr \in BOOLEAN /\ serving \in BOOLEAN /\ served \in BOOLEAN

BeansOK ==
    /\ built \in 0 .. Len(beans)
    /\ armed \subseteq 1 .. built /\ released \subseteq armed /\ draining \subseteq released
    /\ cleanups \in Seq(armed)

HooksOK ==
    /\ started \in 0 .. Len(hooks)
    /\ stops \in Seq(1 .. Len(hooks))

TypeOK == ProgressOK /\ FlagsOK /\ BeansOK /\ HooksOK

(***************************************************************************)
(* Whatever step failed, a bean is released only after every bean that was *)
(* built from it: the root registry stays open until the coding tools, the *)
(* plugin host and the daemon root are gone (docs/daemon-target.md).       *)
(***************************************************************************)
ReleasedAfterDependents ==
    \A i \in released, j \in armed : i \in beans[j].uses => j \in released

(***************************************************************************)
(* A rolled back or stopped application has run every cleanup that was     *)
(* registered and serves no longer, however many of them failed.           *)
(***************************************************************************)
EverythingReleased ==
    state \in {"stopped", "failed"} => released = armed /\ cleanups = << >> /\ ~serving

(***************************************************************************)
(* No cleanup runs while the transport or the shell works: the stop hooks  *)
(* drain it first (NewRoot, "only after lifecycle stop hooks have drained  *)
(* the transport").                                                        *)
(***************************************************************************)
ServesOverLiveBeans == serving => released = {}

(***************************************************************************)
(* Plugin processes are contained, or the failure of the host to do so     *)
(* within its own budget is reported, even when the startup context was    *)
(* cancelled (NewRuntimePluginHost).                                       *)
(***************************************************************************)
ContainmentNotSkipped ==
    state \in {"stopped", "failed"} =>
        /\ plugins # "running"
        /\ plugins = "escaped" => stopErr

(***************************************************************************)
(* The success of a command that served or was checked means that all was  *)
(* released, nothing still drains in the background and no plugin escaped, *)
(* and a daemon ends with success only when it was told to.                *)
(***************************************************************************)
CleanExit ==
    exit = "success" /\ mode # "help" =>
        /\ state = "stopped" /\ released = armed /\ draining = {}
        /\ plugins \in {"none", "contained"}
        /\ mode = "serve" => ctx = "done"

(***************************************************************************)
(* A command that was checked, cancelled, or whose transport or shell      *)
(* ended, exits: neither a rollback nor a drain that hangs keeps it alive  *)
(* ("cannot leave the process silently alive", docs/daemon-target.md),     *)
(* provided the handlers of a transport that is forced to stop return.     *)
(***************************************************************************)
Asked ==
    \/ ctx = "done" \/ mode \in {"check", "help", "invalid"}
    \/ pc = "running" /\ entry = "runner" /\ ~serving

CommandEnds == Asked ~> pc = "exited"
=============================================================================
