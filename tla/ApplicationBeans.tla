-------------------------- MODULE ApplicationBeans --------------------------
(***************************************************************************)
(* What Spice generated for the three applications of this repository      *)
(* (src/internal/spicegen): the order in which each constructs its beans,  *)
(* the beans a constructor takes, the cleanup it returns, the lifecycle    *)
(* hooks and the required configuration. Application.tla interprets it.    *)
(*                                                                         *)
(* How a cleanup treats the context it is given:                           *)
(*   "close"    it ignores the context and returns                         *)
(*   "drain"    it waits for its own work until the context is done; the   *)
(*              work then goes on in the background                        *)
(*   "contain"  it replaces the context by a bounded one of its own        *)
(*   "attach"   as "close", in attach mode; none in the other modes        *)
(***************************************************************************)
EXTENDS Sequences, FiniteSets, Integers

Value(bean, needs)      == [bean |-> bean, needs |-> needs, cleanup |-> "none", bound |-> FALSE]
Owned(bean, how, needs) == [bean |-> bean, needs |-> needs, cleanup |-> how, bound |-> FALSE]
Bound(bean)             == [bean |-> bean, needs |-> {}, cleanup |-> "none", bound |-> TRUE]

-----------------------------------------------------------------------------
(* spice-agentd. The beans that own something, or hold the daemon together,   *)
(* are named.                                                                  *)

DaemonRootRegistry == Owned("daemonRootRegistry", "close", {})

EndpointStore == Owned("endpointStore", "close", {"endpointScope"})

DaemonRoot == Owned("daemonRoot", "close", {"daemonRootRegistry"})

RunAuthority == Owned("runAuthority", "close", {"daemonProperties"})

RuntimePluginHost ==
    Owned("runtimePluginHost", "contain", {"runtimePluginHostIdentity",
        "runtimePluginCompiledDispatcher", "runtimePluginRestartPolicy",
        "verifiedProcessLauncher", "runtimePluginEndpointFactory", "runtimePluginPlan"})

DaemonEngine ==
    Value("daemonEngine", {"openAIModelProvider", "runtimePluginToolPlanSource",
        "daemonInteractionBroker", "daemonIDSource", "serverLimits", "codingConfig",
        "agentLoggingProcessor", "agentLoggingMailbox"})

RunHost ==
    Owned("runHost", "drain", {"daemonRoot", "daemonEngine", "runAuthority",
        "sessionStore", "operationLedger", "pendingHub", "definitionSet",
        "agentLoggingHealth", "runtimePluginHealthSource", "serverLimits"})

GrpcServer ==
    Value("grpcServer", {"daemonRoot", "endpointToken", "runHost", "sessionStore",
        "serverBuild"})

DaemonRuntime ==
    Value("daemonRuntime", {"endpointScope", "endpointStore", "endpointToken",
        "serverBuild", "serverProtocol", "grpcServer", "runtimePluginActivation",
        "daemonListenerFactory"})

AgentdBeans1 == <<
    Value("daemonIDSource", {}),
    Value("pendingHub", {}),
    Value("serverBuild", {}),
    DaemonRootRegistry,
    Value("endpointScope", {}),
    EndpointStore,
    Value("endpointToken", {}),
    Value("daemonListenerFactory", {}),
    Value("processLauncher", {"daemonRootRegistry"}),
    Value("serverProtocol", {}) >>

AgentdBeans2 == <<
    Value("daemonInteractionBroker", {"pendingHub"}),
    Value("processResolver", {}),
    Value("verifiedProcessLauncher", {"processLauncher"}),
    Value("runtimePluginHostIdentity", {"serverBuild"}),
    DaemonRoot,
    Value("sessionStore", {"daemonRoot"}),
    Value("operationLedger", {}),
    Value("serverLimits", {}),
    Value("runtimePluginEndpointFactory", {}),
    Bound("daemonProperties") >>

AgentdBeans3 == <<
    Value("openAIConfig", {"daemonProperties"}),
    RunAuthority,
    Value("definitionSet", {"daemonProperties"}),
    Value("agentLoggingConfig", {"daemonProperties"}),
    Value("agentLoggingMailbox", {"agentLoggingConfig"}),
    Owned("agentLoggingProcessor", "drain", {"agentLoggingConfig",
        "agentLoggingMailbox"}),
    Value("agentLoggingHealth", {"agentLoggingConfig", "agentLoggingProcessor"}),
    Value("openAIModelProvider", {"openAIConfig"}),
    Bound("runtimePluginProperties"),
    Value("runtimePluginPlan", {"runtimePluginProperties"}) >>

AgentdBeans4 == <<
    Value("runtimePluginRestartPolicy", {"runtimePluginPlan"}),
    Bound("workspaceProperties"),
    Value("codingConfig", {"workspaceProperties", "daemonRootRegistry"}),
    Value("read", {"codingConfig"}),
    Value("shell", {"codingConfig", "processResolver", "processLauncher"}),
    Value("replace", {"codingConfig"}),
    Value("runtimePluginCompiledDispatcher", {"read", "replace", "shell"}),
    RuntimePluginHost,
    Value("runtimePluginActivation", {"runtimePluginPlan", "runtimePluginHost"}),
    Value("runtimePluginHealthSource", {"runtimePluginActivation", "runtimePluginHost"}) >>

AgentdBeans5 == <<
    Value("runtimePluginToolPlanSource", {"runtimePluginHost"}),
    DaemonEngine,
    RunHost,
    GrpcServer,
    DaemonRuntime >>

AgentdBeans == AgentdBeans1 \o AgentdBeans2 \o AgentdBeans3 \o AgentdBeans4 \o AgentdBeans5

AgentdHooks == <<[bean |-> "runtimePluginActivation", stops |-> FALSE],
                 [bean |-> "daemonRuntime", stops |-> TRUE]>>

-----------------------------------------------------------------------------
(* spice-agent *)

TerminalEndpointStore ==
    Owned("terminalEndpointStore", "close", {"terminalEndpointScope"})

TerminalManagedDiscovery ==
    Owned("terminalManagedDiscovery", "close", {"terminalEndpointStore"})

TerminalManagedConnector ==
    Owned("terminalManagedConnector", "close", {"terminalManagedDiscovery",
        "terminalDaemonStarter", "terminalStartupLock"})

TerminalClientConnector ==
    Owned("terminalClientConnector", "attach", {"terminalProperties",
        "terminalManagedConnector", "terminalEndpointStore"})

TerminalSession ==
    Owned("terminalSession", "drain", {"terminalSessionConfig",
        "terminalClientConnector", "terminalIdentifierSource"})

TerminalShell ==
    Value("terminalShell", {"terminalSession", "fixedRenderer", "darkTheme",
        "submitKeyBinding", "cancelKeyBinding", "respondKeyBinding", "quitKeyBinding",
        "cursorLeftKeyBinding", "cursorRightKeyBinding", "cursorStartKeyBinding",
        "cursorEndKeyBinding", "historyPreviousKeyBinding", "historyNextKeyBinding",
        "backspaceKeyBinding", "connectingView", "osTerminalIO", "terminalConfig"})

AgentBeans1 == <<
    Value("darkTheme", {}),
    Value("quitKeyBinding", {}),
    Value("osTerminalIO", {}),
    Value("cancelKeyBinding", {}),
    Value("fixedRenderer", {}),
    Value("submitKeyBinding", {}),
    Value("connectingView", {}),
    Value("respondKeyBinding", {}),
    Value("backspaceKeyBinding", {}),
    Value("cursorEndKeyBinding", {}) >>

AgentBeans2 == <<
    Value("cursorLeftKeyBinding", {}),
    Value("cursorRightKeyBinding", {}),
    Value("cursorStartKeyBinding", {}),
    Value("historyNextKeyBinding", {}),
    Value("historyPreviousKeyBinding", {}),
    Value("terminalDefinition", {}),
    Value("terminalClientBuild", {}),
    Value("terminalClientLimits", {}),
    Value("terminalDaemonStarter", {}),
    Value("terminalEndpointScope", {}) >>

AgentBeans3 == <<
    TerminalEndpointStore,
    Value("terminalStartupLock", {"terminalEndpointStore"}),
    Value("terminalInitialStatus", {}),
    Value("terminalClientProtocol", {}),
    Value("terminalIdentifierSource", {}),
    TerminalManagedDiscovery,
    TerminalManagedConnector,
    Value("terminalInitializeRequest", {"terminalClientProtocol",
        "terminalClientBuild", "terminalClientLimits"}),
    Bound("terminalProperties"),
    Value("terminalConfig", {"terminalProperties"}) >>

AgentBeans4 == <<
    TerminalClientConnector,
    Bound("workspaceProperties"),
    Value("terminalWorkspace", {"workspaceProperties"}),
    Value("terminalSessionConfig", {"terminalInitializeRequest", "terminalDefinition",
        "terminalWorkspace", "terminalInitialStatus"}),
    TerminalSession,
    TerminalShell >>

AgentBeans == AgentBeans1 \o AgentBeans2 \o AgentBeans3 \o AgentBeans4

-----------------------------------------------------------------------------
(* the architecture proof *)

ProofCodingConfig == Owned("codingConfig", "close", {})

ResponsesFixture == Owned("responsesFixture", "close", {})

ArchitectureProofEngine ==
    Owned("architectureProofEngine", "drain", {"architectureProofOpenai",
        "architectureProofToolPlanSource", "architectureProofInteractionBroker",
        "architectureProofExecutionPlan", "architectureProofIDSource", "codingConfig"})

Proof ==
    Value("proof", {"architectureProofEngine", "architectureProofToolDispatcher",
        "responsesFixture"})

ProofBeans1 == <<
    Value("architectureProofIDSource", {}),
    ProofCodingConfig,
    Value("read", {"codingConfig"}),
    Value("replace", {"codingConfig"}),
    Value("processLauncher", {}),
    ResponsesFixture,
    Value("architectureProofOpenai", {"responsesFixture"}),
    Value("architectureProofInteractionBroker", {}),
    Value("processResolver", {}),
    Value("shell", {"codingConfig", "processResolver", "processLauncher"}) >>

ProofBeans2 == <<
    Value("architectureProofToolDispatcher", {"read", "replace", "shell"}),
    Value("architectureProofToolPlanSource", {"architectureProofToolDispatcher"}),
    Value("architectureProofExecutionPlan", {}),
    ArchitectureProofEngine,
    Proof,
    Bound("properties") >>

ProofBeans == ProofBeans1 \o ProofBeans2

-----------------------------------------------------------------------------
(* Configuration: the keys that must be given, those that have a default, and  *)
(* those that may be left out; and the keys whose values the assembly decodes, *)
(* after the configuration was resolved and before a bean is constructed.      *)

AgentdSchema1 ==
    [required |-> {"agent.openai.api-key", "agent.model"},
     default  |-> {"agent.openai.base-url", "agent.openai.timeout", "agent.openai.max-retries",
                   "agent.logging.mailbox-capacity", "agent.logging.include-progress",
                   "agent.logging.readiness-impact", "agent.runtime-plugin.id"},
     optional |-> {"agent.openai.organization", "agent.openai.project",
                   "agent.run-authority-directory", "agent.runtime-plugin.required",
                   "agent.runtime-plugin.path", "agent.runtime-plugin.sha256",
                   "agent.runtime-plugin.manifest-name",
                   "agent.runtime-plugin.manifest-version",
                   "agent.runtime-plugin.working-directory",
                   "agent.runtime-plugin.capabilities.filesystem-read",
                   "agent.runtime-plugin.capabilities.filesystem-write",
                   "agent.runtime-plugin.capabilities.process-execute",
                   "agent.runtime-plugin.capabilities.network-access"}]

AgentdSchema2 ==
    [required |-> {},
     default  |-> {"agent.runtime-plugin.timeouts.startup", "agent.runtime-plugin.timeouts.call",
                   "agent.runtime-plugin.timeouts.drain", "agent.runtime-plugin.timeouts.shutdown",
                   "agent.runtime-plugin.timeouts.containment", "agent.workspace",
                   "spice.logging.format", "spice.logging.level", "spice.logging.levels",
                   "spice.logging.add-source", "spice.shutdown-timeout"},
     optional |-> {"agent.runtime-plugin.capabilities.secrets-read",
                   "agent.runtime-plugin.capabilities.environment-read",
                   "agent.runtime-plugin.capabilities.environment-write"}]

AgentdSchema == [f \in DOMAIN AgentdSchema1 |-> AgentdSchema1[f] \cup AgentdSchema2[f]]

AgentSchema ==
    [required |-> {},
     default  |-> {"agent.terminal.mode", "agent.terminal.accessible", "agent.workspace",
                   "spice.logging.format", "spice.logging.level", "spice.logging.levels",
                   "spice.logging.add-source", "spice.shutdown-timeout"},
     optional |-> {"agent.terminal.endpoint"}]

ProofSchema ==
    [required |-> {},
     default  |-> {"agent.workspace", "spice.shutdown-timeout"},
     optional |-> {}]

ShutdownDecoded == {"spice.shutdown-timeout"}

LoggingDecoded ==
    {"spice.logging.format", "spice.logging.level", "spice.logging.levels",
     "spice.logging.add-source"}

-----------------------------------------------------------------------------
(* The indices of the beans a bean was built from, directly or through others. *)
Uses(rows) ==
    LET uses[k \in DOMAIN rows] ==
            LET direct == {i \in 1 .. k - 1 : rows[i].bean \in rows[k].needs}
            IN  direct \cup UNION {uses[i] : i \in direct}
    IN  uses

Resolved(rows) ==
    LET uses == Uses(rows)
    IN  [k \in DOMAIN rows |-> [bean    |-> rows[k].bean,
                                cleanup |-> rows[k].cleanup,
                                bound   |-> rows[k].bound,
                                uses    |-> uses[k]]]

-----------------------------------------------------------------------------
(* The beans a layer of BeanOverrides may replace: all but those that are      *)
(* bound to the configuration.                                                 *)
Replaceable(rows) == {k \in DOMAIN rows : ~rows[k].bound}

AgentdReplaceable == Replaceable(AgentdBeans)
AgentReplaceable  == Replaceable(AgentBeans)
ProofReplaceable  == Replaceable(ProofBeans)

\* Every name a constructor takes is that of a bean constructed before it.
ASSUME NamesAssumption ==
    \A rows \in {AgentdBeans, AgentBeans, ProofBeans} :
        \A k \in DOMAIN rows :
            rows[k].needs \subseteq {rows[i].bean : i \in 1 .. k - 1}

\* What the assembly decodes was declared and has a value without being given.
ASSUME DecodedAssumption ==
    /\ ShutdownDecoded \cup LoggingDecoded \subseteq AgentdSchema.default \cap AgentSchema.default
    /\ ShutdownDecoded \subseteq ProofSchema.default
=============================================================================
