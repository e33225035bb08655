--------------------------- MODULE MCApplication ---------------------------
(* TLC instance of Application: the three generated applications.            *)
EXTENDS Application, ApplicationBeans

Index(rows, name) == CHOOSE k \in DOMAIN rows : rows[k].bean = name

\* No layer, one, or two that replace the given beans, with valid and with
\* refused names.
Layers(rows, names) ==
    LET replace == UNION {[{Index(rows, n)} -> {"none", "close"}] : n \in names}
        layer   == [name : {"", "a", "b"}, overrides : replace]
    IN  {<< >>} \cup {<<l>> : l \in layer} \cup
        {<<l, m>> : l \in {x \in layer : x.name = "a"}, m \in layer}

Generated ==
    [agentd |-> [beans       |-> Resolved(AgentdBeans),
                 hooks       |-> AgentdHooks,
                 entries     |-> {"runner", "generated"},
                 modes       |-> {"serve"},
                 foreground  |-> "runtime",
                 required    |-> AgentdSchema.required,
                 decoded     |-> ShutdownDecoded \cup LoggingDecoded,
                 replaceable |-> AgentdReplaceable,
                 layers      |-> Layers(AgentdBeans, {"endpointScope", "openAIModelProvider"})],
     agent  |-> [beans       |-> Resolved(AgentBeans),
                 hooks       |-> << >>,
                 entries     |-> {"runner", "generated"},
                 modes       |-> {"managed", "attach"},
                 foreground  |-> "shell",
                 required    |-> AgentSchema.required,
                 decoded     |-> ShutdownDecoded \cup LoggingDecoded,
                 replaceable |-> AgentReplaceable,
                 layers      |-> Layers(AgentBeans, {"osTerminalIO", "terminalEndpointScope"})],
     proof  |-> [beans       |-> Resolved(ProofBeans),
                 hooks       |-> << >>,
                 entries     |-> {"generated"},
                 modes       |-> {"serve"},
                 foreground  |-> "none",
                 required    |-> ProofSchema.required,
                 decoded     |-> ShutdownDecoded,
                 replaceable |-> ProofReplaceable,
                 layers      |-> Layers(ProofBeans, {"codingConfig"})]]

\* TLC computes Generated once, and the value of a constant at every use.
MCApplications == Generated
=============================================================================
