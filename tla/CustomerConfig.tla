--------------------------- MODULE CustomerConfig ---------------------------
(***************************************************************************)
(* What a customer may publish, what the catalog of a host makes of it     *)
(* (customer.rs), and which definitions a build of the result puts into    *)
(* the store (configured.rs).                                              *)
(*                                                                         *)
(* A name stands for a name with its version.  A digest is the value it is *)
(* taken of: two digests are equal when the contents are.  There is one    *)
(* owner, the actor whose catalog every host was started with.  Skills,    *)
(* schemas, sizes of texts and the goal of a tree are left out.            *)
(***************************************************************************)
EXTENDS Naturals, FiniteSets

CONSTANTS
    MaxAgents,    \* agents of one tree
    NoSource      \* publication_sources of a configuration no customer sent

ASSUME MaxAgentsAssumption == MaxAgents \in Nat

\* A later entry never replaces an earlier one: every map of the store that
\* holds definitions is merged this way.
Merge(old, new) ==
    [k \in DOMAIN old \cup DOMAIN new |->
        IF k \in DOMAIN old THEN old[k] ELSE new[k]]

Put(f, k, v) == Merge(f, [x \in {k} |-> v])

\* The function a set of pairs with distinct first components is.
AsFunction(pairs) ==
    [k \in {p[1] : p \in pairs} |-> (CHOOSE p \in pairs : p[1] = k)[2]]

(***************************************************************************)
(* Tools.  A tool definition selects one connection of the host and may    *)
(* make its handling stricter; "default" is an absent field.               *)
(***************************************************************************)
Effective(connection, tool) ==
    [alias |-> tool.alias,
     transport |-> connection.transport,
     endpoint |-> connection.endpoint,
     effect |-> IF tool.effect = "default" THEN connection.effect ELSE tool.effect,
     approval |-> IF tool.approval = "default" THEN connection.approval
                  ELSE tool.approval = "required"]

\* ToolConnection::compile succeeds: the rules of the connection are minimum
\* requirements.
Permitted(connection, tool) ==
    /\ connection.effect = "write" => Effective(connection, tool).effect = "write"
    /\ connection.approval => Effective(connection, tool).approval
    /\ connection.transport = "mcp" => ~tool.outputSchema

\* registry_value of a connection is what this host's catalog says it is.
Installed(catalog, registry, c) ==
    /\ c \in DOMAIN catalog.connections
    /\ c \in DOMAIN registry.connections
    /\ registry.connections[c] = catalog.connections[c]

\* A new agent can only select published tools on connections the host still
\* has, bound as they were when the tool was published.
Selectable(catalog, registry, t) ==
    /\ t \in DOMAIN registry.tools
    /\ LET tool == registry.tools[t].definition
           c == tool.connection
       IN /\ Installed(catalog, registry, c)
          /\ Permitted(catalog.connections[c], tool)
          /\ registry.tools[t].effective = Effective(catalog.connections[c], tool)

(***************************************************************************)
(* Agents.  A tree is a root and a map from the names of its agents to     *)
(* nodes; names are unique in a tree.  0 is an absent limit or budget.     *)
(***************************************************************************)
CompilesNode(catalog, registry, agent, n) ==
    LET node == agent.nodes[n]
    IN /\ node.model \in DOMAIN catalog.models
       /\ node.limits <= catalog.limits
       /\ n # agent.root => node.budget = 0
       /\ node.budget <= catalog.calls
       /\ \A t \in node.tools : Selectable(catalog, registry, t)

\* HostCatalog::compile_agent succeeds.
Compiles(catalog, registry, agent) ==
    /\ Cardinality(DOMAIN agent.nodes) <= MaxAgents
    /\ \A n \in DOMAIN agent.nodes : CompilesNode(catalog, registry, agent, n)

Default(v, default) == IF v = 0 THEN default ELSE v

\* The configuration it returns: the customer's choices with every default of
\* this host filled in, and the definition the customer sent.
Compile(catalog, registry, agent) ==
    [root |-> agent.root,
     source |-> agent,
     group |-> <<"publication", agent.root>>,
     calls |-> Default(agent.nodes[agent.root].budget, catalog.calls),
     nodes |-> [n \in DOMAIN agent.nodes |->
        LET node == agent.nodes[n]
        IN [text |-> node.text,
            model |-> catalog.models[node.model],
            limits |-> Default(node.limits, catalog.limits),
            memory |-> node.memory,
            context |-> node.context,
            kids |-> node.kids,
            tools |-> {registry.tools[t].effective : t \in node.tools}]]]

\* validate_contracts and a build in an empty store: the names of the tools of
\* an agent differ, and no HTTP endpoint is bound twice.
Wellformed(config) ==
    \A n \in DOMAIN config.nodes :
        \A s, t \in config.nodes[n].tools :
            s # t => /\ s.alias # t.alias
                     /\ s.endpoint = t.endpoint => "mcp" \in {s.transport, t.transport}

\* Configuration::for_submission: a customer's run has a budget of its own.
ForSubmission(config, key) ==
    IF config.source = NoSource THEN config
    ELSE [config EXCEPT !.group = <<"run", config.root, key>>]

(***************************************************************************)
(* What build ensures in the store, one family of definitions at a time.   *)
(* A definition is a key and a value; the keys of policies carry an agent  *)
(* and a name, so that no policy of two agents is shared except the one of *)
(* delegation.                                                             *)
(***************************************************************************)
PolicyKey(n, name) == <<"policy", n, name>>
PolicyValue(approval) == [approval |-> approval, revoked |-> FALSE]

MemoryItems(n, node) ==
    IF node.memory
    THEN {<<<<"tool", n, "memory">>, "registered">>,
          <<PolicyKey(n, "memory-read"), PolicyValue(FALSE)>>,
          <<PolicyKey(n, "memory-write"), PolicyValue(TRUE)>>}
    ELSE {}

ContextItems(n, node) ==
    IF node.context
    THEN {<<<<"tool", n, "context">>, "registered">>,
          <<PolicyKey(n, "context"), PolicyValue(FALSE)>>}
    ELSE {}

ToolItems(n, node, transport) ==
    UNION {{<<PolicyKey(n, t.alias), PolicyValue(t.approval)>>,
            <<<<"binding", n, t.alias>>, t>>} :
           t \in {u \in node.tools : u.transport = transport}}

DelegationItems(node) ==
    {<<<<"tool", kid, "delegate">>, "registered">> : kid \in node.kids}
    \cup {<<PolicyKey("configured-subagents", "any"), PolicyValue(FALSE)>>}

\* Every agent has a memory and a context binding, whose values say whether it
\* has memory and a context policy; a team has a coordination policy.
AgentItems(n, node) ==
    {<<<<"agent", n, "definition">>,
       [text |-> node.text, limits |-> node.limits, kids |-> node.kids,
        tools |-> {t.alias : t \in node.tools}]>>,
     <<<<"memory", n, "binding">>, node.memory>>,
     <<<<"context", n, "binding">>, node.context>>,
     <<<<"transport", n, "binding">>, node.model>>}
    \cup (IF node.kids = {} THEN {}
          ELSE {<<<<"coordination", n, "binding">>, TRUE>>})

\* Bindings that cannot be added to an agent that already has runs.
LateBinding(k, value) == k[1] \in {"memory", "context", "coordination"} /\ value

\* Everything a build of the configuration finds or puts in the store, except
\* the counter of its budget.
Items(config) ==
    AsFunction(UNION {
        LET node == config.nodes[n]
        IN MemoryItems(n, node) \cup ContextItems(n, node)
           \cup ToolItems(n, node, "mcp") \cup ToolItems(n, node, "http")
           \cup DelegationItems(node) \cup AgentItems(n, node) :
        n \in DOMAIN config.nodes})
=============================================================================
