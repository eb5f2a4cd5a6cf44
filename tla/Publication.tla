----------------------------- MODULE Publication -----------------------------
(***************************************************************************)
(* The life of a customer's agent: hosts install their catalogs, customers *)
(* publish tools and agents at any of them and submit runs of what they    *)
(* published, and a worker rebuilds the published trees to execute them.   *)
(*                                                                         *)
(*   - a publication is several store transactions (customer.rs and        *)
(*     publication.rs: replay, compile, commit, replay again); two of them *)
(*     interleave, and the host may die in between;                        *)
(*   - a trusted host builds its startup configuration in the same store,  *)
(*     one definition at a time (configured.rs);                           *)
(*   - an operator may revoke a policy (security.rs);                      *)
(*   - the worker keeps a bounded cache of built trees, and every model    *)
(*     call is charged to the budget of its submission before it is made   *)
(*     (published_worker.rs, budgets.rs).                                  *)
(*                                                                         *)
(* A tick is cut down to what concerns the budget: it claims the run,      *)
(* charges, calls the model and saves the answer.  RunExecution has the    *)
(* rest of it.                                                             *)
(***************************************************************************)
EXTENDS CustomerConfig

CONSTANTS
    Hosts,          \* API hosts
    Catalog,        \* the catalog of each host
    Requests,       \* publication requests customers send
    Bodies,         \* what each may ask: a set of [kind, key, definition]
    Submissions,    \* runs customers ask for: [ref, key]
    Startup,        \* the configuration of the trusted host
    Revocable,      \* policies the operator may revoke
    Executors,      \* activities of the worker
    CacheSize,      \* trees the worker keeps (64)
    MaxDeaths       \* bound of the model: processes that die

ASSUME PublicationAssumption ==
    /\ DOMAIN Catalog = Hosts
    /\ \A h \in Hosts : Catalog[h].calls \in Nat \ {0}
    /\ CacheSize \in Nat \ {0}
    /\ MaxDeaths \in Nat

IsConfig(config) ==
    /\ DOMAIN config = {"root", "source", "group", "calls", "nodes"}
    /\ config.calls \in Nat
    /\ config.root \in DOMAIN config.nodes

ASSUME OfferedAssumption ==
    /\ IsConfig(Startup)
    /\ \A r \in Requests : \A body \in Bodies[r] :
          /\ body.kind \in {"tool", "agent", "configuration"}
          /\ body.kind = "agent" =>
                /\ body.definition.root \in DOMAIN body.definition.nodes
                /\ \A n \in DOMAIN body.definition.nodes : body.definition.nodes[n].budget \in Nat
          /\ body.kind = "configuration" => IsConfig(body.definition)
    /\ \A k \in Revocable : k[1] = "policy"

VARIABLES
    registry,         \* customer_registry: models, connections and tools
    toolKeys,         \* customer_tool_keys: request key -> tool
    publications,     \* root agent -> frozen configuration
    publicationKeys,  \* publication_keys: request key -> root agent
    definitions,      \* agents, tools, policies and bindings
    budgets,          \* group -> [limit, admitted]
    revoked,          \* policies the operator revoked
    serving,          \* hosts that have installed their catalog
    request,          \* where each request is
    ensured,          \* definitions the startup host has ensured
    startup,          \* "building", "failed", "serving" or "used"
    runs,             \* request key -> [ref, agents]
    executor,         \* what each activity of the worker does
    cache,            \* submissions whose tree the worker keeps
    calls,            \* calls the model provider received, per group
    deaths

publicationVars == <<registry, toolKeys, publications, publicationKeys>>
requestVars == <<serving, request>>
startupVars == <<ensured, startup>>
workerVars == <<executor, cache, calls>>
vars == <<publicationVars, definitions, budgets, revoked, requestVars,
          startupVars, runs, workerVars, deaths>>

NoConfig == [root |-> "none"]
EmptyMap == [k \in {} |-> k]

\* A request no host works on.
Waiting(pc, body) == [pc |-> pc, body |-> body, host |-> "none", config |-> NoConfig]
NoBody == [kind |-> "none"]
AtRest == [pc |-> "idle", run |-> "none", agent |-> "none"]

Init ==
    /\ registry = [models |-> EmptyMap, connections |-> EmptyMap, tools |-> EmptyMap]
    /\ toolKeys = EmptyMap
    /\ publications = EmptyMap
    /\ publicationKeys = EmptyMap
    /\ definitions = EmptyMap
    /\ budgets = EmptyMap
    /\ revoked = {}
    /\ serving = {}
    /\ request = [r \in Requests |-> Waiting("idle", NoBody)]
    /\ ensured = {}
    /\ startup = "building"
    /\ runs = EmptyMap
    /\ executor = [x \in Executors |-> AtRest]
    /\ cache = {}
    /\ calls = EmptyMap
    /\ deaths = 0

(***************************************************************************)
(* Building a configuration in the store.  Each ensure and bind call       *)
(* accepts what is there when it is identical, and conflicts otherwise.    *)
(***************************************************************************)

\* The agent has runs.
HasRuns(n) ==
    \/ startup = "used" /\ n = Startup.root
    \/ \E k \in DOMAIN runs : n \in DOMAIN runs[k].agents /\ runs[k].agents[n] # "absent"

\* ensure_tool, ensure_agent, ensure_policy and the bind calls accept a value.
Accepts(k, value) ==
    IF k \in DOMAIN definitions THEN definitions[k] = value
    ELSE LateBinding(k, value) => ~HasRuns(k[2])

\* Mutant: a group that was used is not opened again.
OpensUnusedBudget(config) ==
    config.group \in DOMAIN budgets => budgets[config.group] = [limit |-> config.calls, admitted |-> 0]

\* BudgetedModel::new: reopening a group requires the same limit.
OpensBudget(config) ==
    config.group \in DOMAIN budgets => budgets[config.group].limit = config.calls

\* A build of the configuration succeeds against the store as it is.
Builds(config) ==
    /\ OpensBudget(config)
    /\ LET items == Items(config)
       IN \A k \in DOMAIN items : Accepts(k, items[k])

NewBudget(config) == [limit |-> config.calls, admitted |-> 0]

\* Mutant: opening a group again starts its usage afresh.
KeepBuiltAfresh(config) ==
    /\ definitions' = Merge(definitions, Items(config))
    /\ budgets' = [g \in DOMAIN budgets \cup {config.group} |->
                      IF g = config.group THEN NewBudget(config) ELSE budgets[g]]
    /\ calls' = Put(calls, config.group, 0)

\* What the store then holds; the usage of an existing budget is preserved.
KeepBuilt(config) ==
    /\ definitions' = Merge(definitions, Items(config))
    /\ budgets' = Put(budgets, config.group, NewBudget(config))
    /\ calls' = Put(calls, config.group, 0)

(***************************************************************************)
(* Hosts and their catalogs.                                               *)
(***************************************************************************)
Fits(old, new) == \A k \in DOMAIN old \cap DOMAIN new : old[k] = new[k]

\* HostCatalog::install, in one transaction: capability versions are immutable.
Install(h) ==
    /\ h \notin serving
    /\ Fits(registry.models, Catalog[h].models)
    /\ Fits(registry.connections, Catalog[h].connections)
    /\ registry' = [registry EXCEPT !.models = Merge(@, Catalog[h].models),
                                    !.connections = Merge(@, Catalog[h].connections)]
    /\ serving' = serving \cup {h}
    /\ UNCHANGED <<toolKeys, publications, publicationKeys, definitions, budgets, revoked,
                   request, startupVars, runs, workerVars, deaths>>

(***************************************************************************)
(* Requests.                                                               *)
(***************************************************************************)
At(r, pc) == request[r].pc = pc
Continue(r, pc) == request' = [request EXCEPT ![r].pc = pc]
Asked(r) == request[r].body
Asks(r, kind) == request[r].body.kind = kind
Acknowledge(r) == request' = [request EXCEPT ![r] = Waiting("published", @.body)]
Refuse(r) == request' = [request EXCEPT ![r] = Waiting("refused", NoBody)]
Reject(r) == request' = [request EXCEPT ![r] = Waiting("rejected", NoBody)]

\* A customer sends a request to any host, and sends it again when the host died
\* before it answered.  A customer that repeats a request that was answered is
\* one more request with the same body.
Send(r, h) ==
    /\ At(r, "idle")
    /\ h \in serving
    /\ \E body \in Bodies[r] :
          request' = [request EXCEPT ![r] = [pc |-> "sent", body |-> body, host |-> h,
                                             config |-> NoConfig]]
    /\ UNCHANGED <<publicationVars, definitions, budgets, revoked, serving,
                   startupVars, runs, workerVars, deaths>>

\* The entry a key was used for, or the one the definition itself names.
Bound(keys, key, name) == IF key \in DOMAIN keys THEN keys[key] ELSE name

\* replay_customer_tool: an existing revision answers an identical request
\* before the current catalog is consulted.
ReplayTool(r) ==
    LET tool == Asked(r).definition
        ref == Bound(toolKeys, Asked(r).key, tool.name)
    IN /\ At(r, "sent")
       /\ Asks(r, "tool")
       /\ \/ /\ ref \notin DOMAIN registry.tools
             /\ Continue(r, "new")
             /\ UNCHANGED toolKeys
          \/ /\ ref \in DOMAIN registry.tools
             /\ registry.tools[ref].definition # tool
             /\ Refuse(r)
             /\ UNCHANGED toolKeys
          \/ /\ ref \in DOMAIN registry.tools
             /\ registry.tools[ref].definition = tool
             /\ toolKeys' = Put(toolKeys, Asked(r).key, ref)
             /\ Acknowledge(r)
       /\ UNCHANGED <<registry, publications, publicationKeys, definitions, budgets, revoked,
                      serving, startupVars, runs, workerVars, deaths>>

ToolEntry(r) ==
    LET tool == Asked(r).definition
        connection == Catalog[request[r].host].connections[tool.connection]
    IN [definition |-> tool, effective |-> Effective(connection, tool)]

\* publish_customer_tool up to its transaction.
CheckTool(r) ==
    LET tool == Asked(r).definition
        catalog == Catalog[request[r].host]
        permitted == /\ Installed(catalog, registry, tool.connection)
                     /\ Permitted(catalog.connections[tool.connection], tool)
    IN /\ At(r, "new")
       /\ Asks(r, "tool")
       /\ IF permitted THEN Continue(r, "checked") ELSE Reject(r)
       /\ UNCHANGED <<publicationVars, definitions, budgets, revoked, serving,
                      startupVars, runs, workerVars, deaths>>

\* The transaction of publish_customer_tool.
CommitTool(r) ==
    LET key == Asked(r).key
        name == Asked(r).definition.name
        ref == Bound(toolKeys, key, name)
        tools == Put(registry.tools, name, ToolEntry(r))
    IN /\ At(r, "checked")
       /\ \/ /\ key \in DOMAIN toolKeys \/ name \in DOMAIN registry.tools
             /\ registry.tools[ref] # ToolEntry(r)
             /\ Refuse(r)
             /\ UNCHANGED <<registry, toolKeys>>
          \/ /\ tools[ref] = ToolEntry(r)
             /\ registry' = [registry EXCEPT !.tools = tools]
             /\ toolKeys' = Put(toolKeys, key, ref)
             /\ Acknowledge(r)
       /\ UNCHANGED <<publications, publicationKeys, definitions, budgets, revoked,
                      serving, startupVars, runs, workerVars, deaths>>

\* replay_customer_agent finds the revision the key or the definition names.
Replay(r) ==
    LET agent == Asked(r).definition
        ref == Bound(publicationKeys, Asked(r).key, agent.root)
    IN \/ /\ ref \in DOMAIN publications
          /\ publications[ref].source # agent
          /\ Refuse(r)
          /\ UNCHANGED publicationKeys
       \/ /\ ref \in DOMAIN publications
          /\ publications[ref].source = agent
          /\ publicationKeys' = Put(publicationKeys, Asked(r).key, ref)
          /\ Acknowledge(r)

\* It finds none.
NothingToReplay(r) ==
    /\ Bound(publicationKeys, Asked(r).key, Asked(r).definition.root) \notin DOMAIN publications
    /\ UNCHANGED publicationKeys

ReplayAgent(r) ==
    /\ At(r, "sent")
    /\ Asks(r, "agent")
    /\ Replay(r) \/ (NothingToReplay(r) /\ Continue(r, "new"))
    /\ UNCHANGED <<registry, toolKeys, publications, definitions, budgets, revoked,
                   serving, startupVars, runs, workerVars, deaths>>

\* The models of the catalog are installed, the agent compiles, and the result
\* builds in an empty store.  The registry only grows and never changes an
\* entry, so its reads are one step.
CompileAgent(r) ==
    LET agent == Asked(r).definition
        catalog == Catalog[request[r].host]
        compiles == /\ \A m \in DOMAIN catalog.models :
                          /\ m \in DOMAIN registry.models
                          /\ registry.models[m] = catalog.models[m]
                    /\ Compiles(catalog, registry, agent)
                    /\ Wellformed(Compile(catalog, registry, agent))
    IN /\ At(r, "new")
       /\ Asks(r, "agent")
       /\ IF compiles
          THEN request' = [request EXCEPT ![r].pc = "compiled",
                                          ![r].config = Compile(catalog, registry, agent)]
          ELSE Reject(r)
       /\ UNCHANGED <<publicationVars, definitions, budgets, revoked, serving,
                      startupVars, runs, workerVars, deaths>>

\* publish_configuration with a configuration of the host's own.
TrustConfiguration(r) ==
    /\ At(r, "sent")
    /\ Asks(r, "configuration")
    /\ Wellformed(Asked(r).definition)
    /\ request' = [request EXCEPT ![r].pc = "compiled", ![r].config = Asked(r).definition]
    /\ UNCHANGED <<publicationVars, definitions, budgets, revoked, serving,
                   startupVars, runs, workerVars, deaths>>

\* publish_configuration finds the key or the revision: the receipt is the old
\* one when the contents are the same.
PublishedBefore(r) ==
    LET config == request[r].config
        ref == Bound(publicationKeys, Asked(r).key, config.root)
    IN /\ ref \in DOMAIN publications
       /\ publications[ref] = config
       /\ publicationKeys' = Put(publicationKeys, Asked(r).key, ref)
       /\ Acknowledge(r)
       /\ UNCHANGED <<publications, definitions, budgets, calls>>

\* It commits a new revision: nobody runs that agent yet, and a build on a copy
\* of the store succeeds, whose definitions and budgets are kept.
PublishNew(r) ==
    LET config == request[r].config
    IN /\ Asked(r).key \notin DOMAIN publicationKeys
       /\ config.root \notin DOMAIN publications
       /\ ~HasRuns(config.root)
       /\ Builds(config)
       /\ KeepBuilt(config)
       /\ publications' = Put(publications, config.root, config)
       /\ publicationKeys' = Put(publicationKeys, Asked(r).key, config.root)
       /\ Acknowledge(r)

\* Mutant: the build is not staged, and what preceded the conflict stays.
PublishFailsHalfway(r) ==
    LET config == request[r].config
        ref == Bound(publicationKeys, Asked(r).key, config.root)
        items == Items(config)
        accepted == {k \in DOMAIN items : Accepts(k, items[k])}
    IN /\ IF ref \in DOMAIN publications
          THEN publications[ref] # config
          ELSE HasRuns(config.root) \/ ~Builds(config)
       /\ IF Asks(r, "agent") THEN Continue(r, "failed") ELSE Refuse(r)
       /\ definitions' = Merge(definitions, [k \in accepted |-> items[k]])
       /\ UNCHANGED <<publications, publicationKeys, budgets, calls>>

\* It fails, and the transaction leaves nothing behind.
PublishFails(r) ==
    LET config == request[r].config
        ref == Bound(publicationKeys, Asked(r).key, config.root)
    IN /\ IF ref \in DOMAIN publications
          THEN publications[ref] # config
          ELSE HasRuns(config.root) \/ ~Builds(config)
       /\ IF Asks(r, "agent") THEN Continue(r, "failed") ELSE Refuse(r)
       /\ UNCHANGED <<publications, publicationKeys, definitions, budgets, calls>>

CommitConfiguration(r) ==
    /\ At(r, "compiled")
    /\ PublishedBefore(r) \/ PublishNew(r) \/ PublishFails(r)
    /\ UNCHANGED <<registry, toolKeys, revoked, serving, startupVars, runs,
                   executor, cache, deaths>>

\* Mutant: the failure is the answer.
NoReplayAfterFailure(r) ==
    /\ At(r, "failed")
    /\ Refuse(r)
    /\ UNCHANGED <<publicationVars, definitions, budgets, revoked,
                   serving, startupVars, runs, workerVars, deaths>>

\* publish_customer_agent looks again: a concurrent identical request may have
\* been compiled by a host with other defaults.
ReplayAfterFailure(r) ==
    /\ At(r, "failed")
    /\ Replay(r) \/ (NothingToReplay(r) /\ Refuse(r))
    /\ UNCHANGED <<registry, toolKeys, publications, definitions, budgets, revoked,
                   serving, startupVars, runs, workerVars, deaths>>

\* A host dies with the requests it was working on; their customers get no
\* answer.  One that dies idle loses nothing.
HostDies(h) ==
    /\ h \in serving
    /\ \E r \in Requests : request[r].host = h
    /\ deaths < MaxDeaths
    /\ deaths' = deaths + 1
    /\ serving' = serving \ {h}
    /\ request' = [r \in Requests |->
          IF request[r].host = h
          THEN Waiting("idle", NoBody) ELSE request[r]]
    /\ UNCHANGED <<publicationVars, definitions, budgets, revoked,
                   startupVars, runs, workerVars>>

(***************************************************************************)
(* The trusted host builds its configuration: the same definitions, each   *)
(* in a transaction of its own.  The tools and policies of an agent      *)
(* precede it, and its bindings follow it; the budget is opened before the *)
(* first of them.                                                          *)
(***************************************************************************)
Order == <<"agent", "coordination", "memory", "context", "transport">>
Rank(k) ==
    IF k[3] \in {"definition", "binding"} /\ \E i \in DOMAIN Order : Order[i] = k[1]
    THEN CHOOSE i \in DOMAIN Order : Order[i] = k[1]
    ELSE 0
Precedes(k, l) ==
    /\ k[2] \in {l[2], "configured-subagents"}
    /\ Rank(k) < Rank(l)

EnsureNext ==
    LET items == Items(Startup)
    IN \E k \in DOMAIN items \ ensured :
        /\ startup = "building"
        /\ \A l \in DOMAIN items \ ensured : ~Precedes(l, k)
        /\ budgets' = Put(budgets, Startup.group, NewBudget(Startup))
        /\ calls' = Put(calls, Startup.group, 0)
        /\ IF OpensBudget(Startup) /\ Accepts(k, items[k])
           THEN /\ definitions' = Put(definitions, k, items[k])
                /\ ensured' = ensured \cup {k}
                /\ UNCHANGED startup
           ELSE /\ startup' = "failed"
                /\ UNCHANGED <<definitions, ensured>>
        /\ UNCHANGED <<publicationVars, revoked, requestVars, runs, executor, cache, deaths>>

\* Every definition is there: the host serves, and then somebody uses it.
StartupServes ==
    /\ \/ /\ startup = "building"
          /\ ensured = DOMAIN Items(Startup)
          /\ startup' = "serving"
       \/ /\ startup = "serving"
          /\ startup' = "used"
    /\ UNCHANGED <<publicationVars, definitions, budgets, revoked, requestVars, ensured,
                   runs, workerVars, deaths>>

\* set_policy with a policy nobody is allowed by.
Revoke(k) ==
    /\ k \in DOMAIN definitions \ revoked
    /\ definitions' = [definitions EXCEPT ![k].revoked = TRUE]
    /\ revoked' = revoked \cup {k}
    /\ UNCHANGED <<publicationVars, budgets, requestVars, startupVars, runs, workerVars, deaths>>

(***************************************************************************)
(* Runs of published agents.                                               *)
(***************************************************************************)

\* The configuration a submission under this key is executed with.
ConfigOf(ref, key) == ForSubmission(publications[ref], key)
RunConfig(k) == ConfigOf(runs[k].ref, k)

NewRun(ref) ==
    [ref |-> ref,
     agents |-> [n \in DOMAIN publications[ref].nodes |->
                    IF n = ref THEN "idle" ELSE "absent"]]

\* submit_published of a new key: the run and its budget in one transaction.
\* A known key answers with its run or conflicts, and changes nothing.
Submit(ref, key) ==
    /\ ref \in DOMAIN publications
    /\ key \notin DOMAIN runs
    /\ Builds(ConfigOf(ref, key))
    /\ KeepBuilt(ConfigOf(ref, key))
    /\ runs' = Put(runs, key, NewRun(ref))
    /\ UNCHANGED <<publicationVars, revoked, requestVars, startupVars, executor, cache, deaths>>

Doing(x, pc) == executor[x].pc = pc
Step(x, pc) == executor' = [executor EXCEPT ![x].pc = pc]
Rest(x) == executor' = [executor EXCEPT ![x] = AtRest]
Become(x, state) ==
    runs' = [runs EXCEPT ![executor[x].run].agents[executor[x].agent] = state]

\* PublishedWorker::tick, for a run that has not ended: the tree comes from the
\* cache, or is built in the live store, and another one is evicted when the
\* cache is full; an activity that still uses the evicted tree keeps it.  A tree
\* that does not build fails the activity, and everything is as before.  Which
\* run of a tree the workflow asks for is Delegation's subject: here, any.
Tick(x, k, n) ==
    /\ Doing(x, "idle")
    /\ runs[k].agents[n] \notin {"absent", "ended"}
    /\ \/ /\ k \in cache
          /\ UNCHANGED <<definitions, budgets, calls, cache>>
       \/ /\ k \notin cache
          /\ Builds(RunConfig(k))
          /\ KeepBuilt(RunConfig(k))
          /\ \/ Cardinality(cache) < CacheSize /\ cache' = cache \cup {k}
             \/ /\ Cardinality(cache) >= CacheSize
                /\ \E evicted \in cache : cache' = (cache \ {evicted}) \cup {k}
    /\ executor' = [executor EXCEPT ![x] = [pc |-> "holding", run |-> k, agent |-> n]]
    /\ UNCHANGED <<publicationVars, revoked, requestVars, startupVars, runs, deaths>>

\* Before it accepts a continuation or starts a workflow, an API host and the
\* scheduling pump build the tree as well, and drop it.
RebuildForAdmission(k) ==
    /\ Builds(RunConfig(k))
    /\ KeepBuilt(RunConfig(k))
    /\ UNCHANGED <<publicationVars, revoked, requestVars, startupVars, runs, executor, cache, deaths>>

\* The tick: a run whose call was abandoned fails, a run that another executor
\* owns is left alone, and an idle one is claimed.
Claim(x) ==
    LET state == runs[executor[x].run].agents[executor[x].agent]
    IN /\ Doing(x, "holding")
       /\ \/ state = "idle" /\ Become(x, "busy") /\ Step(x, "claimed")
          \/ state = "abandoned" /\ Become(x, "ended") /\ Rest(x)
          \/ state \in {"busy", "ended"} /\ UNCHANGED runs /\ Rest(x)
       /\ UNCHANGED <<publicationVars, definitions, budgets, revoked, requestVars, startupVars,
                      cache, calls, deaths>>

\* BudgetedModel::call admits the call before it is made; a call that is not
\* admitted fails, and with it the run.
Charge(x) ==
    LET g == RunConfig(executor[x].run).group
    IN /\ Doing(x, "claimed")
       /\ \/ /\ budgets[g].admitted < budgets[g].limit
             /\ budgets' = [budgets EXCEPT ![g].admitted = @ + 1]
             /\ Step(x, "charged")
             /\ UNCHANGED runs
          \/ /\ budgets[g].admitted >= budgets[g].limit
             /\ Become(x, "ended")
             /\ Rest(x)
             /\ UNCHANGED budgets
       /\ UNCHANGED <<publicationVars, definitions, revoked, requestVars, startupVars,
                      cache, calls, deaths>>

CallModel(x) ==
    /\ Doing(x, "charged")
    /\ calls' = [calls EXCEPT ![RunConfig(executor[x].run).group] = @ + 1]
    /\ Step(x, "answered")
    /\ UNCHANGED <<publicationVars, definitions, budgets, revoked, requestVars, startupVars,
                   runs, cache, deaths>>

\* The answer is saved: the run goes on, ends, or has delegated to an agent of
\* its tree.
SaveAnswer(x) ==
    LET k == executor[x].run
        n == executor[x].agent
    IN /\ Doing(x, "answered")
       /\ \/ Become(x, "idle")
          \/ Become(x, "ended")
          \/ \E kid \in publications[runs[k].ref].nodes[n].kids :
                /\ runs[k].agents[kid] = "absent"
                /\ runs' = [runs EXCEPT ![k].agents[n] = "idle", ![k].agents[kid] = "idle"]
       /\ Rest(x)
       /\ UNCHANGED <<publicationVars, definitions, budgets, revoked, requestVars, startupVars,
                      cache, calls, deaths>>

\* The worker dies with its activities and its cache.
WorkerDies ==
    /\ \E x \in Executors : ~Doing(x, "idle")
    /\ deaths < MaxDeaths
    /\ deaths' = deaths + 1
    /\ executor' = [x \in Executors |-> AtRest]
    /\ cache' = {}
    /\ UNCHANGED <<publicationVars, definitions, budgets, revoked, requestVars, startupVars,
                   runs, calls>>

\* Some activity claimed the run and is at its call.
Owned(k, n) ==
    \E x \in Executors :
        /\ executor[x].run = k
        /\ executor[x].agent = n
        /\ executor[x].pc \in {"claimed", "charged", "answered"}

\* The operator gives up the call of an executor that is gone.
Abandon(k, n) ==
    /\ runs[k].agents[n] = "busy"
    /\ ~Owned(k, n)
    /\ runs' = [runs EXCEPT ![k].agents[n] = "abandoned"]
    /\ UNCHANGED <<publicationVars, definitions, budgets, revoked, requestVars, startupVars,
                   workerVars, deaths>>

(***************************************************************************)
(* The system.                                                             *)
(***************************************************************************)
Execute(x) ==
    Claim(x) \/ Charge(x) \/ CallModel(x) \/ SaveAnswer(x)

Next ==
    \/ \E h \in Hosts : Install(h) \/ HostDies(h)
    \/ \E r \in Requests :
          \/ \E h \in Hosts : Send(r, h)
          \/ ReplayTool(r) \/ CheckTool(r) \/ CommitTool(r)
          \/ ReplayAgent(r) \/ CompileAgent(r) \/ TrustConfiguration(r)
          \/ CommitConfiguration(r) \/ ReplayAfterFailure(r)
    \/ EnsureNext \/ StartupServes
    \/ \E k \in Revocable : Revoke(k)
    \/ \E s \in Submissions : Submit(s.ref, s.key)
    \/ \E k \in DOMAIN runs : RebuildForAdmission(k)
    \/ \E k \in DOMAIN runs : \E n \in DOMAIN runs[k].agents :
          \/ Abandon(k, n)
          \/ \E x \in Executors : Tick(x, k, n)
    \/ \E x \in Executors : Execute(x)
    \/ WorkerDies

Spec == Init /\ [][Next]_vars

\* An activity that was started goes on, and the workflow of every run that has
\* not ended keeps asking for its next tick.
Offered == UNION {Bodies[r] : r \in Requests}
Trees == {body.definition : body \in {b \in Offered : b.kind # "tool"}}
Members(s) == UNION {DOMAIN tree.nodes : tree \in {t \in Trees : t.root = s.ref}}
Ticks(k, n) ==
    /\ k \in DOMAIN runs
    /\ n \in DOMAIN runs[k].agents
    /\ \E x \in Executors : Tick(x, k, n)
Fairness ==
    /\ \A x \in Executors : WF_vars(Execute(x))
    /\ \A s \in Submissions : \A n \in Members(s) : SF_vars(Ticks(s.key, n))
FairSpec == Spec /\ Fairness

(***************************************************************************)
(* Properties.                                                             *)
(***************************************************************************)

\* The revision, or tool, an answered request named holds what its customer
\* sent, for ever.
Honoured(r) ==
    LET body == Asked(r)
    IN IF body.kind = "tool"
       THEN /\ body.key \in DOMAIN toolKeys
            /\ registry.tools[toolKeys[body.key]].definition = body.definition
       ELSE /\ body.key \in DOMAIN publicationKeys
            /\ LET config == publications[publicationKeys[body.key]]
               IN body.definition \in {config, config.source}

\* Publishing is idempotent and immutable: what a receipt was given for stays
\* published as it was sent, and no host finds that an identical request
\* conflicts with it, even when the two hosts fill in different defaults and
\* publish at once.  (A host that lacks a model or a connection still rejects.)
AnswersAgree ==
    [][\A r \in Requests :
          /\ request'[r].pc = "published" => Honoured(r)'
          /\ \A q \in Requests :
                (Asked(r) = Asked(q) /\ At(q, "published") /\ ~At(r, "refused"))
                    => request'[r].pc # "refused"]_vars

\* The store holds every definition a published revision was frozen with, as it
\* was frozen or revoked since, whatever another publication or the startup host
\* does meanwhile; and nothing else: a publication or a submission that fails
\* leaves no definition and no budget behind.
Frozen(config) ==
    LET items == Items(config)
    IN \A k \in DOMAIN items :
          /\ k \in DOMAIN definitions
          /\ \/ definitions[k] = items[k]
             \/ k \in revoked /\ definitions[k].revoked
Opened ==
    {publications[ref] : ref \in DOMAIN publications} \cup {RunConfig(k) : k \in DOMAIN runs}
DefinitionsMatch ==
    /\ \A config \in Opened :
          /\ Frozen(config)
          /\ config.group \in DOMAIN budgets
          /\ budgets[config.group].limit = config.calls
    /\ DOMAIN definitions =
          ensured \cup UNION {DOMAIN Items(config) : config \in Opened}
    /\ DOMAIN budgets =
          {config.group : config \in Opened}
          \cup (IF startup = "building" /\ ensured = {} THEN {} ELSE {Startup.group})
    /\ \A k \in revoked : definitions[k].revoked

\* The model provider never gets more calls for one submission than its budget,
\* counted across the agents of its tree, the activities that run them, trees
\* built again and a worker that died.
WithinBudget ==
    \A g \in DOMAIN budgets :
        /\ calls[g] <= budgets[g].admitted
        /\ budgets[g].admitted <= budgets[g].limit

\* Every submitted run ends (there are finitely many), unless one of its policies
\* was revoked, so that its tree cannot be built again, or a call of the worker
\* that died waits for the decision of an operator.
Stranded(k, n) == runs[k].agents[n] = "busy" /\ ~Owned(k, n)
Over(k) ==
    \/ runs[k].agents[runs[k].ref] = "ended"
    \/ revoked \cap DOMAIN Items(RunConfig(k)) # {}
    \/ Stranded(k, runs[k].ref)
PublishedRunEnds == []<>(\A k \in DOMAIN runs : Over(k))
=============================================================================
