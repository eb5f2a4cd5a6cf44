-------------------------- MODULE PublicationProofs --------------------------
(***************************************************************************)
(* What is proved of Publication, for any hosts, catalogs and requests,    *)
(* any activities and cache, and any number of deaths: the model provider  *)
(* is never called more often than a submission may, the store holds what  *)
(* was published and nothing else, and identical requests agree.           *)
(*                                                                         *)
(* The three need more than themselves, because what a host does with a    *)
(* request it commits many steps after it read the store.  Requested: a    *)
(* request in progress holds what its customer sent, and what its host     *)
(* compiled is a configuration.  Submitted, Working: a run goes on naming  *)
(* the revision it was submitted for.  BudgetInv: its group was opened by  *)
(* its submission, and counts every call that was made or will be.         *)
(* MatchInv: the store holds what a revision or a run needs.  Registered,  *)
(* Progresses: a key names something published, and a request that came    *)
(* this far found what its next step relies on.                            *)
(***************************************************************************)
EXTENDS Publication, FiniteSetTheorems, TLAPS

(***************************************************************************)
(* The maps of the store.                                                  *)
(***************************************************************************)
LEMMA MergeDomain ==
    ASSUME NEW old, NEW new
    PROVE  DOMAIN Merge(old, new) = DOMAIN old \cup DOMAIN new
BY DEF Merge

LEMMA MergeKeeps ==
    ASSUME NEW old, NEW new, NEW k \in DOMAIN old
    PROVE  Merge(old, new)[k] = old[k]
BY DEF Merge

LEMMA MergeNew ==
    ASSUME NEW old, NEW new, NEW k \in DOMAIN new, k \notin DOMAIN old
    PROVE  Merge(old, new)[k] = new[k]
BY DEF Merge

LEMMA PutDomain ==
    ASSUME NEW f, NEW key, NEW v
    PROVE  DOMAIN Put(f, key, v) = DOMAIN f \cup {key}
BY DEF Put, Merge

LEMMA PutKeeps ==
    ASSUME NEW f, NEW key, NEW v, NEW k \in DOMAIN f
    PROVE  Put(f, key, v)[k] = f[k]
BY DEF Put, Merge

LEMMA PutNew ==
    ASSUME NEW f, NEW key, NEW v, key \notin DOMAIN f
    PROVE  Put(f, key, v)[key] = v
BY DEF Put, Merge

(***************************************************************************)
(* The requests.  A request that a host works on holds what its customer   *)
(* sent, and one that was compiled a configuration with a limit.           *)
(***************************************************************************)
Sound(r, q) ==
    /\ DOMAIN q = {"pc", "body", "host", "config"}
    /\ q.pc \in {"sent", "new", "checked", "compiled", "failed"} =>
          q.body \in Bodies[r] /\ q.host \in Hosts
    /\ q.pc = "compiled" => IsConfig(q.config)

Requested ==
    /\ request = [r \in Requests |-> request[r]]
    /\ \A r \in Requests : Sound(r, request[r])

LEMMA RequestWritten ==
    ASSUME NEW r \in Requests, NEW next, Requested, Sound(r, next),
           request' = [request EXCEPT ![r] = next]
    PROVE  Requested'
<1>1. /\ request' = [q \in Requests |-> request'[q]]
      /\ request'[r] = next
      /\ \A q \in Requests : q # r => request'[q] = request[q]
  BY DEF Requested
<1> QED
  BY <1>1 DEF Requested, Sound

LEMMA RequestContinues ==
    ASSUME NEW r \in Requests, NEW pc \in {"new", "checked", "failed"}, Requested,
           request[r].pc \in {"sent", "new", "checked", "compiled", "failed"}, Continue(r, pc)
    PROVE  Requested'
<1> DEFINE next == [request[r] EXCEPT !.pc = pc]
<1>1. Sound(r, request[r])
  BY DEF Requested
<1>2. /\ DOMAIN next = {"pc", "body", "host", "config"} /\ next.pc = pc
      /\ next.body = request[r].body /\ next.host = request[r].host
  BY <1>1 DEF Sound
<1>3. request' = [request EXCEPT ![r] = next]
  BY DEF Continue
<1> HIDE DEF next
<1>4. Sound(r, next)
  BY <1>1, <1>2 DEF Sound
<1> QED
  BY <1>3, <1>4, RequestWritten

LEMMA RequestAnswered ==
    ASSUME NEW r \in Requests, Requested, Acknowledge(r) \/ Refuse(r) \/ Reject(r)
    PROVE  Requested'
<1>1. PICK pc \in {"published", "refused", "rejected"} :
          \E body : request' = [request EXCEPT ![r] = Waiting(pc, body)]
  BY Zenon DEF Acknowledge, Refuse, Reject
<1>2. PICK body : request' = [request EXCEPT ![r] = Waiting(pc, body)]
  BY <1>1
<1>3. Sound(r, Waiting(pc, body))
  BY DEF Sound, Waiting
<1> QED
  BY <1>2, <1>3, RequestWritten

LEMMA RequestInit == Init => Requested
BY DEF Init, Requested, Sound, Waiting

LEMMA RequestStep == Requested /\ [Next]_vars => Requested'
<1> SUFFICES ASSUME Requested, [Next]_vars PROVE Requested'
  OBVIOUS
<1>0. ASSUME NEW r \in Requests PROVE Sound(r, request[r])
  BY DEF Requested
<1>1. CASE UNCHANGED request
  BY <1>1 DEF Requested, Sound
<1>2. ASSUME NEW r \in Requests, NEW h \in Hosts, Send(r, h) PROVE Requested'
  <2>1. PICK body \in Bodies[r] :
            request' = [request EXCEPT ![r] = [pc |-> "sent", body |-> body, host |-> h,
                                               config |-> NoConfig]]
    BY <1>2 DEF Send
  <2>2. Sound(r, [pc |-> "sent", body |-> body, host |-> h, config |-> NoConfig])
    BY DEF Sound
  <2> QED
    BY <2>1, <2>2, RequestWritten
<1>3. ASSUME NEW r \in Requests, Replay(r) PROVE Requested'
  BY <1>3, RequestAnswered DEF Replay
<1>4. ASSUME NEW r \in Requests, ReplayTool(r) PROVE Requested'
  <2>1. At(r, "sent") /\ (Continue(r, "new") \/ Refuse(r) \/ Acknowledge(r))
    BY <1>4 DEF ReplayTool
  <2> QED
    BY <2>1, RequestContinues, RequestAnswered DEF At
<1>5. ASSUME NEW r \in Requests, CheckTool(r) PROVE Requested'
  <2>1. At(r, "new") /\ (Continue(r, "checked") \/ Reject(r))
    BY <1>5 DEF CheckTool
  <2> QED
    BY <2>1, RequestContinues, RequestAnswered DEF At
<1>6. ASSUME NEW r \in Requests, CommitTool(r) PROVE Requested'
  BY <1>6, RequestAnswered DEF CommitTool
<1>7. ASSUME NEW r \in Requests, ReplayAgent(r) PROVE Requested'
  <2>1. At(r, "sent") /\ (Replay(r) \/ Continue(r, "new"))
    BY <1>7 DEF ReplayAgent
  <2> QED
    BY <1>3, <2>1, RequestContinues, Zenon DEF At
<1>8. ASSUME NEW r \in Requests, NEW config, IsConfig(config),
             request[r].pc \in {"sent", "new"},
             request' = [request EXCEPT ![r].pc = "compiled", ![r].config = config]
      PROVE  Requested'
  <2> DEFINE next == [request[r] EXCEPT !.pc = "compiled", !.config = config]
  <2>1. request' = [request EXCEPT ![r] = next]
    BY <1>8 DEF Requested
  <2>2. /\ DOMAIN next = {"pc", "body", "host", "config"} /\ next.pc = "compiled"
        /\ next.body = request[r].body /\ next.host = request[r].host /\ next.config = config
    BY <1>0 DEF Sound
  <2> HIDE DEF next
  <2>3. Sound(r, next)
    BY <1>0, <1>8, <2>2 DEF Sound
  <2> QED
    BY <2>1, <2>3, RequestWritten
<1>9. ASSUME NEW r \in Requests, CompileAgent(r) PROVE Requested'
  <2> DEFINE agent == Asked(r).definition
             catalog == Catalog[request[r].host]
             config == Compile(catalog, registry, agent)
  <2>1. At(r, "new") /\ Asks(r, "agent")
    BY <1>9 DEF CompileAgent
  <2>2. CASE Reject(r)
    BY <2>2, RequestAnswered
  <2>3. CASE request' = [request EXCEPT ![r].pc = "compiled", ![r].config = config]
    <3>1. request[r].body \in Bodies[r] /\ request[r].host \in Hosts
      BY <1>0, <2>1 DEF At, Sound
    <3>2. agent.root \in DOMAIN agent.nodes /\ agent.nodes[agent.root].budget \in Nat
      BY <2>1, <3>1, OfferedAssumption DEF Asks, Asked
    <3>3. catalog.calls \in Nat
      BY <3>1, PublicationAssumption
    <3> HIDE DEF agent, catalog
    <3>4. IsConfig(config)
      BY <3>2, <3>3 DEF IsConfig, Compile, Default
    <3> HIDE DEF config
    <3> QED
      BY <1>8, <2>1, <2>3, <3>4 DEF At
  <2> QED
    BY <1>9, <2>2, <2>3 DEF CompileAgent
<1>10. ASSUME NEW r \in Requests, TrustConfiguration(r) PROVE Requested'
  <2>1. At(r, "sent") /\ Asks(r, "configuration")
    BY <1>10 DEF TrustConfiguration
  <2>2. request' = [request EXCEPT ![r].pc = "compiled", ![r].config = Asked(r).definition]
    BY <1>10 DEF TrustConfiguration
  <2>3. IsConfig(Asked(r).definition)
    BY <1>0, <2>1, OfferedAssumption DEF At, Sound, Asks, Asked
  <2> QED
    BY <1>8, <2>1, <2>2, <2>3 DEF At
<1>11. ASSUME NEW r \in Requests, CommitConfiguration(r) PROVE Requested'
  <2>1. At(r, "compiled") /\ (Acknowledge(r) \/ Continue(r, "failed") \/ Refuse(r))
    BY <1>11 DEF CommitConfiguration, PublishedBefore, PublishNew, PublishFails
  <2> QED
    BY <2>1, RequestContinues, RequestAnswered DEF At
<1>12. ASSUME NEW r \in Requests, ReplayAfterFailure(r) PROVE Requested'
  BY <1>3, <1>12, RequestAnswered, Zenon DEF ReplayAfterFailure
<1>13. ASSUME NEW h \in Hosts, HostDies(h) PROVE Requested'
  <2>1. request' = [r \in Requests |-> IF request[r].host = h THEN Waiting("idle", NoBody)
                                                              ELSE request[r]]
    BY <1>13 DEF HostDies
  <2>2. \A r \in Requests : Sound(r, Waiting("idle", NoBody))
    BY DEF Sound, Waiting
  <2>3. \A r \in Requests : Sound(r, request'[r])
    BY <1>0, <2>1, <2>2
  <2>4. request' = [r \in Requests |-> request'[r]]
    BY <2>1
  <2> QED
    BY <2>3, <2>4 DEF Requested
<1>14. ASSUME NEW h, Install(h) PROVE UNCHANGED request
  BY <1>14 DEF Install
<1>15. ASSUME EnsureNext \/ StartupServes \/ WorkerDies PROVE UNCHANGED request
  BY <1>15 DEF EnsureNext, StartupServes, WorkerDies, requestVars
<1>16. ASSUME NEW k, Revoke(k) \/ RebuildForAdmission(k) PROVE UNCHANGED request
  BY <1>16 DEF Revoke, RebuildForAdmission, requestVars
<1>17. ASSUME NEW ref, NEW k, Submit(ref, k) PROVE UNCHANGED request
  BY <1>17 DEF Submit, requestVars
<1>18. ASSUME NEW k, NEW n, Abandon(k, n) PROVE UNCHANGED request
  BY <1>18 DEF Abandon, requestVars
<1>19. ASSUME NEW x, NEW k, NEW n, Tick(x, k, n) PROVE UNCHANGED request
  BY <1>19 DEF Tick, requestVars
<1>20. ASSUME NEW x, Execute(x) PROVE UNCHANGED request
  BY <1>20 DEF Execute, Claim, Charge, CallModel, SaveAnswer, requestVars
<1>21. UNCHANGED vars => UNCHANGED request
  BY DEF vars, requestVars
<1> QED
  BY <1>1, <1>2, <1>4, <1>5, <1>6, <1>7, <1>9, <1>10, <1>11, <1>12, <1>13, <1>14, <1>15,
     <1>16, <1>17, <1>18, <1>19, <1>20, <1>21 DEF Next

(***************************************************************************)
(* What was published and submitted stays: a revision is never replaced,   *)
(* and a run keeps naming the one it was submitted for, so that a run has  *)
(* one budget from its submission on.                                      *)
(***************************************************************************)
Submitted ==
    /\ \A ref \in DOMAIN publications : IsConfig(publications[ref])
    /\ \A k \in DOMAIN runs :
          /\ DOMAIN runs[k] = {"ref", "agents"}
          /\ runs[k].ref \in DOMAIN publications

WorkingOn(x, e) ==
    /\ DOMAIN e = {"pc", "run", "agent"}
    /\ e.pc # "idle" => e.run \in DOMAIN runs

Working ==
    /\ executor = [x \in Executors |-> executor[x]]
    /\ \A x \in Executors : WorkingOn(x, executor[x])

StoreGrows ==
    /\ DOMAIN publications \subseteq DOMAIN publications'
    /\ \A ref \in DOMAIN publications : publications'[ref] = publications[ref]
    /\ DOMAIN runs \subseteq DOMAIN runs'
    /\ \A k \in DOMAIN runs : runs'[k].ref = runs[k].ref

StoreGoesOn == StoreGrows /\ Submitted' /\ Working'

LEMMA ConfigsStay ==
    ASSUME Submitted, StoreGrows, NEW k \in DOMAIN runs
    PROVE  RunConfig(k)' = RunConfig(k)
<1>1. runs'[k].ref = runs[k].ref /\ runs[k].ref \in DOMAIN publications
  BY DEF Submitted, StoreGrows
<1>2. publications'[runs[k].ref] = publications[runs[k].ref]
  BY <1>1 DEF StoreGrows
<1> QED
  BY <1>1, <1>2 DEF RunConfig, ConfigOf

LEMMA SubmissionConfig ==
    ASSUME NEW config, IsConfig(config), NEW key
    PROVE  IsConfig(ForSubmission(config, key))
BY DEF IsConfig, ForSubmission

LEMMA RunConfigs ==
    ASSUME Submitted, NEW k \in DOMAIN runs
    PROVE  IsConfig(RunConfig(k))
BY SubmissionConfig DEF Submitted, RunConfig, ConfigOf

\* One activity moves, and the runs stay.
LEMMA ExecutorMoves ==
    ASSUME NEW x \in Executors, NEW next, Working, DOMAIN runs' = DOMAIN runs,
           WorkingOn(x, next), executor' = [executor EXCEPT ![x] = next]
    PROVE  /\ Working'
           /\ executor'[x] = next
           /\ \A y \in Executors : y # x => executor'[y] = executor[y]
<1>1. /\ executor' = [y \in Executors |-> executor'[y]]
      /\ executor'[x] = next
      /\ \A y \in Executors : y # x => executor'[y] = executor[y]
  BY DEF Working
<1> QED
  BY <1>1 DEF Working, WorkingOn

LEMMA ExecutorSteps ==
    ASSUME NEW x \in Executors, NEW pc, Working, executor[x].pc # "idle",
           DOMAIN runs' = DOMAIN runs, Step(x, pc)
    PROVE  /\ Working'
           /\ executor'[x].pc = pc /\ executor'[x].run = executor[x].run
           /\ \A y \in Executors : y # x => executor'[y] = executor[y]
<1> DEFINE next == [executor[x] EXCEPT !.pc = pc]
<1>1. WorkingOn(x, executor[x])
  BY DEF Working
<1>2. DOMAIN next = {"pc", "run", "agent"} /\ next.pc = pc /\ next.run = executor[x].run
  BY <1>1 DEF WorkingOn
<1>3. executor' = [executor EXCEPT ![x] = next]
  BY DEF Step
<1> HIDE DEF next
<1>4. WorkingOn(x, next)
  BY <1>1, <1>2 DEF WorkingOn
<1> QED
  BY <1>2, <1>3, <1>4, ExecutorMoves

LEMMA ExecutorRests ==
    ASSUME NEW x \in Executors, Working, DOMAIN runs' = DOMAIN runs, Rest(x)
    PROVE  /\ Working'
           /\ executor'[x].pc = "idle"
           /\ \A y \in Executors : y # x => executor'[y] = executor[y]
<1>1. WorkingOn(x, AtRest) /\ AtRest.pc = "idle"
  BY DEF WorkingOn, AtRest
<1> QED
  BY <1>1, ExecutorMoves DEF Rest

\* The agents of a run change their state.
LEMMA AgentsWritten ==
    ASSUME NEW k \in DOMAIN runs, NEW agents, Submitted, UNCHANGED publications,
           runs' = [runs EXCEPT ![k].agents = agents]
    PROVE  StoreGrows /\ Submitted' /\ DOMAIN runs' = DOMAIN runs
<1>1. DOMAIN runs' = DOMAIN runs /\ \A j \in DOMAIN runs : j # k => runs'[j] = runs[j]
  OBVIOUS
<1>2. runs'[k] = [runs[k] EXCEPT !.agents = agents]
  OBVIOUS
<1>3. DOMAIN runs'[k] = DOMAIN runs[k] /\ runs'[k].ref = runs[k].ref
  BY <1>2 DEF Submitted
<1> QED
  BY <1>1, <1>3 DEF StoreGrows, Submitted

LEMMA RunsRest ==
    ASSUME Submitted, UNCHANGED <<publications, runs>>
    PROVE  StoreGrows /\ Submitted' /\ DOMAIN runs' = DOMAIN runs
BY DEF Submitted, StoreGrows

LEMMA Becomes ==
    ASSUME NEW x \in Executors, NEW state, executor[x].run \in DOMAIN runs, Submitted,
           UNCHANGED publications, Become(x, state)
    PROVE  StoreGrows /\ Submitted' /\ DOMAIN runs' = DOMAIN runs
<1>1. PICK k : k = executor[x].run
  OBVIOUS
<1>2. runs' = [runs EXCEPT ![k].agents = [runs[k].agents EXCEPT ![executor[x].agent] = state]]
  BY <1>1 DEF Become
<1> QED
  BY <1>1, <1>2, AgentsWritten

LEMMA StoreInit == Init => Submitted /\ Working
<1> SUFFICES ASSUME Init PROVE Submitted /\ Working
  OBVIOUS
<1>1. Submitted
  BY DEF Init, Submitted, EmptyMap
<1>2. Working
  BY DEF Init, Working, WorkingOn, AtRest
<1> QED
  BY <1>1, <1>2

\* What each activity does to the runs and to itself.
LEMMA ExecuteGoesOn ==
    ASSUME NEW x \in Executors, Submitted, Working, Execute(x)
    PROVE  StoreGoesOn
<1>1. UNCHANGED publications /\ executor[x].pc # "idle"
  BY DEF Execute, Claim, Charge, CallModel, SaveAnswer, Doing, publicationVars
<1>2. executor[x].run \in DOMAIN runs
  BY <1>1 DEF Working, WorkingOn
<1>3. ASSUME StoreGrows /\ Submitted' /\ DOMAIN runs' = DOMAIN runs,
             Rest(x) \/ \E pc : Step(x, pc)
      PROVE  StoreGoesOn
  BY <1>1, <1>3, ExecutorRests, ExecutorSteps DEF StoreGoesOn
<1>4. CASE Claim(x)
  <2>1. UNCHANGED runs \/ \E state : Become(x, state)
    BY <1>4 DEF Claim
  <2>2. StoreGrows /\ Submitted' /\ DOMAIN runs' = DOMAIN runs
    BY <1>1, <1>2, <2>1, RunsRest, Becomes
  <2> QED
    BY <1>3, <1>4, <2>2 DEF Claim
<1>5. CASE Charge(x)
  <2>1. UNCHANGED runs \/ \E state : Become(x, state)
    BY <1>5 DEF Charge
  <2>2. StoreGrows /\ Submitted' /\ DOMAIN runs' = DOMAIN runs
    BY <1>1, <1>2, <2>1, RunsRest, Becomes
  <2> QED
    BY <1>3, <1>5, <2>2 DEF Charge
<1>6. CASE CallModel(x)
  BY <1>1, <1>3, <1>6, RunsRest DEF CallModel
<1>7. CASE SaveAnswer(x)
  <2>1. StoreGrows /\ Submitted' /\ DOMAIN runs' = DOMAIN runs
    <3>1. CASE \E state : Become(x, state)
      BY <1>1, <1>2, <3>1, Becomes
    <3>2. ASSUME NEW k, NEW n, NEW kid, k = executor[x].run,
                 runs' = [runs EXCEPT ![k].agents[n] = "idle", ![k].agents[kid] = "idle"]
          PROVE  StoreGrows /\ Submitted' /\ DOMAIN runs' = DOMAIN runs
      <4> DEFINE one == [runs[k].agents EXCEPT ![n] = "idle"]
                 both == [one EXCEPT ![kid] = "idle"]
      <4>1. \A j \in DOMAIN runs : DOMAIN runs[j] = {"ref", "agents"}
        BY DEF Submitted
      <4>2. runs' = [runs EXCEPT ![k].agents = both]
        BY <1>2, <3>2, <4>1
      <4> HIDE DEF both
      <4> QED
        BY <1>1, <1>2, <3>2, <4>2, AgentsWritten
    <3> QED
      BY <1>7, <3>1, <3>2 DEF SaveAnswer
  <2> QED
    BY <1>3, <1>7, <2>1 DEF SaveAnswer
<1> QED
  BY <1>4, <1>5, <1>6, <1>7 DEF Execute

LEMMA StoreStep ==
    Requested /\ Submitted /\ Working /\ [Next]_vars => StoreGoesOn
<1> SUFFICES ASSUME Requested, Submitted, Working, [Next]_vars PROVE StoreGoesOn
  OBVIOUS
<1>1. CASE UNCHANGED <<publications, runs, executor>>
  BY <1>1, RunsRest DEF StoreGoesOn, Working, WorkingOn
<1>2. ASSUME NEW r \in Requests, CommitConfiguration(r) PROVE StoreGoesOn
  <2>1. UNCHANGED <<runs, executor>>
    BY <1>2 DEF CommitConfiguration
  <2>2. CASE PublishNew(r)
    <3> DEFINE config == request[r].config
    <3>1. /\ publications' = Put(publications, config.root, config)
          /\ config.root \notin DOMAIN publications
      BY <2>2 DEF PublishNew
    <3>2. IsConfig(config)
      BY <1>2 DEF CommitConfiguration, At, Requested, Sound
    <3> HIDE DEF config
    <3>3. /\ DOMAIN publications' = DOMAIN publications \cup {config.root}
          /\ \A ref \in DOMAIN publications : publications'[ref] = publications[ref]
          /\ publications'[config.root] = config
      <4>1. DOMAIN publications' = DOMAIN publications \cup {config.root}
        BY <3>1, PutDomain
      <4>2. \A ref \in DOMAIN publications : publications'[ref] = publications[ref]
        BY <3>1, PutKeeps
      <4>3. publications'[config.root] = config
        BY <3>1, PutNew
      <4> QED
        BY <4>1, <4>2, <4>3
    <3>4. Submitted'
      BY <2>1, <3>2, <3>3 DEF Submitted
    <3>5. StoreGrows
      BY <2>1, <3>3 DEF StoreGrows
    <3> QED
      BY <2>1, <3>4, <3>5 DEF StoreGoesOn, Working, WorkingOn
  <2>3. CASE PublishedBefore(r) \/ PublishFails(r)
    BY <1>1, <2>1, <2>3 DEF PublishedBefore, PublishFails
  <2> QED
    BY <1>2, <2>2, <2>3 DEF CommitConfiguration
<1>3. ASSUME NEW ref, NEW key, Submit(ref, key) PROVE StoreGoesOn
  <2>1. /\ ref \in DOMAIN publications /\ key \notin DOMAIN runs
        /\ runs' = Put(runs, key, NewRun(ref))
        /\ UNCHANGED <<publications, executor>>
    BY <1>3 DEF Submit, publicationVars
  <2>2. /\ DOMAIN runs' = DOMAIN runs \cup {key}
        /\ \A k \in DOMAIN runs : runs'[k] = runs[k]
        /\ runs'[key] = NewRun(ref)
    <3>1. DOMAIN runs' = DOMAIN runs \cup {key}
      BY <2>1, PutDomain
    <3>2. \A k \in DOMAIN runs : runs'[k] = runs[k]
      BY <2>1, PutKeeps
    <3>3. runs'[key] = NewRun(ref)
      BY <2>1, PutNew
    <3> QED
      BY <3>1, <3>2, <3>3
  <2>3. DOMAIN NewRun(ref) = {"ref", "agents"} /\ NewRun(ref).ref = ref
    BY DEF NewRun
  <2>4. Submitted'
    BY <2>1, <2>2, <2>3 DEF Submitted
  <2>5. StoreGrows
    BY <2>1, <2>2 DEF StoreGrows
  <2>6. Working'
    BY <2>1, <2>2 DEF Working, WorkingOn
  <2> QED
    BY <2>4, <2>5, <2>6 DEF StoreGoesOn
<1>4. ASSUME NEW x \in Executors, NEW k \in DOMAIN runs, NEW n, Tick(x, k, n) PROVE StoreGoesOn
  <2>1. /\ executor' = [executor EXCEPT ![x] = [pc |-> "holding", run |-> k, agent |-> n]]
        /\ UNCHANGED <<publications, runs>>
    BY <1>4 DEF Tick, publicationVars
  <2>2. WorkingOn(x, [pc |-> "holding", run |-> k, agent |-> n])
    BY DEF WorkingOn
  <2> QED
    BY <2>1, <2>2, RunsRest, ExecutorMoves DEF StoreGoesOn
<1>5. CASE WorkerDies
  <2>1. executor' = [x \in Executors |-> AtRest] /\ UNCHANGED <<publications, runs>>
    BY <1>5 DEF WorkerDies, publicationVars
  <2>2. Working'
    BY <2>1 DEF Working, WorkingOn, AtRest
  <2> QED
    BY <2>1, <2>2, RunsRest DEF StoreGoesOn
<1>6. ASSUME NEW k \in DOMAIN runs, NEW n, Abandon(k, n) PROVE StoreGoesOn
  <2>1. UNCHANGED <<publications, executor>>
    BY <1>6 DEF Abandon, publicationVars, workerVars
  <2>2. runs' = [runs EXCEPT ![k].agents = [runs[k].agents EXCEPT ![n] = "abandoned"]]
    BY <1>6 DEF Abandon
  <2>3. StoreGrows /\ Submitted' /\ DOMAIN runs' = DOMAIN runs
    BY <2>1, <2>2, AgentsWritten
  <2> QED
    BY <2>1, <2>3 DEF StoreGoesOn, Working, WorkingOn
<1>7. ASSUME NEW r \in Requests,
             \/ \E h \in Hosts : Send(r, h)
             \/ ReplayTool(r) \/ CheckTool(r) \/ CommitTool(r)
             \/ ReplayAgent(r) \/ CompileAgent(r) \/ TrustConfiguration(r)
             \/ ReplayAfterFailure(r)
      PROVE  UNCHANGED <<publications, runs, executor>>
  BY <1>7 DEF Send, ReplayTool, CheckTool, CommitTool, ReplayAgent, CompileAgent,
              TrustConfiguration, ReplayAfterFailure, workerVars, publicationVars
<1>8. ASSUME NEW h, Install(h) \/ HostDies(h) PROVE UNCHANGED <<publications, runs, executor>>
  BY <1>8 DEF Install, HostDies, workerVars, publicationVars
<1>9. EnsureNext \/ StartupServes => UNCHANGED <<publications, runs, executor>>
  BY DEF EnsureNext, StartupServes, workerVars, publicationVars
<1>10. ASSUME NEW k, Revoke(k) \/ RebuildForAdmission(k)
       PROVE  UNCHANGED <<publications, runs, executor>>
  BY <1>10 DEF Revoke, RebuildForAdmission, workerVars, publicationVars
<1>11. UNCHANGED vars => UNCHANGED <<publications, runs, executor>>
  BY DEF vars, workerVars, publicationVars
<1> QED
  BY <1>1, <1>2, <1>3, <1>4, <1>5, <1>6, <1>7, <1>8, <1>9, <1>10, <1>11, ExecuteGoesOn DEF Next

(***************************************************************************)
(* The budgets.  A call is admitted before it is made: what the provider   *)
(* got, and what activities were admitted and have not yet called, is      *)
(* never more than what was admitted, and that is never more than the      *)
(* limit.  An activity that dies in between loses its call.                *)
(***************************************************************************)
RunGroups == \A k \in DOMAIN runs : RunConfig(k).group \in DOMAIN budgets

Budget == [limit : Nat, admitted : Nat]

Counted ==
    /\ DOMAIN calls = DOMAIN budgets
    /\ \A g \in DOMAIN budgets : budgets[g] \in Budget /\ calls[g] \in Nat

\* The activities that are about to call the model on this budget.
Charged(g) ==
    {x \in Executors : executor[x].pc = "charged" /\ RunConfig(executor[x].run).group = g}

SpentOf(g) ==
    /\ IsFiniteSet(Charged(g))
    /\ calls[g] + Cardinality(Charged(g)) <= budgets[g].admitted
    /\ budgets[g].admitted <= budgets[g].limit

Spent == \A g \in DOMAIN budgets : SpentOf(g)

BudgetInv == RunGroups /\ Counted /\ Spent

\* What a step that neither admits nor makes a call does to the budgets.
Opens(config) ==
    /\ budgets' = Put(budgets, config.group, NewBudget(config))
    /\ calls' = Put(calls, config.group, 0)

BudgetsGrow ==
    /\ Counted'
    /\ DOMAIN budgets \subseteq DOMAIN budgets'
    /\ \A g \in DOMAIN budgets : budgets'[g] = budgets[g] /\ calls'[g] = calls[g]
    /\ \A g \in DOMAIN budgets' \ DOMAIN budgets :
          budgets'[g].admitted = 0 /\ budgets'[g].limit \in Nat /\ calls'[g] = 0

NoNewCharge ==
    \A x \in Executors : executor'[x].pc = "charged" => executor'[x] = executor[x]

LEMMA OpeningGrows ==
    ASSUME Counted, NEW config, IsConfig(config), Opens(config)
    PROVE  BudgetsGrow /\ DOMAIN budgets' = DOMAIN budgets \cup {config.group}
<1>1. /\ DOMAIN budgets' = DOMAIN budgets \cup {config.group}
      /\ DOMAIN calls' = DOMAIN calls \cup {config.group}
  BY PutDomain DEF Opens
<1>2. \A g \in DOMAIN budgets : budgets'[g] = budgets[g]
  BY PutKeeps DEF Opens
<1>3. \A g \in DOMAIN calls : calls'[g] = calls[g]
  BY PutKeeps DEF Opens
<1>4. config.group \notin DOMAIN budgets => budgets'[config.group] = NewBudget(config)
  BY PutNew DEF Opens
<1>5. config.group \notin DOMAIN calls => calls'[config.group] = 0
  BY PutNew DEF Opens
<1>6. /\ NewBudget(config) \in Budget /\ NewBudget(config).admitted = 0
      /\ NewBudget(config).limit \in Nat
  BY DEF NewBudget, Budget, IsConfig
<1>7. DOMAIN calls = DOMAIN budgets
  BY DEF Counted
<1>8. Counted'
  BY <1>1, <1>2, <1>3, <1>4, <1>5, <1>6 DEF Counted
<1> QED
  BY <1>1, <1>2, <1>3, <1>4, <1>5, <1>6, <1>7, <1>8 DEF BudgetsGrow

LEMMA BudgetsRest ==
    ASSUME Counted, UNCHANGED <<budgets, calls>>
    PROVE  BudgetsGrow
BY DEF Counted, BudgetsGrow

\* Fewer activities are charged on a budget that is otherwise as it was.
LEMMA FewerCharged ==
    ASSUME NEW g \in DOMAIN budgets, Counted, SpentOf(g), Charged(g)' \subseteq Charged(g),
           budgets'[g] = budgets[g], calls'[g] = calls[g]
    PROVE  SpentOf(g)'
<1>1. /\ IsFiniteSet(Charged(g)') /\ Cardinality(Charged(g)') <= Cardinality(Charged(g))
      /\ Cardinality(Charged(g)) \in Nat /\ Cardinality(Charged(g)') \in Nat
  BY FS_Subset, FS_CardinalityType DEF SpentOf
<1>2. calls[g] \in Nat /\ budgets[g].admitted \in Nat
  BY DEF Counted, Budget
<1> QED
  BY <1>1, <1>2 DEF SpentOf

LEMMA GrowingKeepsSpent ==
    ASSUME Submitted, Working, BudgetInv, StoreGrows, BudgetsGrow, NoNewCharge
    PROVE  Spent'
<1>1. ASSUME NEW x \in Executors, executor'[x].pc = "charged"
      PROVE  /\ executor[x].pc = "charged" /\ executor'[x].run = executor[x].run
             /\ executor[x].run \in DOMAIN runs
             /\ RunConfig(executor[x].run)' = RunConfig(executor[x].run)
  <2>1. executor'[x] = executor[x]
    BY <1>1 DEF NoNewCharge
  <2>2. executor[x].run \in DOMAIN runs
    BY <1>1, <2>1 DEF Working, WorkingOn
  <2>3. PICK k : k = executor[x].run
    OBVIOUS
  <2>4. RunConfig(k)' = RunConfig(k)
    BY <2>2, <2>3, ConfigsStay
  <2>5. RunConfig(executor[x].run)' = RunConfig(k)'
    BY <2>1, <2>3 DEF RunConfig
  <2> QED
    BY <1>1, <2>1, <2>2, <2>3, <2>4, <2>5
<1>2. ASSUME NEW g \in DOMAIN budgets' PROVE SpentOf(g)'
  <2>1. Charged(g)' \subseteq Charged(g)
    BY <1>1 DEF Charged
  <2>2. CASE g \in DOMAIN budgets
    BY <2>1, <2>2, FewerCharged DEF BudgetInv, Spent, BudgetsGrow
  <2>3. CASE g \notin DOMAIN budgets
    <3>1. Charged(g)' = {}
      BY <1>1, <2>3 DEF Charged, BudgetInv, RunGroups
    <3>2. IsFiniteSet(Charged(g)') /\ Cardinality(Charged(g)') = 0
      BY <3>1, FS_EmptySet
    <3>3. budgets'[g].admitted = 0 /\ budgets'[g].limit \in Nat /\ calls'[g] = 0
      BY <2>3 DEF BudgetsGrow
    <3> QED
      BY <3>2, <3>3 DEF SpentOf
  <2> QED
    BY <2>2, <2>3
<1> QED
  BY <1>2 DEF Spent

\* The configurations of the runs do not depend on the activities.
LEMMA SameConfigs ==
    ASSUME UNCHANGED publications, DOMAIN runs' = DOMAIN runs,
           UNCHANGED runs, NEW k
    PROVE  RunConfig(k)' = RunConfig(k)
BY DEF RunConfig, ConfigOf

\* A call is admitted.
LEMMA AdmitKeepsSpent ==
    ASSUME NEW x \in Executors, NEW g, Working, BudgetInv,
           executor[x].pc = "claimed", g = RunConfig(executor[x].run).group,
           budgets[g].admitted < budgets[g].limit,
           budgets' = [budgets EXCEPT ![g].admitted = @ + 1],
           Step(x, "charged"), UNCHANGED <<publications, runs, calls>>
    PROVE  BudgetInv'
<1>1. g \in DOMAIN budgets
  BY DEF BudgetInv, RunGroups, Working, WorkingOn
<1>2. budgets[g] \in Budget /\ budgets[g].admitted \in Nat /\ budgets[g].limit \in Nat
  BY <1>1 DEF BudgetInv, Counted, Budget
<1> DEFINE more == [budgets[g] EXCEPT !.admitted = @ + 1]
<1>3. more \in Budget /\ more.admitted = budgets[g].admitted + 1 /\ more.limit = budgets[g].limit
  BY <1>2 DEF Budget
<1>4. budgets' = [budgets EXCEPT ![g] = more]
  OBVIOUS
<1> HIDE DEF more
<1>5. /\ DOMAIN budgets' = DOMAIN budgets /\ budgets'[g] = more
      /\ \A h \in DOMAIN budgets : h # g => budgets'[h] = budgets[h]
  BY <1>1, <1>4
<1>6. Counted'
  BY <1>3, <1>5 DEF BudgetInv, Counted
<1>7. RunGroups'
  BY <1>5, SameConfigs DEF BudgetInv, RunGroups
<1>8. /\ executor'[x].pc = "charged" /\ executor'[x].run = executor[x].run
      /\ \A y \in Executors : y # x => executor'[y] = executor[y]
  BY ExecutorSteps
<1>9. ASSUME NEW y \in Executors
      PROVE  RunConfig(executor[y].run)' = RunConfig(executor[y].run)
  <2>1. executor'[y].run = executor[y].run
    BY <1>8
  <2> QED
    BY <2>1 DEF RunConfig, ConfigOf
<1>10. ASSUME NEW h \in DOMAIN budgets, h # g PROVE SpentOf(h)'
  <2>1. Charged(h)' \subseteq Charged(h)
    BY <1>8, <1>9, <1>10 DEF Charged
  <2> QED
    BY <1>5, <1>10, <2>1, FewerCharged DEF BudgetInv, Spent
<1>11. SpentOf(g)'
  <2>1. Charged(g)' \subseteq Charged(g) \cup {x}
    BY <1>8, <1>9 DEF Charged
  <2>2. SpentOf(g) /\ Cardinality(Charged(g)) \in Nat /\ calls[g] \in Nat
    BY <1>1, FS_CardinalityType DEF BudgetInv, Spent, SpentOf, Counted
  <2>3. /\ IsFiniteSet(Charged(g) \cup {x})
        /\ Cardinality(Charged(g) \cup {x}) \in Nat
        /\ Cardinality(Charged(g) \cup {x}) <= Cardinality(Charged(g)) + 1
    <3>1. IsFiniteSet(Charged(g))
      BY <2>2 DEF SpentOf
    <3>2. /\ IsFiniteSet(Charged(g) \cup {x})
          /\ \/ Cardinality(Charged(g) \cup {x}) = Cardinality(Charged(g))
             \/ Cardinality(Charged(g) \cup {x}) = Cardinality(Charged(g)) + 1
      BY <3>1, FS_AddElement
    <3> QED
      BY <2>2, <3>2
  <2>4. /\ IsFiniteSet(Charged(g)') /\ Cardinality(Charged(g)') \in Nat
        /\ Cardinality(Charged(g)') <= Cardinality(Charged(g) \cup {x})
    BY <2>1, <2>3, FS_Subset, FS_CardinalityType
  <2> QED
    BY <1>2, <1>3, <1>5, <2>2, <2>3, <2>4 DEF SpentOf
<1> QED
  BY <1>5, <1>6, <1>7, <1>10, <1>11 DEF BudgetInv, Spent

\* An admitted call is made.
LEMMA CallKeepsSpent ==
    ASSUME NEW x \in Executors, Working, BudgetInv, CallModel(x)
    PROVE  BudgetInv'
<1>1. PICK g : g = RunConfig(executor[x].run).group
  OBVIOUS
<1>2. /\ executor[x].pc = "charged" /\ Step(x, "answered")
      /\ calls' = [calls EXCEPT ![g] = @ + 1]
      /\ UNCHANGED <<publications, runs, budgets>>
  BY <1>1 DEF CallModel, Doing, publicationVars
<1>3. g \in DOMAIN budgets /\ g \in DOMAIN calls /\ calls[g] \in Nat
  BY <1>1, <1>2 DEF BudgetInv, RunGroups, Counted, Working, WorkingOn
<1>4. /\ DOMAIN calls' = DOMAIN calls /\ calls'[g] = calls[g] + 1
      /\ \A h \in DOMAIN calls : h # g => calls'[h] = calls[h]
  BY <1>2, <1>3
<1>5. Counted'
  BY <1>2, <1>3, <1>4 DEF BudgetInv, Counted
<1>6. RunGroups'
  BY <1>2, SameConfigs DEF BudgetInv, RunGroups
<1>7. /\ executor'[x].pc = "answered"
      /\ \A y \in Executors : y # x => executor'[y] = executor[y]
      /\ \A y \in Executors : executor'[y].run = executor[y].run
  BY <1>2, ExecutorSteps
<1>8. ASSUME NEW y \in Executors
      PROVE  RunConfig(executor[y].run)' = RunConfig(executor[y].run)
  <2>1. executor'[y].run = executor[y].run
    BY <1>7
  <2> QED
    BY <1>2, <2>1 DEF RunConfig, ConfigOf
<1>9. \A h : Charged(h)' \subseteq Charged(h) \ {x}
  BY <1>7, <1>8 DEF Charged
<1>10. ASSUME NEW h \in DOMAIN budgets, h # g PROVE SpentOf(h)'
  <2>1. Charged(h)' \subseteq Charged(h)
    BY <1>9
  <2>2. h \in DOMAIN calls
    BY DEF BudgetInv, Counted
  <2> QED
    BY <1>2, <1>4, <1>10, <2>1, <2>2, FewerCharged DEF BudgetInv, Spent
<1>11. SpentOf(g)'
  <2>1. x \in Charged(g)
    BY <1>1, <1>2 DEF Charged
  <2>2. /\ SpentOf(g) /\ Cardinality(Charged(g)) \in Nat /\ budgets[g].admitted \in Nat
    BY <1>3, FS_CardinalityType DEF BudgetInv, Spent, SpentOf, Counted, Budget
  <2>3. /\ IsFiniteSet(Charged(g) \ {x})
        /\ Cardinality(Charged(g) \ {x}) = Cardinality(Charged(g)) - 1
    BY <2>1, <2>2, FS_RemoveElement DEF SpentOf
  <2>4. /\ IsFiniteSet(Charged(g)') /\ Cardinality(Charged(g)') \in Nat
        /\ Cardinality(Charged(g)') <= Cardinality(Charged(g) \ {x})
    BY <1>9, <2>3, FS_Subset, FS_CardinalityType
  <2> QED
    BY <1>2, <1>3, <1>4, <2>2, <2>3, <2>4 DEF SpentOf
<1> QED
  BY <1>2, <1>5, <1>6, <1>10, <1>11 DEF BudgetInv, Spent

LEMMA BudgetInit == Init => BudgetInv
BY DEF Init, BudgetInv, RunGroups, Counted, Spent, EmptyMap

\* A step that opens a budget, or none, and admits no call.
LEMMA OpeningKeepsBudgets ==
    ASSUME Submitted, Working, BudgetInv, StoreGrows, BudgetsGrow, NoNewCharge,
           DOMAIN runs' = DOMAIN runs
    PROVE  BudgetInv'
<1>1. Spent'
  BY GrowingKeepsSpent
<1>2. ASSUME NEW k \in DOMAIN runs PROVE RunConfig(k)'.group \in DOMAIN budgets'
  BY ConfigsStay DEF BudgetInv, RunGroups, BudgetsGrow
<1>3. RunGroups'
  BY <1>2 DEF RunGroups
<1> QED
  BY <1>1, <1>3 DEF BudgetInv, BudgetsGrow

LEMMA BudgetStep ==
    ASSUME Requested, Submitted, Working, BudgetInv, [Next]_vars
    PROVE  BudgetInv'
<1>1. StoreGrows
  BY StoreStep DEF StoreGoesOn
<1>2. Counted
  BY DEF BudgetInv
<1>3. ASSUME UNCHANGED executor PROVE NoNewCharge
  BY <1>3 DEF NoNewCharge
<1>4. ASSUME UNCHANGED <<runs, budgets, calls>>, NoNewCharge PROVE BudgetInv'
  BY <1>1, <1>2, <1>4, BudgetsRest, OpeningKeepsBudgets
<1>5. ASSUME NEW config, IsConfig(config), Opens(config), UNCHANGED runs, NoNewCharge
      PROVE  BudgetInv'
  BY <1>1, <1>2, <1>5, OpeningGrows, OpeningKeepsBudgets
<1>6. ASSUME NEW r \in Requests, CommitConfiguration(r) PROVE BudgetInv'
  <2>1. UNCHANGED <<runs, executor>>
    BY <1>6 DEF CommitConfiguration
  <2>2. CASE PublishNew(r)
    <3>1. IsConfig(request[r].config)
      BY <1>6 DEF CommitConfiguration, At, Requested, Sound
    <3>2. Opens(request[r].config)
      BY <2>2 DEF PublishNew, KeepBuilt, Opens
    <3> QED
      BY <1>3, <1>5, <2>1, <3>1, <3>2
  <2>3. CASE PublishedBefore(r) \/ PublishFails(r)
    BY <1>3, <1>4, <2>1, <2>3 DEF PublishedBefore, PublishFails
  <2> QED
    BY <1>6, <2>2, <2>3 DEF CommitConfiguration
<1>7. ASSUME EnsureNext PROVE BudgetInv'
  <2>1. Opens(Startup) /\ UNCHANGED <<runs, executor>>
    BY <1>7 DEF EnsureNext, Opens
  <2> QED
    BY <1>3, <1>5, <2>1, OfferedAssumption
<1>8. ASSUME NEW ref, NEW key, Submit(ref, key) PROVE BudgetInv'
  <2> DEFINE config == ConfigOf(ref, key)
  <2>1. /\ ref \in DOMAIN publications /\ key \notin DOMAIN runs
        /\ runs' = Put(runs, key, NewRun(ref))
        /\ UNCHANGED <<publications, executor>>
    BY <1>8 DEF Submit, publicationVars
  <2>2. IsConfig(config)
    BY <2>1, SubmissionConfig DEF Submitted, ConfigOf
  <2>3. Opens(config)
    BY <1>8 DEF Submit, KeepBuilt, Opens
  <2>4. RunConfig(key)' = config
    <3>1. runs'[key] = NewRun(ref)
      BY <2>1, PutNew
    <3> QED
      BY <2>1, <3>1 DEF RunConfig, ConfigOf, NewRun
  <2> HIDE DEF config
  <2>5. BudgetsGrow /\ DOMAIN budgets' = DOMAIN budgets \cup {config.group}
    BY <1>2, <2>2, <2>3, OpeningGrows
  <2>6. Spent'
    BY <1>1, <1>3, <2>1, <2>5, GrowingKeepsSpent
  <2>7. DOMAIN runs' = DOMAIN runs \cup {key}
    BY <2>1, PutDomain
  <2>8. ASSUME NEW k \in DOMAIN runs PROVE RunConfig(k)'.group \in DOMAIN budgets'
    BY <1>1, <2>5, ConfigsStay DEF BudgetInv, RunGroups
  <2>9. RunGroups'
    BY <2>4, <2>5, <2>7, <2>8 DEF RunGroups
  <2> QED
    BY <2>5, <2>6, <2>9 DEF BudgetInv, BudgetsGrow
<1>9. ASSUME NEW k \in DOMAIN runs, RebuildForAdmission(k) PROVE BudgetInv'
  <2>1. Opens(RunConfig(k)) /\ UNCHANGED <<runs, executor>>
    BY <1>9 DEF RebuildForAdmission, KeepBuilt, Opens
  <2> QED
    BY <1>3, <1>5, <2>1, RunConfigs
<1>10. ASSUME NEW x \in Executors, NEW k \in DOMAIN runs, NEW n, Tick(x, k, n) PROVE BudgetInv'
  <2>1. /\ executor' = [executor EXCEPT ![x] = [pc |-> "holding", run |-> k, agent |-> n]]
        /\ UNCHANGED runs
        /\ UNCHANGED <<budgets, calls>> \/ Opens(RunConfig(k))
    BY <1>10 DEF Tick, KeepBuilt, Opens
  <2>2. NoNewCharge
    BY <2>1 DEF NoNewCharge, Working
  <2> QED
    BY <1>4, <1>5, <2>1, <2>2, RunConfigs
<1>11. ASSUME WorkerDies PROVE BudgetInv'
  BY <1>4, <1>11 DEF WorkerDies, NoNewCharge, AtRest
<1>12. ASSUME NEW k \in DOMAIN runs, NEW n, Abandon(k, n) PROVE BudgetInv'
  <2>1. UNCHANGED <<budgets, calls, executor>> /\ DOMAIN runs' = DOMAIN runs
    BY <1>12 DEF Abandon, workerVars
  <2> QED
    BY <1>1, <1>2, <1>3, <2>1, BudgetsRest, OpeningKeepsBudgets
<1>13. ASSUME NEW x \in Executors, Execute(x) PROVE BudgetInv'
  <2>1. executor[x].pc # "idle" /\ executor[x].run \in DOMAIN runs /\ UNCHANGED publications
    BY <1>13 DEF Execute, Claim, Charge, CallModel, SaveAnswer, Doing, publicationVars,
                 Working, WorkingOn
  <2>2. ASSUME DOMAIN runs' = DOMAIN runs, UNCHANGED <<budgets, calls>>,
               Rest(x) \/ \E pc : pc # "charged" /\ Step(x, pc)
        PROVE  BudgetInv'
    <3>1. NoNewCharge
      BY <2>1, <2>2, ExecutorRests, ExecutorSteps DEF NoNewCharge
    <3> QED
      BY <1>1, <1>2, <2>2, <3>1, BudgetsRest, OpeningKeepsBudgets
  <2>3. CASE Claim(x)
    <3>1. /\ Rest(x) \/ Step(x, "claimed")
          /\ UNCHANGED runs \/ \E state : Become(x, state)
          /\ UNCHANGED <<budgets, calls>>
      BY <2>3 DEF Claim
    <3>2. DOMAIN runs' = DOMAIN runs
      BY <2>1, <3>1, Becomes
    <3> QED
      BY <2>2, <3>1, <3>2
  <2>4. CASE CallModel(x)
    BY <2>4, CallKeepsSpent
  <2>5. CASE SaveAnswer(x)
    <3>1. DOMAIN runs' = DOMAIN runs
      BY <2>5 DEF SaveAnswer, Become
    <3> QED
      BY <2>2, <2>5, <3>1 DEF SaveAnswer
  <2>6. CASE Charge(x)
    <3>1. PICK g : g = RunConfig(executor[x].run).group
      OBVIOUS
    <3>2. CASE /\ budgets[g].admitted < budgets[g].limit
               /\ budgets' = [budgets EXCEPT ![g].admitted = @ + 1]
               /\ Step(x, "charged") /\ UNCHANGED runs
      <4>1. executor[x].pc = "claimed" /\ UNCHANGED <<publications, calls>>
        BY <2>6 DEF Charge, Doing, publicationVars
      <4> QED
        BY <3>1, <3>2, <4>1, AdmitKeepsSpent
    <3>3. CASE Become(x, "ended") /\ Rest(x) /\ UNCHANGED <<budgets, calls>>
      BY <2>1, <2>2, <3>3, Becomes
    <3> QED
      BY <2>6, <3>1, <3>2, <3>3 DEF Charge
  <2> QED
    BY <1>13, <2>3, <2>4, <2>5, <2>6 DEF Execute
<1>14. ASSUME NEW r \in Requests,
             \/ \E h \in Hosts : Send(r, h)
             \/ ReplayTool(r) \/ CheckTool(r) \/ CommitTool(r)
             \/ ReplayAgent(r) \/ CompileAgent(r) \/ TrustConfiguration(r)
             \/ ReplayAfterFailure(r)
       PROVE  UNCHANGED <<runs, executor, budgets, calls>>
  BY <1>14 DEF Send, ReplayTool, CheckTool, CommitTool, ReplayAgent, CompileAgent,
               TrustConfiguration, ReplayAfterFailure, workerVars
<1>15. ASSUME NEW h, Install(h) \/ HostDies(h) PROVE UNCHANGED <<runs, executor, budgets, calls>>
  BY <1>15 DEF Install, HostDies, workerVars
<1>16. ASSUME StartupServes \/ (\E k \in Revocable : Revoke(k)) \/ UNCHANGED vars
       PROVE  UNCHANGED <<runs, executor, budgets, calls>>
  BY <1>16 DEF StartupServes, Revoke, workerVars, vars
<1> QED
  BY <1>3, <1>4, <1>6, <1>7, <1>8, <1>9, <1>10, <1>11, <1>12, <1>13, <1>14, <1>15, <1>16 DEF Next

\* The model provider never gets more calls for one submission than its budget:
\* BudgetedModel::call admits each one before it is made, whichever agents of the
\* tree, activities or rebuilt trees ask, and whoever died in between.
THEOREM BudgetIsNeverExceeded == Spec => []WithinBudget
<1> DEFINE IInv == Requested /\ Submitted /\ Working /\ BudgetInv
<1>1. Init => IInv
  BY RequestInit, StoreInit, BudgetInit
<1>2. IInv /\ [Next]_vars => IInv'
  BY RequestStep, StoreStep, BudgetStep DEF StoreGoesOn
<1>3. IInv => WithinBudget
  <2> SUFFICES ASSUME BudgetInv, NEW g \in DOMAIN budgets
               PROVE  calls[g] <= budgets[g].admitted /\ budgets[g].admitted <= budgets[g].limit
    BY DEF WithinBudget
  <2>1. /\ SpentOf(g) /\ Cardinality(Charged(g)) \in Nat
        /\ calls[g] \in Nat /\ budgets[g].admitted \in Nat
    BY FS_CardinalityType DEF BudgetInv, Spent, SpentOf, Counted, Budget
  <2> QED
    BY <2>1 DEF SpentOf
<1> QED
  BY <1>1, <1>2, <1>3, PTL DEF Spec

(***************************************************************************)
(* The definitions.  A policy can be revoked, so every definition under    *)
(* the key of one says whether it is; the startup host has opened its      *)
(* budget once it ensured anything.                                        *)
(***************************************************************************)
Pairs(config, n) ==
    LET node == config.nodes[n]
    IN MemoryItems(n, node) \cup ContextItems(n, node)
       \cup ToolItems(n, node, "mcp") \cup ToolItems(n, node, "http")
       \cup DelegationItems(node) \cup AgentItems(n, node)

IsItem(p) == p[1][1] = "policy" => "revoked" \in DOMAIN p[2]

LEMMA ItemsOfPairs ==
    ASSUME NEW config
    PROVE  Items(config) = AsFunction(UNION {Pairs(config, n) : n \in DOMAIN config.nodes})
BY DEF Items, Pairs

LEMMA PairsAreItems ==
    ASSUME NEW config, NEW n, NEW p \in Pairs(config, n)
    PROVE  IsItem(p)
<1> DEFINE node == config.nodes[n]
<1>1. \A a : "revoked" \in DOMAIN PolicyValue(a)
  BY DEF PolicyValue
<1>2. \A a, name : IsItem(<<PolicyKey(a, name), PolicyValue(FALSE)>>)
                   /\ IsItem(<<PolicyKey(a, name), PolicyValue(TRUE)>>)
  BY <1>1 DEF IsItem
<1>3. \A kind, a, name, v : kind # "policy" => IsItem(<<<<kind, a, name>>, v>>)
  BY DEF IsItem
<1> HIDE DEF node
<1>4. CASE p \in MemoryItems(n, node)
  BY <1>2, <1>3, <1>4, Zenon DEF MemoryItems
<1>5. CASE p \in ContextItems(n, node)
  BY <1>2, <1>3, <1>5, Zenon DEF ContextItems
<1>6. ASSUME NEW transport, p \in ToolItems(n, node, transport) PROVE IsItem(p)
  BY <1>1, <1>6 DEF ToolItems, PolicyKey, IsItem
<1>7. CASE p \in DelegationItems(node)
  BY <1>2, <1>3, <1>7, Zenon DEF DelegationItems
<1>8. CASE p \in AgentItems(n, node)
  <2>1. PICK text, value :
           \/ p = <<<<"agent", n, "definition">>, text>>
           \/ p \in {<<<<kind, n, "binding">>, value>> :
                        kind \in {"memory", "context", "transport", "coordination"}}
    <3>1. CASE p = <<<<"coordination", n, "binding">>, TRUE>>
      BY <3>1
    <3>2. CASE p # <<<<"coordination", n, "binding">>, TRUE>>
      BY <1>8, <3>2 DEF AgentItems
    <3> QED
      BY <3>1, <3>2
  <2>2. PICK kind, name, v : kind # "policy" /\ p = <<<<kind, n, name>>, v>>
    BY <2>1
  <2> QED
    BY <1>3, <2>2
<1> QED
  BY <1>4, <1>5, <1>6, <1>7, <1>8 DEF Pairs, node

LEMMA FunctionOfPairs ==
    ASSUME NEW pairs, NEW k \in DOMAIN AsFunction(pairs)
    PROVE  \E p \in pairs : p[1] = k /\ AsFunction(pairs)[k] = p[2]
BY DEF AsFunction

LEMMA ItemPolicies ==
    ASSUME NEW config, NEW k \in DOMAIN Items(config), k[1] = "policy"
    PROVE  "revoked" \in DOMAIN Items(config)[k]
<1> DEFINE pairs == UNION {Pairs(config, n) : n \in DOMAIN config.nodes}
<1>1. PICK p \in pairs : p[1] = k /\ Items(config)[k] = p[2]
  BY ItemsOfPairs, FunctionOfPairs
<1>2. IsItem(p)
  BY PairsAreItems
<1> QED
  BY <1>1, <1>2 DEF IsItem

LEMMA SomeItem ==
    ASSUME NEW config, IsConfig(config)
    PROVE  DOMAIN Items(config) # {}
<1>1. PICK n \in DOMAIN config.nodes : TRUE
  BY DEF IsConfig
<1>2. <<<<"memory", n, "binding">>, config.nodes[n].memory>> \in Pairs(config, n)
  BY DEF Pairs, AgentItems
<1> QED
  BY <1>2, ItemsOfPairs DEF AsFunction

Policies ==
    /\ \A k \in DOMAIN definitions : k[1] = "policy" => "revoked" \in DOMAIN definitions[k]
    /\ revoked \subseteq DOMAIN definitions
    /\ ensured \subseteq DOMAIN Items(Startup)
    /\ startup \in {"serving", "used"} => ensured # {}

(***************************************************************************)
(* DefinitionsMatch, in parts.                                             *)
(***************************************************************************)
Matched(config) ==
    /\ Frozen(config)
    /\ config.group \in DOMAIN budgets
    /\ budgets[config.group].limit = config.calls

OpenedMatch == \A config \in Opened : Matched(config)
NothingElse ==
    DOMAIN definitions = ensured \cup UNION {DOMAIN Items(config) : config \in Opened}
StartupGroup == IF startup = "building" /\ ensured = {} THEN {} ELSE {Startup.group}
BudgetsMatch == DOMAIN budgets = {config.group : config \in Opened} \cup StartupGroup
RevokedMatch == \A k \in revoked : definitions[k].revoked

MatchInv == OpenedMatch /\ NothingElse /\ BudgetsMatch /\ RevokedMatch /\ Policies

LEMMA MatchInvMatches == MatchInv => DefinitionsMatch
BY DEF MatchInv, DefinitionsMatch, OpenedMatch, Matched, NothingElse, BudgetsMatch,
       StartupGroup, RevokedMatch

LEMMA MatchInit == Init => MatchInv
<1> SUFFICES ASSUME Init PROVE MatchInv
  OBVIOUS
<1>1. Opened = {}
  BY DEF Init, Opened, EmptyMap
<1>2. DOMAIN definitions = {} /\ DOMAIN budgets = {}
  BY DEF Init, EmptyMap
<1> QED
  BY <1>1, <1>2 DEF Init, MatchInv, OpenedMatch, NothingElse, BudgetsMatch, StartupGroup,
                    RevokedMatch, Policies

\* What the store still holds of a configuration.
LEMMA StillMatched ==
    ASSUME NEW config, Matched(config),
           \A k \in DOMAIN definitions :
              /\ k \in DOMAIN definitions'
              /\ \/ definitions'[k] = definitions[k]
                 \/ k \in revoked' /\ definitions'[k].revoked,
           revoked \subseteq revoked',
           \A g \in DOMAIN budgets : g \in DOMAIN budgets' /\ budgets'[g].limit = budgets[g].limit
    PROVE  Matched(config)'
<1>1. Frozen(config)'
  <2> DEFINE items == Items(config)
  <2> SUFFICES ASSUME NEW k \in DOMAIN items
               PROVE  /\ k \in DOMAIN definitions'
                      /\ \/ definitions'[k] = items[k]
                         \/ k \in revoked' /\ definitions'[k].revoked
    BY DEF Frozen
  <2>1. /\ k \in DOMAIN definitions
        /\ definitions[k] = items[k] \/ (k \in revoked /\ definitions[k].revoked)
    BY DEF Matched, Frozen
  <2> HIDE DEF items
  <2> QED
    BY <2>1
<1> QED
  BY <1>1 DEF Matched

\* The configurations of the published revisions and the runs.
LEMMA OpenedRests ==
    ASSUME Submitted, StoreGrows, UNCHANGED publications, DOMAIN runs' = DOMAIN runs
    PROVE  Opened' = Opened
BY ConfigsStay, Zenon DEF Opened

\* A build that succeeds keeps what is there, adds what it lacks and opens the
\* budget: the configuration is among those the store holds.
LEMMA BuildMatches ==
    ASSUME NEW config, MatchInv, Counted, IsConfig(config), Builds(config), KeepBuilt(config),
           Opened' = Opened \cup {config}, UNCHANGED <<revoked, ensured, startup>>
    PROVE  MatchInv'
<1> DEFINE items == Items(config)
<1>1. DOMAIN definitions' = DOMAIN definitions \cup DOMAIN items
  BY MergeDomain DEF KeepBuilt
<1>2. \A k \in DOMAIN definitions : definitions'[k] = definitions[k]
  BY MergeKeeps DEF KeepBuilt
<1>3. \A k \in DOMAIN items : k \notin DOMAIN definitions => definitions'[k] = items[k]
  BY MergeNew DEF KeepBuilt
<1>4. \A k \in DOMAIN items : k \in DOMAIN definitions => definitions[k] = items[k]
  BY DEF Builds, Accepts
<1>5. BudgetsGrow /\ DOMAIN budgets' = DOMAIN budgets \cup {config.group}
  BY OpeningGrows DEF KeepBuilt, Opens
<1>6. budgets'[config.group].limit = config.calls
  <2>1. CASE config.group \in DOMAIN budgets
    BY <1>5, <2>1 DEF BudgetsGrow, Builds, OpensBudget
  <2>2. CASE config.group \notin DOMAIN budgets
    <3>1. budgets'[config.group] = NewBudget(config)
      BY <2>2, PutNew DEF KeepBuilt
    <3> QED
      BY <3>1 DEF NewBudget
  <2> QED
    BY <2>1, <2>2
<1>7. Frozen(config)'
  BY <1>1, <1>2, <1>3, <1>4 DEF Frozen
<1>8. Matched(config)'
  BY <1>5, <1>6, <1>7 DEF Matched
<1>9. \A c \in Opened : Matched(c)'
  <2> SUFFICES ASSUME NEW c \in Opened PROVE Matched(c)'
    OBVIOUS
  <2>1. Matched(c)
    BY DEF MatchInv, OpenedMatch
  <2> HIDE DEF items
  <2>2. \A g \in DOMAIN budgets : g \in DOMAIN budgets' /\ budgets'[g].limit = budgets[g].limit
    BY <1>5 DEF BudgetsGrow
  <2> QED
    BY <1>1, <1>2, <2>1, <2>2, StillMatched
<1>10. OpenedMatch'
  BY <1>8, <1>9 DEF OpenedMatch
<1>11. NothingElse'
  BY <1>1 DEF MatchInv, NothingElse
<1>12. BudgetsMatch'
  BY <1>5 DEF MatchInv, BudgetsMatch, StartupGroup
<1>13. RevokedMatch'
  BY <1>2 DEF MatchInv, RevokedMatch, Policies
<1>14. Policies'
  <2>1. ASSUME NEW k \in DOMAIN definitions', k[1] = "policy"
        PROVE  "revoked" \in DOMAIN definitions'[k]
    <3>1. CASE k \in DOMAIN definitions
      BY <1>2, <2>1, <3>1 DEF MatchInv, Policies
    <3>2. CASE k \notin DOMAIN definitions
      BY <1>1, <1>3, <2>1, <3>2, ItemPolicies
    <3> QED
      BY <3>1, <3>2
  <2> QED
    BY <1>1, <2>1 DEF MatchInv, Policies
<1> QED
  BY <1>10, <1>11, <1>12, <1>13, <1>14 DEF MatchInv

\* A step that changes no definition, and of the budgets only their usage.
LEMMA UsageKeepsMatch ==
    ASSUME MatchInv, Opened' = Opened, UNCHANGED <<definitions, revoked, ensured, startup>>,
           DOMAIN budgets' = DOMAIN budgets,
           \A g \in DOMAIN budgets : budgets'[g].limit = budgets[g].limit
    PROVE  MatchInv'
<1>1. ASSUME NEW c \in Opened PROVE Matched(c)'
  <2>1. Matched(c)
    BY DEF MatchInv, OpenedMatch
  <2> QED
    BY <2>1, StillMatched
<1>2. OpenedMatch'
  BY <1>1 DEF OpenedMatch
<1>3. NothingElse' /\ BudgetsMatch' /\ RevokedMatch' /\ Policies'
  BY DEF MatchInv, NothingElse, BudgetsMatch, StartupGroup, RevokedMatch, Policies
<1> QED
  BY <1>2, <1>3 DEF MatchInv

\* The startup host ensures its next definition, or finds a conflict.
LEMMA EnsureMatches ==
    ASSUME MatchInv, Counted, EnsureNext, Opened' = Opened
    PROVE  MatchInv'
<1> DEFINE items == Items(Startup)
<1>1. PICK k \in DOMAIN items \ ensured :
        /\ startup = "building" /\ Opens(Startup) /\ UNCHANGED revoked
        /\ \/ /\ Accepts(k, items[k])
              /\ definitions' = Put(definitions, k, items[k])
              /\ ensured' = ensured \cup {k} /\ UNCHANGED startup
           \/ startup' = "failed" /\ UNCHANGED <<definitions, ensured>>
  BY DEF EnsureNext, Opens
<1>2. BudgetsGrow /\ DOMAIN budgets' = DOMAIN budgets \cup {Startup.group}
  BY <1>1, OpeningGrows, OfferedAssumption
<1>3. \A g \in DOMAIN budgets : g \in DOMAIN budgets' /\ budgets'[g].limit = budgets[g].limit
  BY <1>2 DEF BudgetsGrow
<1>4. /\ DOMAIN definitions' = DOMAIN definitions \cup (ensured' \ ensured)
      /\ \A j \in DOMAIN definitions : definitions'[j] = definitions[j]
      /\ k \notin DOMAIN definitions /\ k \in ensured' => definitions'[k] = items[k]
  <2>1. CASE definitions' = Put(definitions, k, items[k]) /\ ensured' = ensured \cup {k}
    <3>1. DOMAIN definitions' = DOMAIN definitions \cup {k}
      BY <2>1, PutDomain
    <3>2. \A j \in DOMAIN definitions : definitions'[j] = definitions[j]
      BY <2>1, PutKeeps
    <3>3. k \notin DOMAIN definitions => definitions'[k] = items[k]
      BY <2>1, PutNew
    <3> QED
      BY <1>1, <2>1, <3>1, <3>2, <3>3
  <2>2. CASE UNCHANGED <<definitions, ensured>>
    BY <1>1, <2>2
  <2> QED
    BY <1>1, <2>1, <2>2
<1>5. ensured \subseteq ensured' /\ ensured' \subseteq ensured \cup {k}
  BY <1>1
<1>6. ASSUME NEW c \in Opened PROVE Matched(c)'
  <2>1. Matched(c)
    BY DEF MatchInv, OpenedMatch
  <2> HIDE DEF items
  <2> QED
    BY <1>1, <1>3, <1>4, <2>1, StillMatched
<1>7. OpenedMatch'
  BY <1>6 DEF OpenedMatch
<1>8. NothingElse'
  BY <1>4, <1>5 DEF MatchInv, NothingElse
<1>9. BudgetsMatch'
  BY <1>1, <1>2 DEF MatchInv, BudgetsMatch, StartupGroup
<1>10. RevokedMatch'
  BY <1>1, <1>4 DEF MatchInv, RevokedMatch, Policies
<1>11. Policies'
  <2>1. ASSUME NEW j \in DOMAIN definitions', j[1] = "policy"
        PROVE  "revoked" \in DOMAIN definitions'[j]
    <3>1. CASE j \in DOMAIN definitions
      BY <1>4, <2>1, <3>1 DEF MatchInv, Policies
    <3>2. CASE j \notin DOMAIN definitions
      BY <1>4, <1>5, <2>1, <3>2, ItemPolicies
    <3> QED
      BY <3>1, <3>2
  <2> QED
    BY <1>1, <1>4, <1>5, <2>1 DEF MatchInv, Policies
<1> QED
  BY <1>7, <1>8, <1>9, <1>10, <1>11 DEF MatchInv

\* The operator revokes a policy.
LEMMA RevokeMatches ==
    ASSUME NEW k \in Revocable, MatchInv, Revoke(k), Opened' = Opened
    PROVE  MatchInv'
<1>1. /\ k \in DOMAIN definitions /\ revoked' = revoked \cup {k}
      /\ definitions' = [definitions EXCEPT ![k].revoked = TRUE]
      /\ UNCHANGED <<budgets, ensured, startup>>
  BY DEF Revoke, startupVars
<1>2. "revoked" \in DOMAIN definitions[k]
  BY <1>1, OfferedAssumption DEF MatchInv, Policies
<1> DEFINE value == [definitions[k] EXCEPT !.revoked = TRUE]
<1>3. DOMAIN value = DOMAIN definitions[k] /\ value.revoked = TRUE
  BY <1>2, Zenon
<1>4. definitions' = [definitions EXCEPT ![k] = value]
  BY <1>1
<1> HIDE DEF value
<1>5. /\ DOMAIN definitions' = DOMAIN definitions /\ definitions'[k] = value
      /\ \A j \in DOMAIN definitions : j # k => definitions'[j] = definitions[j]
  BY <1>1, <1>4
<1>6. definitions'[k].revoked
  BY <1>3, <1>5, Zenon
<1>7. ASSUME NEW c \in Opened PROVE Matched(c)'
  <2>1. Matched(c)
    BY DEF MatchInv, OpenedMatch
  <2> QED
    BY <1>1, <1>5, <1>6, <2>1, StillMatched
<1>8. OpenedMatch'
  BY <1>7 DEF OpenedMatch
<1>9. NothingElse' /\ BudgetsMatch'
  BY <1>1, <1>5 DEF MatchInv, NothingElse, BudgetsMatch, StartupGroup
<1>10. RevokedMatch'
  BY <1>1, <1>5, <1>6 DEF MatchInv, RevokedMatch, Policies
<1>11. Policies'
  BY <1>1, <1>2, <1>3, <1>5 DEF MatchInv, Policies
<1> QED
  BY <1>8, <1>9, <1>10, <1>11 DEF MatchInv

LEMMA MatchStep ==
    ASSUME Requested, Submitted, Working, BudgetInv, MatchInv, [Next]_vars
    PROVE  MatchInv'
<1>1. StoreGrows
  BY StoreStep DEF StoreGoesOn
<1>2. Counted
  BY DEF BudgetInv
<1>3. ASSUME UNCHANGED publications, DOMAIN runs' = DOMAIN runs PROVE Opened' = Opened
  BY <1>1, <1>3, OpenedRests
<1>4. ASSUME UNCHANGED <<definitions, revoked, ensured, startup, publications, budgets>>,
             DOMAIN runs' = DOMAIN runs
      PROVE  MatchInv'
  BY <1>3, <1>4, UsageKeepsMatch
<1>5. ASSUME NEW k \in DOMAIN runs, Builds(RunConfig(k)), KeepBuilt(RunConfig(k)),
             UNCHANGED <<revoked, ensured, startup, publications, runs>>
      PROVE  MatchInv'
  <2>1. Opened' = Opened \cup {RunConfig(k)}
    BY <1>3, <1>5 DEF Opened
  <2>2. IsConfig(RunConfig(k))
    BY RunConfigs
  <2> QED
    BY <1>2, <1>5, <2>1, <2>2, BuildMatches
<1>6. ASSUME NEW r \in Requests, CommitConfiguration(r) PROVE MatchInv'
  <2>1. UNCHANGED <<revoked, ensured, startup, runs>>
    BY <1>6 DEF CommitConfiguration, startupVars
  <2>2. CASE PublishNew(r)
    <3> DEFINE config == request[r].config
    <3>1. /\ config.root \notin DOMAIN publications
          /\ publications' = Put(publications, config.root, config)
          /\ Builds(config) /\ KeepBuilt(config)
      BY <2>2 DEF PublishNew
    <3>2. IsConfig(config)
      BY <1>6 DEF CommitConfiguration, At, Requested, Sound
    <3> HIDE DEF config
    <3>3. DOMAIN publications' = DOMAIN publications \cup {config.root}
      BY <3>1, PutDomain
    <3>4. \A ref \in DOMAIN publications : publications'[ref] = publications[ref]
      BY <3>1, PutKeeps
    <3>5. publications'[config.root] = config
      BY <3>1, PutNew
    <3>6. {publications'[ref] : ref \in DOMAIN publications'} =
             {publications[ref] : ref \in DOMAIN publications} \cup {config}
      BY <3>3, <3>4, <3>5
    <3>7. \A k \in DOMAIN runs : RunConfig(k)' = RunConfig(k)
      BY <1>1, ConfigsStay
    <3>8. {RunConfig(k)' : k \in DOMAIN runs'} = {RunConfig(k) : k \in DOMAIN runs}
      BY <2>1, <3>7
    <3>9. Opened' = Opened \cup {config}
      BY <3>6, <3>8 DEF Opened
    <3> QED
      BY <1>2, <2>1, <3>1, <3>2, <3>9, BuildMatches
  <2>3. CASE PublishedBefore(r) \/ PublishFails(r)
    BY <1>4, <2>1, <2>3 DEF PublishedBefore, PublishFails
  <2> QED
    BY <1>6, <2>2, <2>3 DEF CommitConfiguration
<1>7. ASSUME NEW ref, NEW key, Submit(ref, key) PROVE MatchInv'
  <2> DEFINE config == ConfigOf(ref, key)
  <2>1. /\ ref \in DOMAIN publications /\ key \notin DOMAIN runs
        /\ runs' = Put(runs, key, NewRun(ref))
        /\ Builds(config) /\ KeepBuilt(config)
        /\ UNCHANGED <<publications, revoked, ensured, startup>>
    BY <1>7 DEF Submit, publicationVars, startupVars
  <2>2. IsConfig(config)
    BY <2>1, SubmissionConfig DEF Submitted, ConfigOf
  <2>3. RunConfig(key)' = config
    <3>1. runs'[key] = NewRun(ref)
      BY <2>1, PutNew
    <3> QED
      BY <2>1, <3>1 DEF RunConfig, ConfigOf, NewRun
  <2> HIDE DEF config
  <2>4. DOMAIN runs' = DOMAIN runs \cup {key}
    BY <2>1, PutDomain
  <2>5. \A k \in DOMAIN runs : RunConfig(k)' = RunConfig(k)
    BY <1>1, ConfigsStay
  <2>6. {RunConfig(k)' : k \in DOMAIN runs'} = {RunConfig(k) : k \in DOMAIN runs} \cup {config}
    BY <2>3, <2>4, <2>5
  <2>7. Opened' = Opened \cup {config}
    BY <2>1, <2>6 DEF Opened
  <2> QED
    BY <1>2, <2>1, <2>2, <2>7, BuildMatches
<1>8. ASSUME EnsureNext PROVE MatchInv'
  <2>1. UNCHANGED <<publications, runs>>
    BY <1>8 DEF EnsureNext, publicationVars
  <2> QED
    BY <1>2, <1>3, <1>8, <2>1, EnsureMatches
<1>9. ASSUME StartupServes PROVE MatchInv'
  <2>1. /\ UNCHANGED <<publications, runs, definitions, budgets, revoked, ensured>>
        /\ ensured # {} /\ startup' \in {"serving", "used"}
    BY <1>9, SomeItem, OfferedAssumption DEF StartupServes, publicationVars, MatchInv, Policies
  <2>2. Opened' = Opened
    BY <1>3, <2>1
  <2>3. OpenedMatch'
    <3>1. ASSUME NEW c \in Opened PROVE Matched(c)'
      <4>1. Matched(c)
        BY DEF MatchInv, OpenedMatch
      <4> QED
        BY <2>1, <4>1, StillMatched
    <3> QED
      BY <2>2, <3>1 DEF OpenedMatch
  <2>4. StartupGroup' = StartupGroup
    BY <1>9, <2>1 DEF StartupServes, StartupGroup
  <2>5. NothingElse' /\ BudgetsMatch' /\ RevokedMatch' /\ Policies'
    BY <2>1, <2>2, <2>4 DEF MatchInv, NothingElse, BudgetsMatch, RevokedMatch, Policies
  <2> QED
    BY <2>3, <2>5 DEF MatchInv
<1>10. ASSUME NEW k \in Revocable, Revoke(k) PROVE MatchInv'
  <2>1. UNCHANGED <<publications, runs>>
    BY <1>10 DEF Revoke, publicationVars
  <2> QED
    BY <1>3, <1>10, <2>1, RevokeMatches
<1>11. ASSUME NEW k \in DOMAIN runs, RebuildForAdmission(k) PROVE MatchInv'
  BY <1>5, <1>11 DEF RebuildForAdmission, publicationVars, startupVars
<1>12. ASSUME NEW x \in Executors, NEW k \in DOMAIN runs, NEW n, Tick(x, k, n) PROVE MatchInv'
  <2>1. UNCHANGED <<publications, revoked, ensured, startup, runs>>
    BY <1>12 DEF Tick, publicationVars, startupVars
  <2>2. UNCHANGED <<definitions, budgets>> \/ (Builds(RunConfig(k)) /\ KeepBuilt(RunConfig(k)))
    BY <1>12 DEF Tick
  <2> QED
    BY <1>4, <1>5, <2>1, <2>2
<1>13. ASSUME WorkerDies PROVE MatchInv'
  BY <1>4, <1>13 DEF WorkerDies, publicationVars, startupVars
<1>14. ASSUME NEW k \in DOMAIN runs, NEW n, Abandon(k, n) PROVE MatchInv'
  BY <1>4, <1>14 DEF Abandon, publicationVars, startupVars
<1>15. ASSUME NEW x \in Executors, Execute(x) PROVE MatchInv'
  <2>1. executor[x].pc # "idle" /\ executor[x].run \in DOMAIN runs
        /\ UNCHANGED <<publications, definitions, revoked, ensured, startup>>
    BY <1>15 DEF Execute, Claim, Charge, CallModel, SaveAnswer, Doing, publicationVars,
                 startupVars, Working, WorkingOn
  <2>2. CASE Claim(x) \/ CallModel(x) \/ SaveAnswer(x)
    <3>1. DOMAIN runs' = DOMAIN runs /\ UNCHANGED budgets
      BY <2>2 DEF Claim, CallModel, SaveAnswer, Become
    <3> QED
      BY <1>4, <2>1, <3>1
  <2>3. CASE Charge(x)
    <3>1. PICK g : g = RunConfig(executor[x].run).group
      OBVIOUS
    <3>2. DOMAIN runs' = DOMAIN runs
      BY <2>3 DEF Charge, Become
    <3>3. UNCHANGED budgets \/ budgets' = [budgets EXCEPT ![g].admitted = @ + 1]
      BY <2>3, <3>1 DEF Charge
    <3>4. CASE UNCHANGED budgets
      BY <1>4, <2>1, <3>2, <3>4
    <3>5. CASE budgets' = [budgets EXCEPT ![g].admitted = @ + 1]
      <4>1. g \in DOMAIN budgets /\ budgets[g] \in Budget
        BY <1>2, <2>1, <3>1 DEF BudgetInv, RunGroups, Counted
      <4> DEFINE more == [budgets[g] EXCEPT !.admitted = @ + 1]
      <4>2. more.limit = budgets[g].limit
        BY <4>1 DEF Budget
      <4>3. budgets' = [budgets EXCEPT ![g] = more]
        BY <3>5
      <4> HIDE DEF more
      <4>4. /\ DOMAIN budgets' = DOMAIN budgets
            /\ \A h \in DOMAIN budgets : budgets'[h].limit = budgets[h].limit
        BY <4>2, <4>3
      <4> QED
        BY <1>3, <2>1, <3>2, <4>4, UsageKeepsMatch
    <3> QED
      BY <3>3, <3>4, <3>5
  <2> QED
    BY <1>15, <2>2, <2>3 DEF Execute
<1>16. ASSUME NEW r \in Requests,
             \/ \E h \in Hosts : Send(r, h)
             \/ ReplayTool(r) \/ CheckTool(r) \/ CommitTool(r)
             \/ ReplayAgent(r) \/ CompileAgent(r) \/ TrustConfiguration(r)
             \/ ReplayAfterFailure(r)
       PROVE  MatchInv'
  <2>1. UNCHANGED <<definitions, revoked, ensured, startup, publications, budgets, runs>>
    BY <1>16 DEF Send, ReplayTool, CheckTool, CommitTool, ReplayAgent, CompileAgent,
                 TrustConfiguration, ReplayAfterFailure, publicationVars, startupVars
  <2> QED
    BY <1>4, <2>1
<1>17. ASSUME NEW h, Install(h) \/ HostDies(h) PROVE MatchInv'
  BY <1>4, <1>17 DEF Install, HostDies, publicationVars, startupVars
<1>18. ASSUME UNCHANGED vars PROVE MatchInv'
  BY <1>4, <1>18 DEF vars, publicationVars, startupVars
<1> QED
  BY <1>6, <1>7, <1>8, <1>9, <1>10, <1>11, <1>12, <1>13, <1>14, <1>15, <1>16, <1>17, <1>18
  DEF Next

\* The store holds every definition a revision was published with and a run was
\* submitted with, as it was or revoked since, under the limit it was opened
\* with, and nothing that no publication, submission or startup put there: the
\* staged build of publish_configuration and submit_published leaves nothing
\* behind when it fails.
THEOREM StoreHoldsWhatWasPublished == Spec => []DefinitionsMatch
<1> DEFINE IInv == Requested /\ Submitted /\ Working /\ BudgetInv /\ MatchInv
<1>1. Init => IInv
  BY RequestInit, StoreInit, BudgetInit, MatchInit
<1>2. IInv /\ [Next]_vars => IInv'
  BY RequestStep, StoreStep, BudgetStep, MatchStep DEF StoreGoesOn
<1>3. IInv => DefinitionsMatch
  BY MatchInvMatches
<1> QED
  BY <1>1, <1>2, <1>3, PTL DEF Spec

(***************************************************************************)
(* The answers.  What an answered request names is there and is what its   *)
(* customer sent.  A tool stays bound as the connection says it was when   *)
(* it was published, so two hosts that check the same tool would publish   *)
(* the same entry.                                                         *)
(***************************************************************************)
Answered(body) ==
    IF body.kind = "tool"
    THEN /\ body.key \in DOMAIN toolKeys
         /\ toolKeys[body.key] \in DOMAIN registry.tools
         /\ registry.tools[toolKeys[body.key]].definition = body.definition
    ELSE /\ body.key \in DOMAIN publicationKeys
         /\ publicationKeys[body.key] \in DOMAIN publications
         /\ LET config == publications[publicationKeys[body.key]]
            IN body.definition = IF body.kind = "agent" THEN config.source ELSE config

Progress(q) ==
    /\ q.pc = "published" => Answered(q.body)
    /\ q.pc = "checked" =>
          /\ q.body.kind = "tool"
          /\ Installed(Catalog[q.host], registry, q.body.definition.connection)
    /\ q.pc = "compiled" =>
          /\ q.body.kind \in {"agent", "configuration"}
          /\ q.body.definition = IF q.body.kind = "agent" THEN q.config.source ELSE q.config
    /\ q.pc = "failed" => q.body.kind = "agent"

Entry(tool) ==
    [definition |-> tool, effective |-> Effective(registry.connections[tool.connection], tool)]

Registered ==
    /\ DOMAIN registry = {"models", "connections", "tools"}
    /\ \A t \in DOMAIN registry.tools :
          LET tool == registry.tools[t].definition
          IN /\ tool.connection \in DOMAIN registry.connections
             /\ registry.tools[t] = Entry(tool)
    /\ \A key \in DOMAIN toolKeys : toolKeys[key] \in DOMAIN registry.tools
    /\ \A key \in DOMAIN publicationKeys : publicationKeys[key] \in DOMAIN publications

Progresses == \A r \in Requests : Progress(request[r])

Grows(old, new) == DOMAIN old \subseteq DOMAIN new /\ \A k \in DOMAIN old : new[k] = old[k]

RegistryGrows ==
    /\ Grows(registry.connections, registry'.connections)
    /\ Grows(registry.tools, registry'.tools)
    /\ Grows(toolKeys, toolKeys')
    /\ Grows(publicationKeys, publicationKeys')
    /\ Grows(publications, publications')

LEMMA GrowsSame == ASSUME NEW f PROVE Grows(f, f)
BY DEF Grows

LEMMA GrowsMerge == ASSUME NEW f, NEW g PROVE Grows(f, Merge(f, g))
BY MergeDomain, MergeKeeps DEF Grows

LEMMA GrowsPut == ASSUME NEW f, NEW k, NEW v PROVE Grows(f, Put(f, k, v))
BY GrowsMerge DEF Put

\* Whichever entry a key or a definition names, the key is bound to it afterwards.
LEMMA PutBound ==
    ASSUME NEW keys, NEW key, NEW name
    PROVE  /\ key \in DOMAIN Put(keys, key, Bound(keys, key, name))
           /\ Put(keys, key, Bound(keys, key, name))[key] = Bound(keys, key, name)
<1>1. key \in DOMAIN Put(keys, key, Bound(keys, key, name))
  <2>1. DOMAIN Put(keys, key, Bound(keys, key, name)) = DOMAIN keys \cup {key}
    BY PutDomain
  <2> QED
    BY <2>1
<1>2. CASE key \in DOMAIN keys
  BY <1>1, <1>2, PutKeeps DEF Bound
<1>3. CASE key \notin DOMAIN keys
  BY <1>1, <1>3, PutNew
<1> QED
  BY <1>1, <1>2, <1>3

LEMMA AnswersGrow ==
    ASSUME NEW body, Answered(body), RegistryGrows
    PROVE  Answered(body)'
BY DEF Answered, RegistryGrows, Grows

LEMMA ProgressGrows ==
    ASSUME NEW q, Progress(q), RegistryGrows
    PROVE  Progress(q)'
<1>1. q.pc = "published" => Answered(q.body)'
  <2>1. PICK body : body = q.body
    OBVIOUS
  <2> QED
    BY <2>1, AnswersGrow DEF Progress
<1>2. ASSUME NEW catalog, NEW c, Installed(catalog, registry, c)
      PROVE  Installed(catalog, registry, c)'
  BY <1>2 DEF Installed, RegistryGrows, Grows
<1> QED
  BY <1>1, <1>2 DEF Progress

\* One request moves.
LEMMA ProgressWritten ==
    ASSUME NEW r \in Requests, NEW next, Requested, Progresses, RegistryGrows, Progress(next)',
           request' = [request EXCEPT ![r] = next]
    PROVE  Progresses'
<1>1. /\ request'[r] = next
      /\ \A q \in Requests : q # r => request'[q] = request[q]
  BY DEF Requested
<1>2. ASSUME NEW q \in Requests PROVE Progress(request[q])'
  <2>1. CASE q = r
    BY <1>1, <2>1 DEF Progress
  <2>2. CASE q # r
    <3>1. PICK old : old = request[q]
      OBVIOUS
    <3>2. Progress(old)'
      BY <3>1, ProgressGrows DEF Progresses
    <3>3. request'[q] = old
      BY <1>1, <2>2, <3>1
    <3> QED
      BY <3>2, <3>3 DEF Progress
  <2> QED
    BY <2>1, <2>2
<1> QED
  BY <1>2 DEF Progresses

LEMMA ProgressRests ==
    ASSUME Progresses, RegistryGrows, UNCHANGED request
    PROVE  Progresses'
<1>1. ASSUME NEW q \in Requests PROVE Progress(request[q])'
  <2>1. PICK old : old = request[q]
    OBVIOUS
  <2>2. Progress(old)'
    BY <2>1, ProgressGrows DEF Progresses
  <2> QED
    BY <2>1, <2>2 DEF Progress
<1> QED
  BY <1>1 DEF Progresses

LEMMA AnswersInit == Init => Registered /\ Progresses
BY DEF Init, Registered, Progresses, Progress, Waiting, EmptyMap

\* A step that leaves the maps of the store alone.
LEMMA RegistryRests ==
    ASSUME Registered, UNCHANGED publicationVars
    PROVE  Registered' /\ RegistryGrows
BY GrowsSame DEF publicationVars, Registered, RegistryGrows, Entry

\* A customer that is refused, rejected or has yet to send waits for nothing.
LEMMA NoProgress ==
    ASSUME NEW pc \in {"idle", "refused", "rejected"}
    PROVE  Progress(Waiting(pc, NoBody))'
BY DEF Progress, Waiting

LEMMA ReplayAnswers ==
    ASSUME NEW r \in Requests, Requested, Registered, Progresses, Asks(r, "agent"),
           Replay(r), UNCHANGED <<registry, toolKeys, publications>>
    PROVE  Registered' /\ RegistryGrows /\ Progresses'
<1>1. PICK ref : ref = Bound(publicationKeys, Asked(r).key, Asked(r).definition.root)
  OBVIOUS
<1>2. CASE Refuse(r) /\ UNCHANGED publicationKeys
  <2>1. Registered' /\ RegistryGrows
    BY <1>2, RegistryRests DEF publicationVars
  <2> QED
    BY <1>2, <2>1, NoProgress, ProgressWritten DEF Refuse
<1>3. CASE /\ ref \in DOMAIN publications /\ publications[ref].source = Asked(r).definition
           /\ publicationKeys' = Put(publicationKeys, Asked(r).key, ref) /\ Acknowledge(r)
  <2>1. PICK body : body = request[r].body
    OBVIOUS
  <2>2. body.key \in DOMAIN publicationKeys' /\ publicationKeys'[body.key] = ref
    BY <1>1, <1>3, <2>1, PutBound DEF Asked
  <2>3. \A key \in DOMAIN publicationKeys' : publicationKeys'[key] \in DOMAIN publications
    <3>1. ASSUME NEW key \in DOMAIN publicationKeys' PROVE publicationKeys'[key] \in DOMAIN publications
      <4>1. DOMAIN publicationKeys' = DOMAIN publicationKeys \cup {body.key}
        BY <1>3, <2>1, PutDomain DEF Asked
      <4>2. key \in DOMAIN publicationKeys => publicationKeys'[key] = publicationKeys[key]
        BY <1>3, PutKeeps
      <4> QED
        BY <1>3, <2>2, <4>1, <4>2 DEF Registered
    <3> QED
      BY <3>1
  <2>4. Registered'
    BY <2>3 DEF Registered, Entry
  <2>5. RegistryGrows
    BY <1>3, GrowsSame, GrowsPut DEF RegistryGrows
  <2>6. Answered(body)'
    BY <1>3, <2>1, <2>2 DEF Answered, Asks, Asked
  <2>7. Progress(Waiting("published", body))'
    BY <2>6 DEF Progress, Waiting
  <2>8. request' = [request EXCEPT ![r] = Waiting("published", body)]
    BY <1>3, <2>1 DEF Acknowledge
  <2> QED
    BY <2>4, <2>5, <2>7, <2>8, ProgressWritten
<1> QED
  BY <1>1, <1>2, <1>3 DEF Replay

LEMMA CommitToolAnswers ==
    ASSUME NEW r \in Requests, Requested, Registered, Progresses, CommitTool(r)
    PROVE  Registered' /\ RegistryGrows /\ Progresses'
<1>1. PICK body, host, ref, tool, entry :
        /\ body = request[r].body /\ host = request[r].host /\ tool = body.definition
        /\ ref = Bound(toolKeys, body.key, tool.name) /\ entry = ToolEntry(r)
  OBVIOUS
<1>2. UNCHANGED <<publications, publicationKeys>> /\ At(r, "checked")
  BY DEF CommitTool
<1>3. CASE Refuse(r) /\ UNCHANGED <<registry, toolKeys>>
  <2>1. Registered' /\ RegistryGrows
    BY <1>2, <1>3, RegistryRests DEF publicationVars
  <2> QED
    BY <1>3, <2>1, NoProgress, ProgressWritten DEF Refuse
<1>4. CASE /\ Put(registry.tools, tool.name, entry)[ref] = entry
           /\ registry' = [registry EXCEPT !.tools = Put(registry.tools, tool.name, entry)]
           /\ toolKeys' = Put(toolKeys, body.key, ref)
           /\ Acknowledge(r)
  <2>1. /\ body.kind = "tool" /\ Installed(Catalog[host], registry, tool.connection)
        /\ entry = Entry(tool)
    BY <1>1, <1>2 DEF Progresses, Progress, At, ToolEntry, Entry, Installed, Asked
  <2>2. /\ DOMAIN registry' = DOMAIN registry
        /\ registry'.connections = registry.connections
        /\ registry'.tools = Put(registry.tools, tool.name, entry)
    BY <1>4 DEF Registered
  <2>3. /\ DOMAIN (registry'.tools) = DOMAIN registry.tools \cup {tool.name}
        /\ \A t \in DOMAIN registry.tools : registry'.tools[t] = registry.tools[t]
        /\ tool.name \notin DOMAIN registry.tools => registry'.tools[tool.name] = entry
    <3>1. DOMAIN Put(registry.tools, tool.name, entry) = DOMAIN registry.tools \cup {tool.name}
      BY PutDomain
    <3>2. \A t \in DOMAIN registry.tools : registry'.tools[t] = registry.tools[t]
      BY <2>2, PutKeeps
    <3>3. tool.name \notin DOMAIN registry.tools => registry'.tools[tool.name] = entry
      BY <2>2, PutNew
    <3> QED
      BY <2>2, <3>1, <3>2, <3>3
  <2>4. \A t : Entry(t)' = Entry(t)
    BY <2>2 DEF Entry
  <2>5. entry.definition = tool
    BY <2>1 DEF Entry
  <2>6. ASSUME NEW t \in DOMAIN registry'.tools
        PROVE  /\ registry'.tools[t].definition.connection \in DOMAIN registry.connections
               /\ registry'.tools[t] = Entry(registry'.tools[t].definition)
    <3>1. CASE t \in DOMAIN registry.tools
      BY <2>3, <3>1 DEF Registered
    <3>2. CASE t \notin DOMAIN registry.tools
      BY <2>1, <2>3, <2>5, <3>2 DEF Installed
    <3> QED
      BY <3>1, <3>2
  <2>7. ref \in DOMAIN registry'.tools
    BY <1>1, <2>3 DEF Bound, Registered
  <2>8. body.key \in DOMAIN toolKeys' /\ toolKeys'[body.key] = ref
    BY <1>1, <1>4, PutBound
  <2>9. ASSUME NEW key \in DOMAIN toolKeys' PROVE toolKeys'[key] \in DOMAIN registry'.tools
    <3>1. DOMAIN toolKeys' = DOMAIN toolKeys \cup {body.key}
      BY <1>4, PutDomain
    <3>2. key \in DOMAIN toolKeys => toolKeys'[key] = toolKeys[key]
      BY <1>4, PutKeeps
    <3> QED
      BY <2>3, <2>7, <2>8, <3>1, <3>2 DEF Registered
  <2>10. Registered'
    BY <1>2, <2>2, <2>4, <2>6, <2>9 DEF Registered
  <2>11. RegistryGrows
    BY <1>2, <1>4, <2>2, GrowsSame, GrowsPut DEF RegistryGrows
  <2>12. Answered(body)'
    BY <1>1, <1>4, <2>1, <2>2, <2>5, <2>7, <2>8 DEF Answered
  <2>13. Progress(Waiting("published", body))'
    BY <2>12 DEF Progress, Waiting
  <2>14. request' = [request EXCEPT ![r] = Waiting("published", body)]
    BY <1>1, <1>4 DEF Acknowledge
  <2> QED
    BY <2>10, <2>11, <2>13, <2>14, ProgressWritten
<1> QED
  BY <1>1, <1>3, <1>4 DEF CommitTool, Asked

LEMMA CommitConfigurationAnswers ==
    ASSUME NEW r \in Requests, Requested, Registered, Progresses, CommitConfiguration(r)
    PROVE  Registered' /\ RegistryGrows /\ Progresses'
<1>1. PICK body, config, ref :
        /\ body = request[r].body /\ config = request[r].config
        /\ ref = Bound(publicationKeys, body.key, config.root)
  OBVIOUS
<1>2. /\ UNCHANGED <<registry, toolKeys>> /\ At(r, "compiled")
      /\ body.kind \in {"agent", "configuration"}
      /\ body.definition = IF body.kind = "agent" THEN config.source ELSE config
  BY <1>1 DEF CommitConfiguration, Progresses, Progress, At
<1>3. ASSUME UNCHANGED <<publications, publicationKeys>> PROVE Registered' /\ RegistryGrows
  BY <1>2, <1>3, RegistryRests DEF publicationVars
<1>4. CASE PublishFails(r)
  <2>1. CASE Refuse(r)
    BY <1>3, <1>4, <2>1, NoProgress, ProgressWritten DEF PublishFails, Refuse
  <2>2. CASE Asks(r, "agent") /\ Continue(r, "failed")
    <3> DEFINE next == [request[r] EXCEPT !.pc = "failed"]
    <3>1. request' = [request EXCEPT ![r] = next]
      BY <2>2 DEF Continue
    <3>2. next.pc = "failed" /\ next.body.kind = "agent"
      BY <2>2 DEF Requested, Sound, Asks
    <3> HIDE DEF next
    <3>3. PICK new : new = next
      OBVIOUS
    <3>4. Progress(new)'
      BY <3>2, <3>3 DEF Progress
    <3> QED
      BY <1>3, <1>4, <3>1, <3>3, <3>4, ProgressWritten DEF PublishFails
  <2> QED
    BY <1>4, <2>1, <2>2 DEF PublishFails
<1>5. ASSUME Acknowledge(r),
             publicationKeys' = Put(publicationKeys, body.key, ref),
             Grows(publications, publications'), ref \in DOMAIN publications',
             publications'[ref] = config
      PROVE  Registered' /\ RegistryGrows /\ Progresses'
  <2>1. body.key \in DOMAIN publicationKeys' /\ publicationKeys'[body.key] = ref
    BY <1>1, <1>5, PutBound
  <2>2. ASSUME NEW key \in DOMAIN publicationKeys'
        PROVE  publicationKeys'[key] \in DOMAIN publications'
    <3>1. DOMAIN publicationKeys' = DOMAIN publicationKeys \cup {body.key}
      BY <1>5, PutDomain
    <3>2. key \in DOMAIN publicationKeys => publicationKeys'[key] = publicationKeys[key]
      BY <1>5, PutKeeps
    <3> QED
      BY <1>5, <2>1, <3>1, <3>2 DEF Registered, Grows
  <2>3. Registered'
    BY <1>2, <2>2 DEF Registered, Entry
  <2>4. RegistryGrows
    BY <1>2, <1>5, GrowsSame, GrowsPut DEF RegistryGrows
  <2>5. Answered(body)'
    BY <1>2, <1>5, <2>1 DEF Answered
  <2>6. Progress(Waiting("published", body))'
    BY <2>5 DEF Progress, Waiting
  <2>7. request' = [request EXCEPT ![r] = Waiting("published", body)]
    BY <1>1, <1>5 DEF Acknowledge
  <2> QED
    BY <2>3, <2>4, <2>6, <2>7, ProgressWritten
<1>6. CASE PublishedBefore(r)
  BY <1>1, <1>5, <1>6, GrowsSame DEF PublishedBefore, Asked
<1>7. CASE PublishNew(r)
  <2>1. /\ body.key \notin DOMAIN publicationKeys /\ config.root \notin DOMAIN publications
        /\ publications' = Put(publications, config.root, config)
        /\ publicationKeys' = Put(publicationKeys, body.key, config.root)
        /\ Acknowledge(r)
    BY <1>1, <1>7 DEF PublishNew, Asked
  <2>2. ref = config.root
    BY <1>1, <2>1 DEF Bound
  <2>3. ref \in DOMAIN publications'
    <3>1. DOMAIN publications' = DOMAIN publications \cup {config.root}
      BY <2>1, PutDomain
    <3> QED
      BY <2>2, <3>1
  <2>4. publications'[ref] = config
    BY <2>1, <2>2, PutNew
  <2>5. Grows(publications, publications')
    BY <2>1, GrowsPut
  <2> QED
    BY <1>5, <2>1, <2>2, <2>3, <2>4, <2>5
<1> QED
  BY <1>4, <1>6, <1>7 DEF CommitConfiguration

LEMMA ReplayToolAnswers ==
    ASSUME NEW r \in Requests, Requested, Registered, Progresses, ReplayTool(r)
    PROVE  Registered' /\ RegistryGrows /\ Progresses'
<1>1. PICK body, ref : body = request[r].body
                       /\ ref = Bound(toolKeys, body.key, body.definition.name)
  OBVIOUS
<1>2. UNCHANGED <<registry, publications, publicationKeys>> /\ body.kind = "tool"
  BY <1>1 DEF ReplayTool, Asks
<1>3. ASSUME UNCHANGED toolKeys PROVE Registered' /\ RegistryGrows
  BY <1>2, <1>3, RegistryRests DEF publicationVars
<1>4. CASE Refuse(r) /\ UNCHANGED toolKeys
  BY <1>3, <1>4, NoProgress, ProgressWritten DEF Refuse
<1>5. CASE Continue(r, "new") /\ UNCHANGED toolKeys
  <2> DEFINE next == [request[r] EXCEPT !.pc = "new"]
  <2>1. request' = [request EXCEPT ![r] = next]
    BY <1>5 DEF Continue
  <2>2. next.pc = "new"
    BY DEF Requested, Sound
  <2> HIDE DEF next
  <2>3. PICK new : new = next
    OBVIOUS
  <2>4. Progress(new)'
    BY <2>2, <2>3 DEF Progress
  <2> QED
    BY <1>3, <1>5, <2>1, <2>3, <2>4, ProgressWritten
<1>6. CASE /\ ref \in DOMAIN registry.tools /\ registry.tools[ref].definition = body.definition
           /\ toolKeys' = Put(toolKeys, body.key, ref) /\ Acknowledge(r)
  <2>1. body.key \in DOMAIN toolKeys' /\ toolKeys'[body.key] = ref
    BY <1>1, <1>6, PutBound
  <2>2. ASSUME NEW key \in DOMAIN toolKeys' PROVE toolKeys'[key] \in DOMAIN registry.tools
    <3>1. DOMAIN toolKeys' = DOMAIN toolKeys \cup {body.key}
      BY <1>6, PutDomain
    <3>2. key \in DOMAIN toolKeys => toolKeys'[key] = toolKeys[key]
      BY <1>6, PutKeeps
    <3> QED
      BY <1>6, <2>1, <3>1, <3>2 DEF Registered
  <2>3. Registered'
    BY <1>2, <2>2 DEF Registered, Entry
  <2>4. RegistryGrows
    BY <1>2, <1>6, GrowsSame, GrowsPut DEF RegistryGrows
  <2>5. Answered(body)'
    BY <1>2, <1>6, <2>1 DEF Answered
  <2>6. Progress(Waiting("published", body))'
    BY <2>5 DEF Progress, Waiting
  <2>7. request' = [request EXCEPT ![r] = Waiting("published", body)]
    BY <1>1, <1>6 DEF Acknowledge
  <2> QED
    BY <2>3, <2>4, <2>6, <2>7, ProgressWritten
<1> QED
  BY <1>1, <1>4, <1>5, <1>6 DEF ReplayTool, Asked

LEMMA AnswersStep ==
    ASSUME Requested, Registered, Progresses, [Next]_vars
    PROVE  Registered' /\ RegistryGrows /\ Progresses'
<1>1. ASSUME UNCHANGED publicationVars, UNCHANGED request
      PROVE  Registered' /\ RegistryGrows /\ Progresses'
  BY <1>1, RegistryRests, ProgressRests
<1>2. ASSUME NEW r \in Requests, NEW next, UNCHANGED publicationVars, Progress(next)',
             request' = [request EXCEPT ![r] = next]
      PROVE  Registered' /\ RegistryGrows /\ Progresses'
  BY <1>2, RegistryRests, ProgressWritten
<1>3. ASSUME NEW h \in Hosts, Install(h) PROVE Registered' /\ RegistryGrows /\ Progresses'
  <2>1. /\ UNCHANGED <<toolKeys, publications, publicationKeys, request>>
        /\ DOMAIN registry' = DOMAIN registry
        /\ registry'.tools = registry.tools
        /\ registry'.connections = Merge(registry.connections, Catalog[h].connections)
    BY <1>3 DEF Install, Registered
  <2>2. Grows(registry.connections, registry'.connections)
    BY <2>1, GrowsMerge
  <2>3. RegistryGrows
    BY <2>1, <2>2, GrowsSame DEF RegistryGrows
  <2>4. \A tool : tool.connection \in DOMAIN registry.connections =>
           tool.connection \in DOMAIN registry'.connections /\ Entry(tool)' = Entry(tool)
    BY <2>2 DEF Grows, Entry
  <2>5. Registered'
    BY <2>1, <2>4 DEF Registered
  <2> QED
    BY <2>1, <2>3, <2>5, ProgressRests
<1>4. ASSUME NEW r \in Requests, NEW h \in Hosts, Send(r, h)
      PROVE  Registered' /\ RegistryGrows /\ Progresses'
  <2>1. PICK body \in Bodies[r] :
            request' = [request EXCEPT ![r] = [pc |-> "sent", body |-> body, host |-> h,
                                               config |-> NoConfig]]
    BY <1>4 DEF Send
  <2>2. Progress([pc |-> "sent", body |-> body, host |-> h, config |-> NoConfig])'
    BY DEF Progress
  <2> QED
    BY <1>2, <1>4, <2>1, <2>2 DEF Send
<1>5. ASSUME NEW r \in Requests, Reject(r) \/ Refuse(r), UNCHANGED publicationVars
      PROVE  Registered' /\ RegistryGrows /\ Progresses'
  BY <1>2, <1>5, NoProgress DEF Reject, Refuse
<1>6. ASSUME NEW r \in Requests, CheckTool(r) PROVE Registered' /\ RegistryGrows /\ Progresses'
  <2>1. UNCHANGED publicationVars /\ Asks(r, "tool")
    BY <1>6 DEF CheckTool
  <2>2. CASE Reject(r)
    BY <1>5, <2>1, <2>2
  <2>3. CASE /\ Continue(r, "checked")
             /\ Installed(Catalog[request[r].host], registry, request[r].body.definition.connection)
    <3> DEFINE next == [request[r] EXCEPT !.pc = "checked"]
    <3>1. request' = [request EXCEPT ![r] = next]
      BY <2>3 DEF Continue
    <3>2. next.pc = "checked" /\ next.body = request[r].body /\ next.host = request[r].host
      BY DEF Requested, Sound
    <3> HIDE DEF next
    <3>3. PICK new : new = next
      OBVIOUS
    <3>4. Installed(Catalog[new.host], registry, new.body.definition.connection)'
      BY <2>1, <2>3, <3>2, <3>3 DEF Installed, publicationVars
    <3>5. Progress(new)'
      BY <2>1, <3>2, <3>3, <3>4 DEF Progress, Asks
    <3> QED
      BY <1>2, <2>1, <3>1, <3>3, <3>5
  <2> QED
    BY <1>6, <2>2, <2>3 DEF CheckTool, Asked
<1>7. ASSUME NEW r \in Requests, ReplayAgent(r) PROVE Registered' /\ RegistryGrows /\ Progresses'
  <2>1. CASE Replay(r)
    BY <1>7, <2>1, ReplayAnswers DEF ReplayAgent
  <2>2. CASE NothingToReplay(r) /\ Continue(r, "new")
    <3> DEFINE next == [request[r] EXCEPT !.pc = "new"]
    <3>1. request' = [request EXCEPT ![r] = next]
      BY <2>2 DEF Continue
    <3>2. next.pc = "new"
      BY DEF Requested, Sound
    <3> HIDE DEF next
    <3>3. PICK new : new = next
      OBVIOUS
    <3>4. Progress(new)'
      BY <3>2, <3>3 DEF Progress
    <3> QED
      BY <1>2, <1>7, <2>2, <3>1, <3>3, <3>4 DEF ReplayAgent, NothingToReplay, publicationVars
  <2> QED
    BY <1>7, <2>1, <2>2 DEF ReplayAgent
<1>8. ASSUME NEW r \in Requests, NEW config, UNCHANGED publicationVars,
             request[r].body.kind \in {"agent", "configuration"},
             request[r].body.definition =
                IF request[r].body.kind = "agent" THEN config.source ELSE config,
             request' = [request EXCEPT ![r].pc = "compiled", ![r].config = config]
      PROVE  Registered' /\ RegistryGrows /\ Progresses'
  <2> DEFINE next == [request[r] EXCEPT !.pc = "compiled", !.config = config]
  <2>1. request' = [request EXCEPT ![r] = next]
    BY <1>8 DEF Requested
  <2>2. next.pc = "compiled" /\ next.body = request[r].body /\ next.config = config
    BY DEF Requested, Sound
  <2> HIDE DEF next
  <2>3. PICK new : new = next
    OBVIOUS
  <2>4. Progress(new)'
    BY <1>8, <2>2, <2>3 DEF Progress
  <2> QED
    BY <1>2, <1>8, <2>1, <2>3, <2>4
<1>9. ASSUME NEW r \in Requests, CompileAgent(r) PROVE Registered' /\ RegistryGrows /\ Progresses'
  <2> DEFINE config == Compile(Catalog[request[r].host], registry, request[r].body.definition)
  <2>1. UNCHANGED publicationVars /\ Asks(r, "agent")
    BY <1>9 DEF CompileAgent
  <2>2. config.source = request[r].body.definition
    BY DEF Compile
  <2>3. \/ Reject(r)
        \/ request' = [request EXCEPT ![r].pc = "compiled", ![r].config = config]
    BY <1>9 DEF CompileAgent, Asked
  <2> HIDE DEF config
  <2> QED
    BY <1>5, <1>8, <2>1, <2>2, <2>3 DEF Asks
<1>10. ASSUME NEW r \in Requests, TrustConfiguration(r)
       PROVE  Registered' /\ RegistryGrows /\ Progresses'
  BY <1>8, <1>10 DEF TrustConfiguration, Asks, Asked
<1>11. ASSUME NEW r \in Requests, ReplayAfterFailure(r)
       PROVE  Registered' /\ RegistryGrows /\ Progresses'
  <2>1. Asks(r, "agent")
    BY <1>11 DEF ReplayAfterFailure, Progresses, Progress, At, Asks
  <2>2. CASE Replay(r)
    BY <1>11, <2>1, <2>2, ReplayAnswers DEF ReplayAfterFailure
  <2>3. CASE NothingToReplay(r) /\ Refuse(r)
    BY <1>5, <1>11, <2>3 DEF ReplayAfterFailure, NothingToReplay, publicationVars
  <2> QED
    BY <1>11, <2>2, <2>3 DEF ReplayAfterFailure
<1>12. ASSUME NEW h \in Hosts, HostDies(h) PROVE Registered' /\ RegistryGrows /\ Progresses'
  <2>1. /\ request' = [r \in Requests |-> IF request[r].host = h THEN Waiting("idle", NoBody)
                                                                 ELSE request[r]]
        /\ UNCHANGED publicationVars
    BY <1>12 DEF HostDies
  <2>2. Registered' /\ RegistryGrows
    BY <2>1, RegistryRests
  <2>3. ASSUME NEW q \in Requests PROVE Progress(request[q])'
    <3>1. PICK old : old = request[q]
      OBVIOUS
    <3>2. Progress(old)' /\ Progress(Waiting("idle", NoBody))'
      BY <2>2, <3>1, ProgressGrows, NoProgress DEF Progresses
    <3>3. request'[q] = old \/ request'[q] = Waiting("idle", NoBody)
      BY <2>1, <3>1
    <3> QED
      BY <3>2, <3>3 DEF Progress
  <2> QED
    BY <2>2, <2>3 DEF Progresses
<1>13. ASSUME EnsureNext \/ StartupServes \/ WorkerDies \/ UNCHANGED vars
       PROVE  UNCHANGED publicationVars /\ UNCHANGED request
  BY <1>13 DEF EnsureNext, StartupServes, WorkerDies, vars, requestVars
<1>14. ASSUME NEW k, Revoke(k) \/ RebuildForAdmission(k)
       PROVE  UNCHANGED publicationVars /\ UNCHANGED request
  BY <1>14 DEF Revoke, RebuildForAdmission, requestVars
<1>15. ASSUME NEW ref, NEW key, Submit(ref, key)
       PROVE  UNCHANGED publicationVars /\ UNCHANGED request
  BY <1>15 DEF Submit, requestVars
<1>16. ASSUME NEW k, NEW n, Abandon(k, n) \/ \E x \in Executors : Tick(x, k, n)
       PROVE  UNCHANGED publicationVars /\ UNCHANGED request
  BY <1>16 DEF Abandon, Tick, requestVars
<1>17. ASSUME NEW x, Execute(x) PROVE UNCHANGED publicationVars /\ UNCHANGED request
  BY <1>17 DEF Execute, Claim, Charge, CallModel, SaveAnswer, requestVars
<1> QED
  BY <1>1, <1>3, <1>4, <1>6, <1>7, <1>9, <1>10, <1>11, <1>12, <1>13, <1>14, <1>15, <1>16, <1>17,
     ReplayToolAnswers, CommitToolAnswers, CommitConfigurationAnswers DEF Next

(***************************************************************************)
(* No identical request is refused.                                        *)
(***************************************************************************)
LEMMA NotRefused ==
    ASSUME Requested, Registered, Progresses, [Next]_vars,
           NEW r \in Requests, NEW q \in Requests,
           Asked(r) = Asked(q), At(q, "published"), ~At(r, "refused")
    PROVE  request'[r].pc # "refused"
<1>1. PICK body : body = request[r].body
  OBVIOUS
<1>2. Answered(body)
  BY <1>1 DEF Progresses, Progress, At, Asked
<1>3. ASSUME NEW p \in Requests, NEW next, p # r, request' = [request EXCEPT ![p] = next]
      PROVE  request'[r].pc # "refused"
  BY <1>3 DEF Requested, At
<1>4. ASSUME NEW next, request' = [request EXCEPT ![r] = next], next.pc # "refused"
      PROVE  request'[r].pc # "refused"
  BY <1>4 DEF Requested
<1>5. ASSUME Acknowledge(r) \/ Reject(r) PROVE request'[r].pc # "refused"
  <2>1. PICK next : request' = [request EXCEPT ![r] = next] /\ next.pc \in {"published", "rejected"}
    <3>1. CASE Acknowledge(r)
      <4>1. Waiting("published", body).pc = "published"
        BY DEF Waiting
      <4>2. request' = [request EXCEPT ![r] = Waiting("published", body)]
        BY <1>1, <3>1 DEF Acknowledge
      <4> QED
        BY <4>1, <4>2
    <3>2. CASE Reject(r)
      <4>1. Waiting("rejected", NoBody).pc = "rejected"
        BY DEF Waiting
      <4> QED
        BY <3>2, <4>1 DEF Reject
    <3> QED
      BY <1>5, <3>1, <3>2
  <2> QED
    BY <1>4, <2>1
<1>6. ASSUME NEW pc \in {"new", "checked", "failed"}, Continue(r, pc)
      PROVE  request'[r].pc # "refused"
  BY <1>6 DEF Continue, Requested, Sound
<1>7. ASSUME Asks(r, "agent"), Replay(r) PROVE request'[r].pc # "refused"
  BY <1>1, <1>2, <1>5, <1>7 DEF Replay, Answered, Bound, Asked, Asks
<1>8. ASSUME Asks(r, "agent"), NothingToReplay(r) PROVE FALSE
  BY <1>1, <1>2, <1>8 DEF NothingToReplay, Answered, Bound, Asked, Asks
<1>9. ASSUME ReplayTool(r) PROVE request'[r].pc # "refused"
  <2>1. body.kind = "tool"
    BY <1>1, <1>9 DEF ReplayTool, Asks
  <2>2. Continue(r, "new") \/ Acknowledge(r)
    BY <1>1, <1>2, <1>9, <2>1 DEF ReplayTool, Answered, Bound, Asked
  <2> QED
    BY <1>5, <1>6, <2>2
<1>10. ASSUME CommitTool(r) PROVE request'[r].pc # "refused"
  <2>1. PICK tool, entry, ref : tool = body.definition /\ entry = ToolEntry(r)
                                /\ ref = toolKeys[body.key]
    OBVIOUS
  <2>2. /\ body.kind = "tool"
        /\ Installed(Catalog[request[r].host], registry, tool.connection)
    BY <1>1, <1>10, <2>1 DEF CommitTool, Progresses, Progress, At
  <2>3. entry = Entry(tool)
    BY <1>1, <2>1, <2>2 DEF ToolEntry, Entry, Installed, Asked
  <2>4. registry.tools[ref] = Entry(tool)
    BY <1>2, <2>1, <2>2 DEF Answered, Registered
  <2>5. Bound(toolKeys, body.key, tool.name) = ref
    BY <1>2, <2>1, <2>2 DEF Answered, Bound
  <2>6. Acknowledge(r)
    BY <1>1, <1>10, <2>1, <2>3, <2>4, <2>5 DEF CommitTool, Asked
  <2> QED
    BY <1>5, <2>6
<1>11. ASSUME CommitConfiguration(r) PROVE request'[r].pc # "refused"
  <2>1. PICK config, ref : config = request[r].config
                           /\ ref = Bound(publicationKeys, body.key, config.root)
    OBVIOUS
  <2>2. /\ body.kind \in {"agent", "configuration"}
        /\ body.definition = IF body.kind = "agent" THEN config.source ELSE config
    BY <1>1, <1>11, <2>1 DEF CommitConfiguration, Progresses, Progress, At
  <2>3. CASE PublishedBefore(r) \/ PublishNew(r)
    BY <1>5, <2>3 DEF PublishedBefore, PublishNew
  <2>4. CASE PublishFails(r) /\ body.kind = "agent"
    BY <1>1, <1>6, <2>4 DEF PublishFails, Asks
  <2>5. CASE PublishFails(r) /\ body.kind = "configuration"
    <3>1. ref \in DOMAIN publications /\ publications[ref] = config
      BY <1>2, <2>1, <2>2, <2>5 DEF Answered, Bound
    <3> QED
      BY <1>1, <2>1, <2>5, <3>1 DEF PublishFails, Asked
  <2> QED
    BY <1>11, <2>2, <2>3, <2>4, <2>5 DEF CommitConfiguration
<1>12. ASSUME ReplayAgent(r) PROVE request'[r].pc # "refused"
  BY <1>7, <1>8, <1>12 DEF ReplayAgent
<1>13. ASSUME ReplayAfterFailure(r) PROVE request'[r].pc # "refused"
  <2>1. Asks(r, "agent")
    BY <1>13 DEF ReplayAfterFailure, Progresses, Progress, At, Asks
  <2> QED
    BY <1>7, <1>8, <1>13, <2>1 DEF ReplayAfterFailure
<1>14. ASSUME NEW config, request' = [request EXCEPT ![r].pc = "compiled", ![r].config = config]
       PROVE  request'[r].pc # "refused"
  BY <1>14 DEF Requested, Sound
<1>15. ASSUME CheckTool(r) \/ CompileAgent(r) \/ TrustConfiguration(r)
       PROVE  request'[r].pc # "refused"
  BY <1>5, <1>6, <1>14, <1>15 DEF CheckTool, CompileAgent, TrustConfiguration
<1>16. ASSUME NEW h, Send(r, h) PROVE request'[r].pc # "refused"
  <2>1. PICK sent : /\ request' = [request EXCEPT ![r] = sent]
                    /\ sent.pc = "sent"
    <3>1. PICK b : request' = [request EXCEPT ![r] = [pc |-> "sent", body |-> b, host |-> h,
                                                      config |-> NoConfig]]
      BY <1>16 DEF Send
    <3>2. [pc |-> "sent", body |-> b, host |-> h, config |-> NoConfig].pc = "sent"
      OBVIOUS
    <3> QED
      BY <3>1, <3>2
  <2> QED
    BY <1>4, <2>1
<1>17. ASSUME NEW p \in Requests, p # r,
              \/ \E h \in Hosts : Send(p, h)
              \/ ReplayTool(p) \/ CheckTool(p) \/ CommitTool(p)
              \/ ReplayAgent(p) \/ CompileAgent(p) \/ TrustConfiguration(p)
              \/ CommitConfiguration(p) \/ ReplayAfterFailure(p)
       PROVE  request'[r].pc # "refused"
  <2>1. request'[r] = request[r]
    BY <1>17 DEF Send, ReplayTool, CheckTool, CommitTool, ReplayAgent, CompileAgent,
                 TrustConfiguration, CommitConfiguration, PublishedBefore, PublishNew,
                 PublishFails, ReplayAfterFailure, Replay, Acknowledge, Refuse, Reject,
                 Continue, Requested
  <2> QED
    BY <2>1 DEF At
<1>18. ASSUME NEW h, HostDies(h) PROVE request'[r].pc # "refused"
  BY <1>18 DEF HostDies, Waiting, At
<1>19. ASSUME UNCHANGED request PROVE request'[r].pc # "refused"
  BY <1>19 DEF At
<1>20. ASSUME \/ \E h \in Hosts : Install(h)
              \/ EnsureNext \/ StartupServes \/ WorkerDies \/ UNCHANGED vars
              \/ \E k : Revoke(k) \/ RebuildForAdmission(k)
              \/ \E ref, key : Submit(ref, key)
       PROVE  UNCHANGED request
  BY <1>20 DEF Install, EnsureNext, StartupServes, WorkerDies, vars, requestVars, Revoke,
               RebuildForAdmission, Submit
<1>21. ASSUME NEW k, NEW n, Abandon(k, n) \/ \E x \in Executors : Tick(x, k, n)
       PROVE  UNCHANGED request
  BY <1>21 DEF Abandon, Tick, requestVars
<1>22. ASSUME NEW x, Execute(x) PROVE UNCHANGED request
  BY <1>22 DEF Execute, Claim, Charge, CallModel, SaveAnswer, requestVars
<1> QED
  BY <1>9, <1>10, <1>11, <1>12, <1>13, <1>15, <1>16, <1>17, <1>18, <1>19, <1>20, <1>21, <1>22
  DEF Next

LEMMA AnsweredIsHonoured ==
    ASSUME NEW r \in Requests, Progresses, At(r, "published")
    PROVE  Honoured(r)
BY DEF Progresses, Progress, At, Answered, Honoured, Asked

\* Publishing is idempotent and immutable, across hosts with different defaults
\* and publications that interleave: what was acknowledged stays as it was sent,
\* and replay_customer_tool, the transactions and the replay after a failed commit
\* never refuse a request that is identical to an acknowledged one.
THEOREM IdenticalRequestsAgree == Spec => AnswersAgree
<1> DEFINE IInv == Requested /\ Registered /\ Progresses
           Agree == \A r \in Requests :
              /\ request'[r].pc = "published" => Honoured(r)'
              /\ \A q \in Requests :
                    (Asked(r) = Asked(q) /\ At(q, "published") /\ ~At(r, "refused"))
                        => request'[r].pc # "refused"
<1>1. Init => IInv
  BY RequestInit, AnswersInit
<1>2. IInv /\ [Next]_vars => IInv'
  BY RequestStep, AnswersStep
<1>3. IInv /\ IInv' /\ [Next]_vars => [Agree]_vars
  <2> SUFFICES ASSUME IInv, IInv', [Next]_vars, NEW r \in Requests
               PROVE  /\ request'[r].pc = "published" => Honoured(r)'
                      /\ \A q \in Requests :
                            (Asked(r) = Asked(q) /\ At(q, "published") /\ ~At(r, "refused"))
                                => request'[r].pc # "refused"
    OBVIOUS
  <2>1. request'[r].pc = "published" => Honoured(r)'
    BY AnsweredIsHonoured DEF Progresses, Progress, At, Answered, Honoured, Asked
  <2> QED
    BY <2>1, NotRefused
<1> QED
  BY <1>1, <1>2, <1>3, PTL DEF Spec, AnswersAgree
=============================================================================
