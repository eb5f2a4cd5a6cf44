# A verification project for Hudson

Hudson runs AI agents durably: a *run* is a loop of model calls, tool calls and
a verification, stored step by step, so that any process can go on with it,
people can approve, answer and cancel, and no effect is repeated or lost. The
modules here model that machinery, TLC checks it on small instances, and TLAPS
proves the results that matter most for every instance. Paths are relative to
`src/crates/` unless they begin with `docs/`.

## The system

| Part | State | Operations | What makes it correct |
| --- | --- | --- | --- |
| Agent loop (`hudson-harness`: `agent_loop.rs`, `engine.rs`) | a checkpoint: step, phase, history | `advance(phase, input)` gives the next phase and one action | takes only the input its phase waits for; one step at a time |
| Runtime (`hudson-core`: `runtime.rs`, `dispatch.rs`) | `Run`, `Operation` | submit, tick (scan, dispatch, collect, advance), approve, provide_input, cancel | intent before effect, at most one attempt, outcomes are final, every run ends |
| Admission (`security.rs`) | `Policy` | `admit`, `set_policy` | decided at the moment of the attempt, by the policy of that moment |
| Budgets (`budgets.rs`) | counters of a run; a counter shared by the runs of a host | `reserve`; `BudgetedModel::call` | never passed, never drifting from what was requested |
| Recovery (`recovery.rs`) | - | fence an attempt, abandon a model response, record a receipt | what is uncertain stays so until somebody knows better |
| Local server (`hudson-server`: `routes.rs`) | `active` map with wake flags, one driver behind a mutex | handlers, `App::drive` and its loop | one loop per run, no lost wake-up, no starvation |
| Scheduling (`scheduling.rs`, `hudson-temporal`) | schedule requests; Temporal's workflows | submit with a target, pump, start, acknowledge | no request forgotten, no run started twice |
| Teams (`coordination.rs`, `subagents.rs`, `hudson-temporal/src/lib.rs`) | `TeamTask`, child runs | delegate, join, cascade of cancellation, wait for dependencies | dependents wait; a cancellation covers the tree; the team ends |
| Memory (`memory.rs`) | facts, the snapshot of a run | retain, recall, delete, prepare, retain at completion | a run sees one snapshot; what was deleted does not come back |
| Context (`context.rs`) | archived contents | advance with compaction, commit, retrieve | what is offloaded can be read back |
| Publication (`customer.rs`, `publication.rs`, `published_worker.rs`) | published tools and agents, receipts, worker cache | publish, replay, compile, tick | a retry gives the same receipt; a version is immutable |
| Credentials (`credentials.rs`) | credential bindings | bind, resolve | secrets stay outside of the stored requests |
| Sandbox recovery (`adapters/sandbox_recovery.rs`) | a sandbox execution | inspect, receipt | an execution is reattached to and not repeated |
| Stores (`storage/`) | one `Data` value | `read`, `transact`, `inspect`, `event_page` | a transaction is atomic |
| Follower (`hudson-cli`: `follow.rs`) | a cursor | poll event pages | no event skipped or shown twice |

How they interact: every component reads and writes the store in transactions;
there are no messages between them. The *drivers* (a server thread, a worker
command, a Temporal activity) call `Runtime::tick` in a loop; handlers change
the store beside them. A driver holds no lock on a run between two
transactions, and none at all during a call to a model or a tool. That is where
the difficulty is: whatever a driver has read may have changed when it writes;
it may die in between; its call may have taken effect without an answer; and the
approval, policy, budget or cancellation that it read may not be the current one.
The `hazards` of `PROJECT.json` list these places one by one, with the property
that watches each.

## Modules

| Module | Models |
| --- | --- |
| `HarnessLoop` | the agent loop, as the function `Advance(phase, input)` |
| `RunExecution` | one run from submission to end, EXTENDS `HarnessLoop` |
| `EffectLedger` | abstract: what is promised about external effects |
| `RunEffects` | the refinement mapping `RunExecution` => `EffectLedger` |
| `ServerDrive` | `App::drive`: request handlers, loops, the driver mutex |
| `Scheduling` | schedule requests, pumps and Temporal's acceptance |
| `Delegation` | a lead and its children under the Temporal host |
| `CustomerConfig` | what a catalog makes of a customer's tools and agents, and what a build of the result puts into the store |
| `Publication` | hosts, publications, a trusted startup, runs of published agents, the worker and its budgets, EXTENDS `CustomerConfig` |
| `Conversation` | how a conversation is kept inside its window, as operators |
| `RunRecord` | memory, archive and events of runs, and the client that follows one, EXTENDS `Conversation` |
| `MCRunExecution`, `MCServerDrive`, `MCPublication`, `MCRunRecord` | constants of the runs |
| `RunExecutionProofs` | types, attempts, the order of the operations, and what is final |
| `RunLoopProofs` | the agreement of runtime and agent loop, waits, approvals, budgets; EXTENDS `RunExecutionProofs` |
| `RunEffectsProofs` | `RunExecution` implements `EffectLedger`; EXTENDS `RunLoopProofs` |
| `ServerDriveProofs`, `SchedulingProofs`, `DelegationProofs`, `PublicationProofs`, `RunRecordProofs` | theorems and proofs about the module of that name |

**RunExecution.** `run`, `ops` and `policy` are stored records, with the fields
that the control depends on; `inputs` are the stored user answers. `drv` gives
each driver a program counter, because a tick is a sequence of transactions:
`Tick` and `Scan` read; `AdmitDeny`, `AdmitWait`, `AdmitUnsupported`,
`AdmitStart` and `AdmitNothing` are the outcomes of the first transaction of
`dispatch`; `Execute` is the call, with no lock held; `Settle` and `SettleStale`
are its second transaction; `Collect*`, `Review`, `Advance*`, `Fail` and
`Finish*` follow. The revision check of `tick` is a set: `current` holds the
drivers whose snapshot of the run still has its revision, and every committed
change of the run empties it. `dest` is what the world saw: how often an
executor was called, and whether its effect took place; a call that answers
"unknown" may have done either. A loop over a batch reads one status per
transaction in the code; `Scan` reads them at once, which is the same because a
settled operation never changes again (checked as `OutcomesAreFinal`).
Identities are numbers in request order in place of UUIDs. Byte limits, and
every other way in which the commit of a step can be refused, are
`AdvanceRefused`, which may always happen. Events are not modelled. One policy
governs the tools of a run, and it is read in the transaction that admits: no
property restates this guard, and the properties about policies are about what
expires, and about what becomes of a run whose access is gone. Reads differ from
writes only in what an unusable receipt makes of them; `policies` has both, and
the longer runs have writes, which can end in every way a read can.

**EffectLedger, RunEffects.** The ledger knows of an effect that it was
requested, admitted, uncertain, confirmed, refused or void; an effect is invoked
at most once and only after its admission. `RunEffects` maps the write
operations of a run and their destinations to it, and TLC checks
`Ledger!LedgerSpec` as a property of the runs.

**ServerDrive.** A handler commits and then calls `App::drive`: two steps
(`calls` counts the calls on their way). `active` is the map (no loop, a loop, a
loop with its wake flag set), `task` the blocking threads, `driver` the owner of
the mutex. The inside of a tick is RunExecution's subject; here a tick leaves a
run in any status it can (`Ticked`), and can leave a child where the delegation
tool can (`Delegated`). `busy` is a Running operation without an executor in
this server. `owed` is a history variable: the run has not been ticked since a
request for it was accepted.

**Scheduling.** The order the code gets from `last_attempt` and `created_at` is
kept as two lists, of untried and of tried requests; in the code a request is
pending exactly when it is not acknowledged, so what `NeverForgotten` says of the
code is that a request is made with its run and stays in the scan. Temporal is
modelled from the options the client gives it, `UseExisting` and
`RejectDuplicate`, and `ExecutedOnce` rests on them.

**Delegation.** The activity of the lead reads operations and children
(`ReadOperations`, `ReadChildren`: two reads), then ticks or hands the children to
the workflow; a timeout leaves its executor alive. The lead's operations are its
model call and its delegations; which child a delegation creates, and after
which siblings, is chosen when it executes, since nothing reads the arguments
before. Cancellation is the marking of the tree in one transaction, then the
settling of its runs one by one by a call that can die. Children work one
operation at a time, in their own workflows: `ChildAsk` takes a model call from
the budget the delegation narrowed (`Granted`), or ends a child that has none
left; `Coherent` refuses a task key that exists, a full team, and the same task
with the same prerequisites once more than `MaxRepeated` allows. That the
dependencies of a child are ready is checked in the step in which it starts.

**CustomerConfig, Publication.** Compilation is a function of the catalog of a
host, the registry and the agent a customer sent (`Compile`), and a build is a
function from definition keys to values (`Items`): building a configuration
finds or adds each of them, and conflicts when one is there with another value
(`Accepts`). A digest is the value it is taken of, so that two digests are equal
when the contents are. A request is at one of the points between the
transactions of its handler: `ReplayAgent` looks for an earlier answer,
`CompileAgent` compiles, `CommitConfiguration` is the transaction with its staged
build, and `ReplayAfterFailure` looks again, because another host with other
defaults may have committed the same request meanwhile. `EnsureNext` is the
startup of a trusted host, which builds in the live store and not in a staging
copy: one definition per step, in any order that the code's order of families
allows; its budget is opened with the first of them. `Tick` takes a tree from the worker's cache or builds it again; the build
is one step, because everything it needs was put into the store by the
publication and the submission (checked as `DefinitionsMatch`), and so it writes
nothing. What an activity then does is cut down to what concerns the budget:
`Claim`, `Charge`, `CallModel`, `SaveAnswer`. A policy that an operator revoked
has another value than the one a build wants, so that from then on every build
of a tree that uses it fails: such a run can only be cancelled.

**Conversation, RunRecord.** An exchange is a number and a size; `Enough` are the
counts of archived exchanges with which the request fits, and `Fewest` of them is
what the loop in `context::advance` ends with. An archive is the chain of its
artifacts, the digest of each standing for its content. `StartTick`,
`TakeSnapshot`, `Prepare` and `Commit` are the parts of a tick that touch memory
and context: the recall is read before the transaction that stores the snapshot,
the plan is made outside of any transaction, and `Current` is the check of the
revision under which artifacts, memory and transition are stored together. The
model and its tools are `ModelAnswers`. `stale` and `asked` are history variables:
what was gone when a run was submitted, and the evidence in its requests. The
client's steps are the requests it makes and the lines it prints; a new start
has the cursor of the last printed line.

## Runs

| Run | Question | Bounds |
| --- | --- | --- |
| `drivers` | can racing or dying drivers, people and operators break a run? | 2 drivers, 1 death, 2 model calls, 5 operations, batches of 2 writes, 2 answer keys |
| `policies` | is a tool ever started without an approval that is valid at that moment? | 2 drivers, 3 policies, a clock of 2 instants, batches of 2, tools of every kind |
| `liveness` | does every run end, every cancellation, and a run whose access was withdrawn? | 1 driver, 1 death, 2 model calls, 4 operations, writes under approval, 2 policies |
| `server_drive` | one loop per run, no lost wake-up, no starvation | 3 runs (a lead, a child, a root), 2 threads, 3 requests, 1 fault |
| `scheduling` | started once, acknowledged after, never forgotten | 3 requests of which 1 invalid, 2 pumps, batch of 1, 1 crash, 1 lost call |
| `delegation` | is a team consistent under cancellation, and does it end? | 2 children, 2 tasks of which none may be repeated, 1 model call for a child, or an invalid 0, 2 turns, batches of 2, 2 activities, 1 timeout |
| `publication` | do receipts stay true, does the store hold what was published, are budgets kept, and do published runs end? | 2 hosts with different defaults, 4 requests of which 2 may ask for one of several things, a trusted startup, 2 runs, 2 activities, a cache of 1 tree, budgets of 1 to 3 calls, 1 death; at most two of these at work at once |
| `run_record` | is evidence stable, is nothing lost that is archived, does what was deleted stay so, and does a client see every event once? | 2 drivers, a run of up to 4 exchanges of 2 sizes and one without, a window of 6, 2 memory keys, prompt room for 1 record, pages of 2, 1 retry, 1 new start; at most two processes at work at once |
| `stale_wait`, `interrupted`, `drive_starved`, `team_overlap` | each refutes one statement of the repository; see below | as small as the counterexample allows |

Why these bounds are enough to be of use: every race in this code is between
two actors on one record, so two drivers, two pumps, two threads or two
activities exhibit it; a batch of two has a first and a later operation; two
model calls give a second round trip after every kind of first one; one crash at
any of the steps covers each place to die. The two drivers are interchangeable
and so are the answer keys, and the keys of memories: the runs without liveness
use that symmetry. `publication` and `run_record` have a state constraint that
cuts off states in which a third process is at work, and `run_record` one that
keeps memories out of the longest conversations and of the client's business,
which memories do not touch. Any two processes still meet at every point; what
takes three of them is out of reach of these two runs.
`MaxClock`, `MaxCrashes`, `MaxRequests`, `MaxEffort`, `MaxFaults`, `MaxFailures`,
`MaxTimeouts`, `MaxDeaths`, `MaxRecords`, `MaxRestarts` and `Longest` are bounds of the
models and not of the code.
`MaxOperations`, `MaxModelCalls` and the like are limits of the code. Deadlock is not
checked, since a run that ended, a scheduler without work, or a server without
requests has nothing left to do.

Fairness. `liveness`: a driver keeps ticking (the workflow of a run polls until
the end, and the local loops are restarted by requests), approvers and users
answer, the clock moves, and the operator acts once an executor is gone and a
receipt exists. Without people a run may wait forever, and should: `RunEnds` is
stated for policies that list an approver in the end. Nothing is assumed of
policies changing. `RevokedRunEnds` is the other case: an actor who lost access for
good, and maybe no approver left. Its run ends because the workflow's timer ticks
a waiting run too (`hudson-temporal/src/lib.rs`); one that was ticked only after a
decision would wait forever. The server's own loop stops at Waiting, so there the
same holds only of a run that is resumed; and a host that has to build its tree
again is refused by a revoked policy (`ensure_policy`), which is the case that
`PublishedRunEnds` excuses.
`server_drive`: threads run, and the mutex goes to every waiting thread in the
end, *if it is released again and again*. `scheduling`: a pump scans every five
seconds. `delegation`: workflows and activities go on, and
people decide what they are asked; that a child ends follows from its budget, and
no fairness is assumed of the calls of cancel, which may die. `publication`: an activity that was started goes
on (weak fairness for each), and the workflow of every run keeps asking for its
tick (strong fairness, for other runs take the executors in between); nothing is
assumed of customers, hosts, operators or the startup. A run ends because each
tick that claims it is charged. `PublishedRunEnds` excuses two cases: a policy of
the tree was revoked, and a call of a worker that died waits for an operator.

What the refuted statements show:

- `stale_wait`: a policy that changes while an operation waits for approval
  settles or starts that operation and leaves the run Waiting for its approval.
- `interrupted`: a verification that was interrupted can be settled by no
  recovery command. `RunEnds` therefore holds only up to such operations, and
  tools of unknown outcome that have no effect to show a receipt of.
- `drive_starved`: resuming a child that is queued behind its sibling spins in
  `App::drive` and keeps the driver for itself.
- `team_overlap`: between the check of an activity and its tick, another executor
  can settle the lead's last delegation; the lead then asks its model to
  continue while the child works. `LeadWaitsUnlessOverlapped` shows that this
  takes an activity that Temporal gave up on.

## Proofs

Every invariant and every action property that a run checks is also proved, of
`Spec` and for every value of the constants: any number of drivers, pumps,
threads, activities, requests and runs, any limits, and any number of deaths,
faults, timeouts and lost calls. `ImplementsLedger` is the theorem that a run
implements its abstract specification. The invariants the proofs rest on were
checked by TLC on the instances of the runs before they were proved.

Assumed are only the named assumptions on the constants, which TLC evaluates on
every run. They say that limits are numbers, and those the code refuses at zero
not zero; that policies, tools and catalogs are what their names say; that
"none" is none of them; that the runs of a server form trees of two levels with
dependencies between siblings (`TreeAssumption`; the code allows deeper trees, so
this is a limit of the model); that
there are finitely many runs to keep records of (`RunRecordAssumption`); and
that what a customer sends or a startup wants has the shape that the routes
parse (`OfferedAssumption`).

**RunExecutionProofs**

| Theorem | Property |
| --- | --- |
| `TypeCorrect` | `TypeOK` |
| `NeverRetried` | `AtMostOnce` |
| `RefusalIsFinal` | `RefusedNeverRan` |
| `NeverOvertaken` | `NoOvertaking` |
| `EndsSettled` | `TerminalSettled` |
| `OutcomesStay`, `CancelStopsWork` | `OutcomesAreFinal`, `NoWorkAfterCancel` (what a step may do) |

That an executor is called at most once is not inductive: a driver that is about
to call must be the only one. `AttemptInv` adds that a dispatchable operation has
no attempt, that a driver in a call or about to settle holds the one attempt of
its operation, that the call was made exactly if it is about to settle, and that
two drivers never hold one operation. `OrderInv` is about time: between the read
of a batch and the transaction that admits one of its operations anything may
have happened, but what the driver passed over was settled, and settled is final
(`ScanInOrder`); a driver whose snapshot is current knows the batch
(`Snapshots`); whatever is open is in the batch of the run (`OpenIsPending`). The
order of operations, the end of runs and the finality of outcomes follow. Three
lemmas say once for all actions what a step does to one operation
(`OperationStep`), to the run (`RunStep`) and to a driver (`DriverStep`), so that
each conjunct is preserved by an argument about them and not about every action.

**RunLoopProofs**

| Theorem | Property |
| --- | --- |
| `StaysInSync` | `LoopInSync` |
| `CompletionIsVerified` | `CompletedVerified` |
| `WaitsHaveACause` | `WaitNamesItsCause` |
| `AnsweredOnce` | `AnswerOnce` |
| `ApprovalPrecedesAttempt` | `ApprovalCoversAttempt` |
| `BudgetsHold` | `BudgetRespected` |

`LoopInv` relates the phase of the loop to what is stored: the batch is what the
phase asked for (`PendingBatch`), the next input is one the phase takes
(`NextExpected`, which needs that a result is of the kind of its operation, even
in the hands of a driver that has not stored it: `Results`, `Heard`), a live run
has work, an input or a wait (`NeverIdle`), and an output that passed is that of
the last verification (`PassedIsLast`, `CompletedIsLast`). `BudgetInv` adds that the
counters are the cardinalities of the sets of requested operations; lemmas on
finite sets show that a batch adds as many as its reservation.

**RunEffectsProofs**

`ImplementsLedger` proves `Spec => WritesFollowLedger`, which is `Spec =>
Ledger!LedgerSpec`: the initial states map to initial states, and each action of
`RunExecution` to one of the ledger or to a stutter. `ReceiptInv` is what the
mapping needs: what never was called never took effect, a write that succeeded
did and one that failed did not (`Truthful`); a driver about to settle heard what
happened at the destination, and nobody settles a write before its call was
made (`Witnessed`). Without the last, a receipt recorded in the middle of a call
could be proved wrong by the call.

**ServerDriveProofs**

| Theorem | Property |
| --- | --- |
| `DriveTyping` | `TypeOK` |
| `OneLoop` | `OneLoopPerRun` |
| `NoLostWakeup` | `Attended` |
| `TurnsAreTaken` | only the owner of the mutex ticks |

`DriveInv`: the entry of a run in the map and the thread that serves it come and
go together (`Threads`), calls and wake-ups stem from requests (`Accounted`), and
without a fault no operation is left Running by an executor that is gone
(`NothingLeft`); `Attended` is then inductive.

**SchedulingProofs**

| Theorem | Property |
| --- | --- |
| `PublishedOnce` | `ExecutedOnce` |
| `AcknowledgedAfterAcceptance` | `AckedWasAccepted` |
| `SchedulingTyping` | `TypeOK` |
| `NoRequestIsForgotten` | `NeverForgotten` |

The first two need nothing of the lists (`SchedulingInv`): the number of starts is
0 or 1 as the workflow is absent or not, and a pump that will acknowledge holds
a request whose workflow exists. The last two are about nothing else
(`RequestInv`): no request is in the lists twice, a request is in them from its
submission to its acknowledgement, and a pump only drops or moves what it finds
there. Taking an element out of a list, and picking a batch from it, are defined
by what they return (`Without`, `Batches`) and shown to keep lists without
repetition.

**DelegationProofs**

| Theorem | Property |
| --- | --- |
| `TeamTyping` | `TypeOK` |
| `CancellationCoversTheTree` | `CancelCoversTree` |
| `PrerequisitesFirst` | `DependentsStartAfter` |
| `LeadWaits` | `LeadWaitsUnlessOverlapped` |

The children can be understood without the lead: whoever takes a step, a child
is never revived, and what it asked or did rests on dependencies that completed
(`Asked`). The lead is guarded by the claim of its operation, which one activity
holds (`Claims`): this is why a result is not counted twice although a timed-out
executor goes on. `Alone` says that as long as none timed out the activities do
not overlap, and with it the theorem about the lead; run `team_overlap` shows
that it fails otherwise.

**PublicationProofs**

| Theorem | Property |
| --- | --- |
| `BudgetIsNeverExceeded` | `WithinBudget` |
| `StoreHoldsWhatWasPublished` | `DefinitionsMatch` |
| `IdenticalRequestsAgree` | `AnswersAgree` (what a step may do) |

A host commits a request many steps after it read the store, so all three need
that a request in progress holds what its customer sent and that what was
compiled is a configuration (`Requested`). For the budget, a run goes on naming
the revision it was submitted for (`Submitted`, `Working`), its group was opened by
its submission, and counts every call that was made or will be (`BudgetInv`).
`MatchInv` is the store's side: what a revision or a run needs is there, as it was
or revoked since, and what is there was put there by a publication, a submission
or a startup. That identical requests agree rests on `Registered` (a key names
something published) and `Progresses` (a request that came this far found what
its next step relies on).

**RunRecordProofs**

| Theorem | Property |
| --- | --- |
| `OneEvidence` | `SameEvidence` |
| `EventsShownOnce` | `FollowerSeesAll` |
| `ForgettingLasts` | `ForgottenStaysForgotten` |
| `NothingIsLost` | `Recoverable` |
| `RecordTyping` | `TypeOK` |

- Evidence (`EvidenceInv`): a driver past the preparation of memory finds a
  snapshot, a prepared plan holds it, and no snapshot is replaced.
- Events: a run which ended logs nothing more, although drivers that read it
  before are still at work, because ending it moved its revision on
  (`RecordInv`). Then the page a client holds goes on where its printed events
  end, and a terminal status in its hands was true before it read its last page
  (`ClientInv`).
- Memories: a record that was corrected and its correction name each other, so
  that a search finds a record live only as long as the store does (`MemoryInv`,
  `ForgottenInv`).
- Conversations (`ConversationInv`): what the model sees and the archive are all
  of a run's exchanges, whoever looks, and a driver that prepared for the run as
  it is holds a plan that archives the oldest of them and stores every link and
  output. A plan prepared for an older revision may be anything: it is refused.
- Types (`TypeInv`): a run that completes uses its memory key once, which bounds
  the records made by completions with those the tools make.

An archive is a function by recursion on the number of its exchanges
(`Conversation!Chain`), and the induction that the library states with an operator
as parameter is replaced by the least number: if the chains of two conversations
that begin alike differed anywhere, they would first differ somewhere
(`LeastNumber`, from the library's theorem that the order of the naturals is well
founded). So `SameChain` shows that archiving in parts gives the chain of the
whole, which is what `NothingIsLost` needs.

Only model-checked: the liveness properties `RunEnds`, `RevokedRunEnds`,
`CancellationConfirmed`, `ResumeHonoured`, `EventuallyPublished`, `TeamEnds` and
`PublishedRunEnds`, because fairness and `ENABLED` are out of the prover's reach,
and the four statements that are refuted.

For the sake of the proofs some definitions of the models have a form that a
prover can unfold: `LifeOf` in `RunEffects`, `Batches` and `Without` in `Scheduling`
in place of filters on sequences, `Chain` in place of a fold, `IsConfig` for the
shape of a configuration. They say the same of the code.

## Not modelled

Credentials are environment lookups when an executor is built. The sandbox
adapter reads another system and then records a receipt, which RunExecution has;
provider, HTTP and MCP adapters are I/O whose answers, and lost answers, are the
outcomes of `Execute`. Skills, JSON schemas, workspace checks, verification rules
and length limits are sequential validation. Evaluation drives the same runtime
with test doubles. Authentication is stateless, and configuration is parsed
once. Events are in RunRecord only, and left out of RunExecution; the encodings
of a store in Postgres and in memory are not modelled. Panics, and the clocks of
different workers, are the two hazards of `PROJECT.json` no property covers.

## Plan

1. (done) `HarnessLoop`, `RunExecution` with `EffectLedger`; `ServerDrive`;
   `Scheduling`; `Delegation`; first theorems.
2. (done) `CustomerConfig` and `Publication` with the shared budget and the
   worker's cache; `Conversation` and `RunRecord` with memory, archive and follower;
   the theorems about evidence and events.
3. (done) Child budgets and repetition limits in `Delegation`.
4. (done) Every safety and action property as a theorem, and `Spec =>
   Ledger!LedgerSpec`.
5. Left: trees of more than two levels; the local delegation tool as drivers of
   their own; abstract specifications of `Scheduling` (a set of requests, each
   published once) and of `Publication` (an immutable register), with their
   refinements.
