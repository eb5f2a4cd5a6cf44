---------------------------- MODULE RunExecution ----------------------------
(***************************************************************************)
(* One run of hudson-core, from its submission to its end: Runtime::tick   *)
(* (runtime.rs), dispatch (dispatch.rs), admission (security.rs), budget   *)
(* reservation (budgets.rs), approvals, answers, cancellation, and the     *)
(* operator's recovery commands (recovery.rs).                             *)
(*                                                                         *)
(* Any number of Drivers (a server task, a worker, a Temporal activity)    *)
(* may drive the run at once.  Nothing locks the run between two store     *)
(* transactions, so a driver is a process with a program counter: each     *)
(* store.read or store.transact is one step, and the call to the model or  *)
(* to the tool is a step of its own between two transactions.  A driver    *)
(* may die between any two steps; its memory is lost and the store is not. *)
(*                                                                         *)
(* Child runs, dependencies and memory snapshots, which tick also          *)
(* consults, are the subject of other modules: this run has none of them.  *)
(***************************************************************************)
EXTENDS HarnessLoop, FiniteSets

CONSTANTS
    Drivers,          \* processes that call tick, and cancel
    Keys,             \* idempotency keys of user answers
    Policies,         \* the values the tool's policy may take
    ToolKinds,        \* "read" or "write"; "sandbox": a write this build cannot run
    MaxHarnessSteps,  \* limits.max_harness_steps
    MaxModelCalls,    \* limits.max_model_calls
    MaxOperations,    \* limits.max_operations
    MaxBatchSize,     \* limits.max_batch_size
    ApprovalTTL,      \* expires_at - decided_at of a decision
    MaxClock,         \* bound of the model: the clock stops there
    MaxCrashes        \* bound of the model: driver deaths

Policy == [actor : BOOLEAN,       \* the run's actor is in policy.actors
           approval : BOOLEAN,    \* policy.require_approval
           approver : BOOLEAN]    \* the approver is in policy.approvers

ASSUME PoliciesAssumption == Policies \subseteq Policy
ASSUME ToolKindsAssumption == ToolKinds \subseteq {"read", "write", "sandbox"}
ASSUME LimitsAssumption ==
    /\ MaxHarnessSteps \in Nat
    /\ MaxModelCalls \in Nat
    /\ MaxOperations \in Nat
    /\ MaxBatchSize \in Nat
ASSUME BoundsAssumption ==
    /\ ApprovalTTL \in Nat \ {0}
    /\ MaxClock \in Nat
    /\ MaxCrashes \in Nat

VARIABLES
    run,      \* the stored Run
    ops,      \* the stored Operations of the run
    dest,     \* what the providers and destinations saw of each operation
    drv,      \* the local state of each driver
    current,  \* the drivers whose snapshot of the run still has its revision
    policy,   \* the tool's policy as stored now
    inputs,   \* the stored answers: key -> question it answered, 0 if unused
    clock,    \* now(), in the unit of ApprovalTTL
    crashes   \* driver deaths so far

vars == <<run, ops, dest, drv, current, policy, inputs, clock, crashes>>

(***************************************************************************)
(* Stored state.                                                           *)
(***************************************************************************)
OpId == 1..(MaxOperations + MaxBatchSize + 1)

TerminalStatuses == {"Completed", "Failed", "Cancelled"}
RunStatuses == {"Queued", "Running", "Waiting", "Cancelling"} \cup TerminalStatuses

Settled == {"Succeeded", "Failed", "Denied", "Cancelled"}
Dispatchable == {"Pending", "WaitingApproval"}
Uncertain == {"Running", "Unknown"}
OperationStatuses == {"Absent"} \cup Dispatchable \cup Uncertain \cup Settled

Wait == [kind : {"none", "approval", "reconcile", "input"}, id : Nat]
WaitFor(kind, id) == [kind |-> kind, id |-> id]
NoWait == WaitFor("none", 0)

Decision == [verdict : {"none", "approved", "denied"}, at : Nat]
NoDecision == [verdict |-> "none", at |-> 0]

Usage == [models : Nat, tools : Nat, operations : Nat]

Run == [status : RunStatuses, wait : Wait, phase : Phase, step : Nat,
        pending : SUBSET OpId, next : Input, usage : Usage,
        verified : MaybeOutput, result : MaybeOutput]

Operation ==
    [kind : {"none", "model", "tool", "verify"},
     tool : {"none", "read", "write", "sandbox"},
     out : MaybeOutput,          \* the candidate of a verify request
     step : Nat,                 \* step_index
     status : OperationStatuses,
     attempts : Nat,             \* attempts.len()
     started : Nat,              \* started_at of the last attempt
     decision : Decision,        \* the last approval decision
     result : Input]             \* result of a model or verify operation

NoOperation ==
    [kind |-> "none", tool |-> "none", out |-> NoOutput, step |-> 0,
     status |-> "Absent", attempts |-> 0, started |-> 0,
     decision |-> NoDecision, result |-> NoInput]

Requested(kind, tool, out, step) ==
    [NoOperation EXCEPT !.kind = kind, !.tool = tool, !.out = out,
                        !.step = step, !.status = "Pending"]

(***************************************************************************)
(* Outside the store: how often the executor of an operation was called,   *)
(* and whether the call took effect at its destination.                    *)
(***************************************************************************)
Destination == [calls : Nat, applied : BOOLEAN]

OutcomeKinds == {"none", "value", "invalid", "failed", "unknown"}
Outcome == [kind : OutcomeKinds, result : Input]
OutcomeOf(kind, result) == [kind |-> kind, result |-> result]
NoOutcome == OutcomeOf("none", NoInput)

Places == {"idle", "scan", "admit", "call", "settle", "collect", "review",
           "finish", "advance", "fail"}
Driver == [pc : Places, todo : SUBSET OpId, op : Nat, at : Nat,
           attempt : Nat, got : Outcome]
Idle == [pc |-> "idle", todo |-> {}, op |-> 0, at |-> 0, attempt |-> 0,
         got |-> NoOutcome]
At(pc) == [Idle EXCEPT !.pc = pc]

(***************************************************************************)
(* Helpers.                                                                *)
(***************************************************************************)
Stopped == run.status \in TerminalStatuses \cup {"Cancelling"}

\* o is the first operation of S in request order.
First(S, o) == o \in S /\ \A p \in S : o <= p

PendingIn(statuses) == {o \in run.pending : ops[o].status \in statuses}

Goto(d, pc) == drv' = [drv EXCEPT ![d] = At(pc)]

\* Every committed change of the run increments its revision, which makes
\* the snapshot of every driver stale.
NewRevision == current' = {}

(***************************************************************************)
(* Submission stores the run Queued, with its input as the next one.       *)
(***************************************************************************)
SubmittedRun ==
    [status |-> "Queued", wait |-> NoWait, phase |-> StartPhase, step |-> 0,
     pending |-> {}, next |-> InputOf("start", 0, NoOutput),
     usage |-> [models |-> 0, tools |-> 0, operations |-> 0],
     verified |-> NoOutput, result |-> NoOutput]

Init ==
    /\ run = SubmittedRun
    /\ ops = [o \in OpId |-> NoOperation]
    /\ dest = [o \in OpId |-> [calls |-> 0, applied |-> FALSE]]
    /\ drv = [d \in Drivers |-> Idle]
    /\ current = {}
    /\ policy \in Policies
    /\ inputs = [k \in Keys |-> 0]
    /\ clock = 0
    /\ crashes = 0

(***************************************************************************)
(* Runtime::tick, up to the first write.                                   *)
(***************************************************************************)
\* Mutant: a run that waits for an approval is left alone until it is decided.
TickDecided(d) ==
    /\ drv[d].pc = "idle"
    /\ \/ /\ run.status = "Cancelling"
          /\ Goto(d, "finish")
          /\ UNCHANGED current
       \/ /\ ~Stopped
          /\ run.pending # {}
          /\ run.wait.kind # "approval"
          /\ drv' = [drv EXCEPT ![d] = [At("scan") EXCEPT !.todo = run.pending]]
          /\ UNCHANGED current
       \/ /\ ~Stopped
          /\ run.pending = {}
          /\ run.next # NoInput
          /\ Goto(d, "advance")
          /\ current' = current \cup {d}
    /\ UNCHANGED <<run, ops, dest, policy, inputs, clock, crashes>>

\* Mutant: a tick does not retry the confirmation of a cancellation.
TickOnce(d) ==
    /\ drv[d].pc = "idle"
    /\ ~Stopped
    /\ IF run.pending # {}
       THEN /\ drv' = [drv EXCEPT ![d] = [At("scan") EXCEPT !.todo = run.pending]]
            /\ UNCHANGED current
       ELSE run.next # NoInput /\ Goto(d, "advance") /\ current' = current \cup {d}
    /\ UNCHANGED <<run, ops, dest, policy, inputs, clock, crashes>>

Tick(d) ==
    /\ drv[d].pc = "idle"
    /\ \/ /\ run.status = "Cancelling"
          /\ Goto(d, "finish")
          /\ UNCHANGED current
       \/ /\ ~Stopped
          /\ run.pending # {}
          /\ drv' = [drv EXCEPT ![d] = [At("scan") EXCEPT !.todo = run.pending]]
          /\ UNCHANGED current
       \/ /\ ~Stopped
          /\ run.pending = {}
          /\ run.next # NoInput
          /\ Goto(d, "advance")
          /\ current' = current \cup {d}
    /\ UNCHANGED <<run, ops, dest, policy, inputs, clock, crashes>>

\* Mutant: a driver passes over a member of the batch that is still active.
ScanPast(d) ==
    /\ drv[d].pc = "scan"
    /\ LET open == {o \in drv[d].todo : ops[o].status \in Dispatchable}
       IN \/ \E o \in open :
                /\ First(open, o)
                /\ drv' = [drv EXCEPT ![d] =
                             [At("admit") EXCEPT !.op = o, !.at = clock]]
          \/ open = {} /\ Goto(d, "collect")
    /\ UNCHANGED <<run, ops, dest, current, policy, inputs, clock, crashes>>

\* The loop reads one status per transaction.  A settled status never changes
\* again, so stopping at the first unsettled operation as of one moment is
\* what the loop does.  now() is read here, before the admission.
Scan(d) ==
    /\ drv[d].pc = "scan"
    /\ LET open == {o \in drv[d].todo : ops[o].status \notin Settled}
       IN \/ \E o \in open :
                /\ First(open, o)
                /\ ops[o].status \in Dispatchable
                /\ drv' = [drv EXCEPT ![d] =
                             [At("admit") EXCEPT !.op = o, !.at = clock]]
          \/ /\ \A o \in open : First(open, o) => ops[o].status \in Uncertain
             /\ Goto(d, "collect")
    /\ UNCHANGED <<run, ops, dest, current, policy, inputs, clock, crashes>>

(***************************************************************************)
(* Runtime::dispatch, first transaction: admission.                        *)
(***************************************************************************)
\* Mutants: an approval never expires; it does not cover the instant it is
\* decided at.
AdmissionWith(o, timely) ==
    IF ~policy.actor THEN "deny"
    ELSE IF ~policy.approval \/ (/\ ops[o].decision.verdict = "approved"
                                /\ timely /\ policy.approver) THEN "allow"
    ELSE "wait"
AdmissionForever(o, at) == AdmissionWith(o, ops[o].decision.at <= at)
AdmissionLater(o, at) ==
    AdmissionWith(o, ops[o].decision.at < at /\ at < ops[o].decision.at + ApprovalTTL)

Admission(o, at) ==
    LET decision == ops[o].decision
        valid == /\ decision.verdict = "approved"
                 /\ decision.at <= at
                 /\ at < decision.at + ApprovalTTL
                 /\ policy.approver
    IN IF ~policy.actor THEN "deny"
       ELSE IF ~policy.approval \/ valid THEN "allow"
       ELSE "wait"

\* The request is a tool request and the policy says so now.
Admitted(o, at, admission) ==
    ops[o].kind = "tool" /\ Admission(o, at) = admission

\* Mutants: admission does not check the status again; nor that the run goes on.
CanRedispatch(o) == ~Stopped /\ o \in run.pending
CanDispatchStopped(o) == o \in run.pending /\ ops[o].status \in Dispatchable

CanDispatch(o) ==
    /\ ~Stopped
    /\ o \in run.pending
    /\ ops[o].status \in Dispatchable

\* The run stopped, or the operation is not dispatchable any more: nothing
\* is dispatched.  An operation that left the pending set is an error, which
\* ends the tick.
AdmitNothing(d) ==
    /\ drv[d].pc = "admit"
    /\ ~CanDispatch(drv[d].op)
    /\ IF ~Stopped /\ drv[d].op \notin run.pending
       THEN Goto(d, "idle")
       ELSE Goto(d, "collect")
    /\ UNCHANGED <<run, ops, dest, current, policy, inputs, clock, crashes>>

AdmitDeny(d) ==
    LET o == drv[d].op IN
    /\ drv[d].pc = "admit"
    /\ CanDispatch(o)
    /\ Admitted(o, drv[d].at, "deny")
    /\ ops' = [ops EXCEPT ![o].status = "Denied"]
    /\ Goto(d, "collect")
    /\ UNCHANGED <<run, dest, current, policy, inputs, clock, crashes>>

AdmitWait(d) ==
    LET o == drv[d].op IN
    /\ drv[d].pc = "admit"
    /\ CanDispatch(o)
    /\ Admitted(o, drv[d].at, "wait")
    /\ ops' = [ops EXCEPT ![o].status = "WaitingApproval"]
    /\ run' = [run EXCEPT !.status = "Waiting", !.wait = WaitFor("approval", o)]
    /\ NewRevision
    /\ Goto(d, "collect")
    /\ UNCHANGED <<dest, policy, inputs, clock, crashes>>

\* A sandbox execution that this build does not support fails before any
\* attempt.
AdmitUnsupported(d) ==
    LET o == drv[d].op IN
    /\ drv[d].pc = "admit"
    /\ CanDispatch(o)
    /\ Admitted(o, drv[d].at, "allow")
    /\ ops[o].tool = "sandbox"
    /\ ops' = [ops EXCEPT ![o].status = "Failed"]
    /\ Goto(d, "collect")
    /\ UNCHANGED <<run, dest, current, policy, inputs, clock, crashes>>

\* The intent of the attempt is stored before the call.
AdmitStart(d) ==
    LET o == drv[d].op IN
    /\ drv[d].pc = "admit"
    /\ CanDispatch(o)
    /\ ops[o].kind = "tool" => /\ Admitted(o, drv[d].at, "allow")
                               /\ ops[o].tool # "sandbox"
    /\ ops' = [ops EXCEPT ![o].status = "Running",
                          ![o].attempts = @ + 1,
                          ![o].started = drv[d].at]
    /\ drv' = [drv EXCEPT ![d] = [At("call") EXCEPT
                                    !.op = o, !.attempt = ops[o].attempts + 1]]
    /\ UNCHANGED <<run, dest, current, policy, inputs, clock, crashes>>

(***************************************************************************)
(* The call, with no lock held.  "failed" asserts that nothing took effect *)
(* (ExecutionError::Failed), "unknown" asserts nothing, "invalid" is a     *)
(* result that breaks the output schema or a byte limit: the effect took   *)
(* place and its receipt is unusable.  A verification is computed here.    *)
(***************************************************************************)
NoReceipt(kinds) == {OutcomeOf(kind, NoInput) : kind \in kinds}

Answers(o) ==
    IF ops[o].kind = "model" THEN
        {OutcomeOf("value", response) : response \in ModelResponses}
            \cup NoReceipt({"invalid", "failed", "unknown"})
    ELSE IF ops[o].kind = "tool" THEN
        NoReceipt({"value", "invalid", "failed", "unknown"})
    ELSE
        {OutcomeOf("value", InputOf(verdict, 0, NoOutput)) :
            verdict \in {"passed", "rejected"}}
            \cup NoReceipt({"invalid"})

TookEffect(outcome) ==
    {effect \in BOOLEAN : /\ outcome.kind \in {"value", "invalid"} => effect
                          /\ outcome.kind = "failed" => ~effect}

Execute(d) ==
    LET o == drv[d].op IN
    /\ drv[d].pc = "call"
    /\ \E outcome \in Answers(o) : \E effect \in TookEffect(outcome) :
          /\ dest' = [dest EXCEPT ![o].calls = @ + 1,
                                  ![o].applied = @ \/ effect]
          /\ drv' = [drv EXCEPT ![d].pc = "settle", ![d].got = outcome]
    /\ UNCHANGED <<run, ops, current, policy, inputs, clock, crashes>>

(***************************************************************************)
(* Runtime::dispatch, second transaction: settle the attempt, unless it    *)
(* was fenced meanwhile.  Losing a usable receipt of a write is not        *)
(* evidence that the write did not happen (invalid_result).  A provider    *)
(* that reports token usage changes the run as well.                       *)
(***************************************************************************)
\* Mutant: an unusable receipt fails the operation, whatever its effect.
FailedUnlessValid(o, outcome) ==
    CASE outcome.kind = "value" -> "Succeeded"
      [] outcome.kind = "unknown" -> "Unknown"
      [] OTHER -> "Failed"

SettledAs(o, outcome) ==
    CASE outcome.kind = "value" -> "Succeeded"
      [] outcome.kind = "unknown" -> "Unknown"
      [] outcome.kind = "invalid" /\ ops[o].tool = "write" -> "Unknown"
      [] OTHER -> "Failed"

AttemptIsCurrent(d) ==
    /\ ops[drv[d].op].status = "Running"
    /\ ops[drv[d].op].attempts = drv[d].attempt

SettleStale(d) ==
    /\ drv[d].pc = "settle"
    /\ ~AttemptIsCurrent(d)
    /\ Goto(d, "idle")
    /\ UNCHANGED <<run, ops, dest, current, policy, inputs, clock, crashes>>

Settle(d) ==
    LET o == drv[d].op IN
    /\ drv[d].pc = "settle"
    /\ AttemptIsCurrent(d)
    /\ ops' = [ops EXCEPT ![o].status = SettledAs(o, drv[d].got),
                          ![o].result = drv[d].got.result]
    /\ Goto(d, "collect")
    /\ \/ ops[o].kind = "model" /\ NewRevision
       \/ UNCHANGED current
    /\ UNCHANGED <<run, dest, policy, inputs, clock, crashes>>

(***************************************************************************)
(* Runtime::collect: hand the results of a settled batch to the loop.      *)
(***************************************************************************)
Collectable == run.pending # {} /\ ~Stopped

CollectNothing(d) ==
    /\ drv[d].pc = "collect"
    /\ \/ ~Collectable
       \/ /\ PendingIn({"Unknown"}) = {}
          /\ PendingIn(Dispatchable \cup {"Running"}) # {}
    /\ Goto(d, "review")
    /\ UNCHANGED <<run, ops, dest, current, policy, inputs, clock, crashes>>

CollectUncertain(d) ==
    /\ drv[d].pc = "collect"
    /\ Collectable
    /\ \E o \in OpId :
          /\ First(PendingIn({"Unknown"}), o)
          /\ run' = [run EXCEPT !.status = "Waiting",
                                !.wait = WaitFor("reconcile", o)]
    /\ NewRevision
    /\ Goto(d, "review")
    /\ UNCHANGED <<ops, dest, policy, inputs, clock, crashes>>

\* Mutants: tools that failed are left out of the results; a verification that
\* ran counts as passed.
SuccessesOnly(o) ==
    IF ops[o].kind = "tool"
    THEN InputOf("tools", Cardinality(PendingIn({"Succeeded"})), NoOutput)
    ELSE ops[o].result
VerifiedIfRun(o) ==
    IF ops[o].kind = "tool"
    THEN InputOf("tools", Cardinality(run.pending), NoOutput)
    ELSE IF ops[o].result.kind = "rejected" THEN InputOf("passed", 0, NoOutput)
    ELSE ops[o].result

\* The input a settled batch gives: the response, the verdict, or the tool
\* results, an operation without a result counting as an error result.
BatchInput(o) ==
    IF ops[o].kind = "tool"
    THEN InputOf("tools", Cardinality(run.pending), NoOutput)
    ELSE ops[o].result

CollectBatch(d) ==
    /\ drv[d].pc = "collect"
    /\ Collectable
    /\ PendingIn(Settled) = run.pending
    /\ \E o \in OpId :
          /\ First(run.pending, o)
          /\ LET input == BatchInput(o) IN
             run' = [run EXCEPT
                !.pending = {},
                !.next = input,
                !.wait = NoWait,
                !.status = IF input # NoInput THEN "Running" ELSE "Failed",
                !.verified = IF input.kind = "passed" THEN ops[o].out ELSE @]
    /\ NewRevision
    /\ Goto(d, "review")
    /\ UNCHANGED <<ops, dest, policy, inputs, clock, crashes>>

\* Cancellation can arrive during the call: it is settled by the same tick.
Review(d) ==
    /\ drv[d].pc = "review"
    /\ Goto(d, IF run.status = "Cancelling" THEN "finish" ELSE "idle")
    /\ UNCHANGED <<run, ops, dest, current, policy, inputs, clock, crashes>>

(***************************************************************************)
(* Runtime::tick, the commit of one step of the loop.                      *)
(***************************************************************************)
Move == Advance(run.phase, run.next)

BatchSize(move) ==
    CASE move.action = "execute_tools" -> move.phase.n
      [] move.action \in {"call_model", "verify"} -> 1
      [] OTHER -> 0

\* budgets::reserve: the counters after the reservation.
Reserve(move) ==
    [models |-> run.usage.models + (IF move.action = "call_model" THEN 1 ELSE 0),
     tools |-> run.usage.tools
                 + (IF move.action = "execute_tools" THEN move.phase.n ELSE 0),
     operations |-> run.usage.operations + BatchSize(move)]

\* Mutant: the limits are compared with the counters before the reservation.
WithinBudgetBefore(move) ==
    /\ run.usage.operations <= MaxOperations
    /\ run.usage.models <= MaxModelCalls
    /\ BatchSize(move) <= MaxBatchSize

WithinBudget(move) ==
    /\ Reserve(move).operations <= MaxOperations
    /\ Reserve(move).models <= MaxModelCalls
    /\ BatchSize(move) <= MaxBatchSize

\* A completion needs a passed check of this exact output.
Acceptable(move) ==
    /\ run.step < MaxHarnessSteps
    /\ move.action # "error"
    /\ move.action = "complete" => run.verified = move.phase.out
    /\ WithinBudget(move)

AdvanceStale(d) ==
    /\ drv[d].pc = "advance"
    /\ d \notin current
    /\ Goto(d, "idle")
    /\ UNCHANGED <<run, ops, dest, current, policy, inputs, clock, crashes>>

\* Any other error fails the run.  Byte limits on the checkpoint, the request
\* or the output are not modelled: an acceptable step may be refused too.
AdvanceRefused(d) ==
    /\ drv[d].pc = "advance"
    /\ d \in current
    /\ Goto(d, "fail")
    /\ UNCHANGED <<run, ops, dest, current, policy, inputs, clock, crashes>>

\* Mutant: identities start at zero.
NewOpsFromZero(move) == run.usage.operations..(Reserve(move).operations - 1)

\* New operations get the next identities, in request order.
NewOps(move) == (run.usage.operations + 1)..Reserve(move).operations

RequestKind(move) ==
    CASE move.action = "call_model" -> "model"
      [] move.action = "execute_tools" -> "tool"
      [] OTHER -> "verify"

AdvanceCommit(d) ==
    LET move == Move
        step == run.step + 1
        new == NewOps(move)
        candidate == IF move.action = "verify" THEN move.phase.out ELSE NoOutput
    IN
    /\ drv[d].pc = "advance"
    /\ d \in current
    /\ Acceptable(move)
    /\ run' = [status |-> CASE move.action = "complete" -> "Completed"
                            [] move.action = "wait" -> "Waiting"
                            [] OTHER -> "Running",
               wait |-> CASE move.action = "wait" -> WaitFor("input", step)
                          [] move.action = "complete" -> run.wait
                          [] OTHER -> NoWait,
               phase |-> move.phase,
               step |-> step,
               pending |-> new,
               next |-> NoInput,
               usage |-> Reserve(move),
               verified |-> IF new = {} THEN run.verified ELSE NoOutput,
               result |-> IF move.action = "complete" THEN move.phase.out
                          ELSE run.result]
    /\ \E tool \in [new -> IF move.action = "execute_tools" THEN ToolKinds
                            ELSE {"none"}] :
          ops' = [o \in OpId |->
                    IF o \in new
                    THEN Requested(RequestKind(move), tool[o], candidate, step)
                    ELSE ops[o]]
    /\ NewRevision
    /\ Goto(d, "idle")
    /\ UNCHANGED <<dest, policy, inputs, clock, crashes>>

\* Mutant: the failure is stored whatever the revision.
FailAlways(d) ==
    /\ drv[d].pc = "fail"
    /\ run' = [run EXCEPT !.status = "Failed"]
    /\ NewRevision
    /\ Goto(d, "idle")
    /\ UNCHANGED <<ops, dest, policy, inputs, clock, crashes>>

\* Runtime::fail, under the same revision.
Fail(d) ==
    /\ drv[d].pc = "fail"
    /\ IF d \in current
       THEN run' = [run EXCEPT !.status = "Failed"] /\ NewRevision
       ELSE UNCHANGED <<run, current>>
    /\ Goto(d, "idle")
    /\ UNCHANGED <<ops, dest, policy, inputs, clock, crashes>>

(***************************************************************************)
(* Cancellation: Runtime::cancel marks the run, then finish_cancellation   *)
(* settles it unless an effect is unresolved; every later tick tries       *)
(* again.                                                                  *)
(***************************************************************************)
Cancel(d) ==
    /\ drv[d].pc = "idle"
    /\ ~Stopped
    /\ run' = [run EXCEPT !.status = "Cancelling", !.next = NoInput]
    /\ NewRevision
    /\ Goto(d, "finish")
    /\ UNCHANGED <<ops, dest, policy, inputs, clock, crashes>>

FinishNothing(d) ==
    /\ drv[d].pc = "finish"
    /\ run.status # "Cancelling"
    /\ Goto(d, "idle")
    /\ UNCHANGED <<run, ops, dest, current, policy, inputs, clock, crashes>>

\* Mutant: an operation of unknown outcome does not hold the cancellation.
UnresolvedActive == PendingIn({"Running"})

Unresolved == PendingIn(Uncertain)

\* Mutant: a running operation is cancelled like a pending one.
CancelEverything(d) ==
    /\ drv[d].pc = "finish"
    /\ run.status = "Cancelling"
    /\ ops' = [o \in OpId |->
                 IF o \in PendingIn(Dispatchable \cup Uncertain)
                 THEN [ops[o] EXCEPT !.status = "Cancelled"] ELSE ops[o]]
    /\ run' = [run EXCEPT !.status = "Cancelled", !.wait = NoWait]
    /\ NewRevision
    /\ Goto(d, "idle")
    /\ UNCHANGED <<dest, policy, inputs, clock, crashes>>

FinishCancellation(d) ==
    /\ drv[d].pc = "finish"
    /\ run.status = "Cancelling"
    /\ ops' = [o \in OpId |->
                 IF o \in PendingIn(Dispatchable)
                 THEN [ops[o] EXCEPT !.status = "Cancelled"] ELSE ops[o]]
    /\ \/ /\ Unresolved = {}
          /\ run' = [run EXCEPT !.status = "Cancelled", !.wait = NoWait]
       \/ \E o \in Unresolved :
             /\ \A p \in Unresolved : p <= o
             /\ run' = [run EXCEPT !.wait = WaitFor("reconcile", o)]
    /\ NewRevision
    /\ Goto(d, "idle")
    /\ UNCHANGED <<dest, policy, inputs, clock, crashes>>

(***************************************************************************)
(* Requests from outside.                                                  *)
(***************************************************************************)
\* Runtime::approve, called with now() and an expiry ApprovalTTL later.
Approve(o, verdict) ==
    /\ ops[o].status = "WaitingApproval"
    /\ ~Stopped
    /\ policy.approver
    /\ ops' = [ops EXCEPT
                 ![o].decision = [verdict |-> verdict, at |-> clock],
                 ![o].status = IF verdict = "approved" THEN "Pending"
                                                       ELSE "Denied"]
    /\ run' = [run EXCEPT !.status = "Running", !.wait = NoWait]
    /\ NewRevision
    /\ UNCHANGED <<dest, drv, policy, inputs, clock, crashes>>

\* Mutant: the question is not compared with the one the run waits for.
ProvideAnyInput(key, question) ==
    /\ inputs[key] = 0
    /\ ~Stopped
    /\ question <= run.step
    /\ inputs' = [inputs EXCEPT ![key] = question]
    /\ run' = [run EXCEPT !.next = InputOf("user", 0, NoOutput),
                          !.wait = NoWait, !.status = "Running"]
    /\ NewRevision
    /\ UNCHANGED <<ops, dest, drv, policy, clock, crashes>>

\* Runtime::provide_input.  A key that was used is acknowledged or refused
\* without a change.
ProvideInput(key, question) ==
    /\ inputs[key] = 0
    /\ run.status = "Waiting"
    /\ run.wait = WaitFor("input", question)
    /\ inputs' = [inputs EXCEPT ![key] = question]
    /\ run' = [run EXCEPT !.next = InputOf("user", 0, NoOutput),
                          !.wait = NoWait, !.status = "Running"]
    /\ NewRevision
    /\ UNCHANGED <<ops, dest, drv, policy, clock, crashes>>

\* MemoryStore::set_policy: revocation, or new rules, at any time.
SetPolicy(new) ==
    /\ new # policy
    /\ policy' = new
    /\ UNCHANGED <<run, ops, dest, drv, current, inputs, clock, crashes>>

(***************************************************************************)
(* Recovery by an operator.                                                *)
(***************************************************************************)
\* Runtime::mark_interrupted fences a running attempt.  Nothing checks that
\* its executor is really dead.
MarkInterrupted(o) ==
    /\ ops[o].status = "Running"
    /\ ops' = [ops EXCEPT ![o].status = "Unknown"]
    /\ run' = [run EXCEPT
                 !.status = IF @ = "Cancelling" THEN @ ELSE "Waiting",
                 !.wait = WaitFor("reconcile", o)]
    /\ NewRevision
    /\ UNCHANGED <<dest, drv, policy, inputs, clock, crashes>>

\* Mutant: the receipt is stored and the run is left waiting.
StayWaiting == UNCHANGED run

ResumeRun ==
    run' = [run EXCEPT !.status = IF @ = "Cancelling" THEN @ ELSE "Running",
                       !.wait = NoWait]

\* Runtime::record_reconciled_tool_result.  The caller has a receipt of the
\* destination, so the effect took place.
RecordReconciledToolResult(o) ==
    /\ ops[o].status = "Unknown"
    /\ ops[o].kind = "tool"
    /\ dest[o].applied
    /\ ops' = [ops EXCEPT ![o].status = "Succeeded"]
    /\ ResumeRun
    /\ NewRevision
    /\ UNCHANGED <<dest, drv, policy, inputs, clock, crashes>>

\* Runtime::abandon_model_response.
AbandonModelResponse(o) ==
    /\ ops[o].status = "Unknown"
    /\ ops[o].kind = "model"
    /\ ops' = [ops EXCEPT ![o].status = "Failed", ![o].result = NoInput]
    /\ ResumeRun
    /\ NewRevision
    /\ UNCHANGED <<dest, drv, policy, inputs, clock, crashes>>

(***************************************************************************)
(* A driver dies, or one of its store transactions fails: what it had in   *)
(* memory is gone.  A later Tick is the restarted driver.                  *)
(***************************************************************************)
Crash(d) ==
    /\ drv[d].pc # "idle"
    /\ crashes < MaxCrashes
    /\ crashes' = crashes + 1
    /\ Goto(d, "idle")
    /\ current' = current \ {d}
    /\ UNCHANGED <<run, ops, dest, policy, inputs, clock>>

ClockTick ==
    /\ clock < MaxClock
    /\ clock' = clock + 1
    /\ UNCHANGED <<run, ops, dest, drv, current, policy, inputs, crashes>>

(***************************************************************************)
(* The specification.                                                      *)
(***************************************************************************)
Dispatch(d) ==
    \/ AdmitNothing(d) \/ AdmitDeny(d) \/ AdmitWait(d)
    \/ AdmitUnsupported(d) \/ AdmitStart(d)
    \/ Execute(d) \/ SettleStale(d) \/ Settle(d)

Collect(d) == CollectNothing(d) \/ CollectUncertain(d) \/ CollectBatch(d)

AdvanceRun(d) ==
    AdvanceStale(d) \/ AdvanceRefused(d) \/ AdvanceCommit(d) \/ Fail(d)

Finish(d) == FinishNothing(d) \/ FinishCancellation(d)

Drive(d) ==
    Tick(d) \/ Scan(d) \/ Dispatch(d) \/ Collect(d) \/ Review(d)
        \/ AdvanceRun(d) \/ Finish(d)

Decide(o) == \E verdict \in {"approved", "denied"} : Approve(o, verdict)
Answer(key) == \E question \in 1..MaxHarnessSteps : ProvideInput(key, question)

Next ==
    \/ \E d \in Drivers : Drive(d) \/ Cancel(d) \/ Crash(d)
    \/ \E o \in OpId : \/ Decide(o) \/ MarkInterrupted(o)
                       \/ RecordReconciledToolResult(o)
                       \/ AbandonModelResponse(o)
    \/ \E key \in Keys : Answer(key)
    \/ \E new \in Policies : SetPolicy(new)
    \/ ClockTick

Spec == Init /\ [][Next]_vars

\* The executor of a running operation is gone: the driver that started it
\* died, and an operator can confirm it.
ExecutorGone(o) ==
    /\ ops[o].status = "Running"
    /\ \A d \in Drivers : ~(drv[d].pc \in {"call", "settle"} /\ drv[d].op = o)

(***************************************************************************)
(* Fairness.  Drivers keep ticking (Temporal's RunWorkflow polls until the *)
(* run ends), people answer, time passes, and the operator follows the     *)
(* recovery guide: fence an attempt whose executor is gone, then record a  *)
(* receipt or abandon a model response.                                    *)
(***************************************************************************)
Fairness ==
    /\ \A d \in Drivers : WF_vars(Drive(d))
    /\ \A o \in OpId : /\ WF_vars(Decide(o))
                       /\ WF_vars(ExecutorGone(o) /\ MarkInterrupted(o))
                       /\ WF_vars(RecordReconciledToolResult(o))
                       /\ WF_vars(AbandonModelResponse(o))
    /\ WF_vars(\E key \in Keys : Answer(key))
    /\ WF_vars(ClockTick)

FairSpec == Spec /\ Fairness

\* The same system with an operator who follows recovery.md, and confirms
\* that the executor stopped before fencing its attempt.
CarefulNext ==
    /\ Next
    /\ \A o \in OpId : MarkInterrupted(o) => ExecutorGone(o)

CarefulSpec == Init /\ [][CarefulNext]_vars /\ Fairness

(***************************************************************************)
(* Properties.                                                             *)
(***************************************************************************)
\* The stored records, the drivers and the environment keep their types.
TypeOK ==
    /\ run \in Run
    /\ ops \in [OpId -> Operation]
    /\ dest \in [OpId -> Destination]
    /\ drv \in [Drivers -> Driver]
    /\ current \in SUBSET Drivers
    /\ policy \in Policies
    /\ inputs \in [Keys -> Nat]
    /\ clock \in Nat
    /\ crashes \in Nat

\* The executor of an operation is called at most once, whatever drivers
\* race, die, restart or are fenced: admission stores the only attempt first
\* (dispatch.rs, "No automatic retry is permitted").
AtMostOnce == \A o \in OpId : dest[o].calls <= 1 /\ ops[o].attempts <= 1

\* No driver overtakes an active or uncertain operation: when one is started,
\* every operation requested before it is settled, and so at most one
\* operation of the run is Running or Unknown (the pending loop of tick).
NoOvertaking ==
    \A o, p \in OpId :
        p < o /\ ops[o].attempts > 0 => ops[p].status \in Settled

\* A run that ended left nothing open or uncertain behind (collect, fail and
\* finish_cancellation end a run only when its batch is settled).
TerminalSettled ==
    run.status \in TerminalStatuses =>
        \A o \in OpId : ops[o].status \in Settled \cup {"Absent"}

\* A completed run returns the very output that its last operation, a
\* verification, passed (Action::Complete and verified_candidate_digest).
CompletedVerified ==
    run.status = "Completed" =>
        \E o \in OpId :
            /\ o = run.usage.operations
            /\ ops[o].kind = "verify"
            /\ ops[o].result.kind = "passed"
            /\ ops[o].out = run.result

\* The runtime and the portable loop stay in step: the input it stores is one
\* the loop expects in its phase, and the pending operations are the ones the
\* phase asked for.  A live run is never left with nothing to do or wait for.
LoopInSync ==
    ~Stopped =>
        /\ run.next # NoInput => run.pending = {} /\ Expects(run.phase, run.next)
        /\ \A o \in run.pending :
              /\ ops[o].step = run.step
              /\ ops[o].kind = CASE run.phase.at = "model" -> "model"
                                 [] run.phase.at = "tools" -> "tool"
                                 [] OTHER -> "verify"
        /\ run.next = NoInput /\ run.pending = {} =>
              run.status = "Waiting" /\ run.wait = WaitFor("input", run.step)

\* A run that waits for reconciliation names an operation whose outcome is
\* unknown; one that waits for the user has neither work nor an answer to go on
\* with (which question it waits for is part of LoopInSync).
WaitNamesItsCause ==
    run.status = "Waiting" =>
        /\ run.wait.kind = "reconcile" => ops[run.wait.id].status = "Unknown"
        /\ run.wait.kind = "input" => run.next = NoInput /\ run.pending = {}

\* "clear reasons for waits": between ticks, a run that waits for an approval
\* names an operation that an approver can decide.
ApprovalWaitIsActionable ==
    /\ \A d \in Drivers : drv[d].pc = "idle"
    /\ run.status = "Waiting"
    /\ run.wait.kind = "approval"
    => ops[run.wait.id].status = "WaitingApproval"

\* Under policies that all require an approval, a tool that was started had
\* been approved, the approval had neither expired nor been decided after the
\* moment the admission is judged by, and no decision came later.
ApprovalCoversAttempt ==
    (\A p \in Policies : p.approval) =>
        \A o \in OpId : ops[o].kind = "tool" /\ ops[o].attempts > 0 =>
            /\ ops[o].decision.verdict = "approved"
            /\ ops[o].decision.at <= ops[o].started
            /\ ops[o].started < ops[o].decision.at + ApprovalTTL

\* What was refused or cancelled before its dispatch never reached its
\* executor: a Denied or Cancelled operation has no attempt and no call, even
\* when the refusal raced with another driver's admission.
RefusedNeverRan ==
    \A o \in OpId : ops[o].status \in {"Denied", "Cancelled"} =>
        ops[o].attempts = 0 /\ dest[o].calls = 0

\* The budget counters account for every operation that was ever requested,
\* by kind, and never pass the limits pinned in the run.
Kind(kind) == {o \in OpId : ops[o].kind = kind}
BudgetRespected ==
    /\ run.usage.models = Cardinality(Kind("model"))
    /\ run.usage.tools = Cardinality(Kind("tool"))
    /\ run.usage.operations = Cardinality(OpId \ Kind("none"))
    /\ run.usage.operations <= MaxOperations
    /\ run.usage.models <= MaxModelCalls
    /\ run.step <= MaxHarnessSteps

\* A question takes one answer: two keys never answer the same question, and
\* only questions the run asked were answered.
AnswerOnce ==
    \A k, l \in Keys : inputs[k] # 0 =>
        /\ inputs[k] <= run.step
        /\ inputs[k] = inputs[l] => k = l

\* A finished run and a settled operation never change their outcome, and a
\* cancelling run only becomes Cancelled: no late driver, approval, answer or
\* receipt reopens them.
OutcomesAreFinal ==
    [][ /\ run.status \in TerminalStatuses => run' = run
        /\ run.status = "Cancelling" => run'.status \in {"Cancelling", "Cancelled"}
        /\ \A o \in OpId : ops[o].status \in Settled => ops'[o] = ops[o] ]_vars

\* Once a cancellation is stored no attempt starts and no operation is
\* requested, whatever a driver had read before.
NoWorkAfterCancel ==
    [][ Stopped => \A o \in OpId : /\ ops'[o].attempts = ops[o].attempts
                                   /\ ops'[o].kind = ops[o].kind ]_vars

\* An uncertain operation that no recovery command can settle: a tool without
\* any effect to show a receipt of, or a verification.
Irrecoverable ==
    \E o \in OpId :
        /\ ops[o].status = "Unknown"
        /\ \/ ops[o].kind = "tool" /\ ~dest[o].applied
           \/ ops[o].kind = "verify"

\* Every run ends as long as there is, from some moment on, somebody who may
\* approve: the budgets bound its steps, and every wait is eventually resolved,
\* except for an irrecoverable operation.
RunEnds ==
    <>[]policy.approver => <>(run.status \in TerminalStatuses \/ Irrecoverable)

\* A revocation leaves no run behind: once its actor lost access for good the
\* run ends, although it may wait for the approval of a tool that nobody can
\* decide any more, or for one that was refused behind its back, and although
\* the policy may have allowed some of its batch before.  Its host goes on
\* ticking, also while it waits (run_workflow's timer).
RevokedRunEnds ==
    <>[]~policy.actor => <>(run.status \in TerminalStatuses \/ Irrecoverable)

\* A requested cancellation is confirmed, unless an effect of unknown outcome
\* is left unresolved.
CancellationConfirmed ==
    run.status = "Cancelling" ~> (run.status = "Cancelled" \/ Irrecoverable)

\* "Resume after worker interruption without losing recorded progress": a run
\* always ends when each tool that was uncertain has its receipt.
InterruptedRunEnds ==
    <>(\/ run.status \in TerminalStatuses
       \/ \E o \in OpId : /\ ops[o].status = "Unknown" /\ ops[o].kind = "tool"
                          /\ ~dest[o].applied)
=============================================================================
