------------------------- MODULE RunExecutionProofs -------------------------
(***************************************************************************)
(* Theorems about RunExecution for every set of drivers, every policy and  *)
(* every limit: types, attempts, the order of the operations of a run and  *)
(* the finality of their outcomes.                                         *)
(***************************************************************************)
EXTENDS RunEffects, FiniteSetTheorems, TLAPS

LEMMA AdvanceType ==
    ASSUME NEW phase \in Phase, NEW input \in Input
    PROVE  Advance(phase, input) \in Transition
<1>1. InputOf("none", 0, NoOutput) \in Input
  BY DEF InputOf, Input, InputKinds, MaybeOutput
<1>2. ModelPhase \in Phase
  BY DEF ModelPhase, PhaseOf, Phase, PhaseNames, MaybeOutput
<1>3. PhaseOf("tools", input.n, NoOutput) \in Phase
  BY DEF PhaseOf, Phase, PhaseNames, MaybeOutput, Input
<1>4. PhaseOf("user", 0, NoOutput) \in Phase
  BY DEF PhaseOf, Phase, PhaseNames, MaybeOutput
<1>5. PhaseOf("verification", 0, input.out) \in Phase
  BY DEF PhaseOf, Phase, PhaseNames, Input
<1>6. PhaseOf("done", 0, phase.out) \in Phase
  BY DEF PhaseOf, Phase, PhaseNames
<1> QED
  BY <1>2, <1>3, <1>4, <1>5, <1>6 DEF Advance, Moves, Transition, ActionKinds

LEMMA SettledType ==
    ASSUME NEW o, NEW outcome
    PROVE  SettledAs(o, outcome) \in {"Succeeded", "Failed", "Unknown"}
BY DEF SettledAs

LEMMA AnswersType ==
    ASSUME NEW o, NEW outcome \in Answers(o)
    PROVE  outcome \in Outcome
<1>1. ModelResponses \subseteq Input
  <2>1. \A n \in CallCounts : InputOf("calls", n, NoOutput) \in Input
    BY CallCountsAssumption DEF InputOf, Input, InputKinds, MaybeOutput
  <2>2. \A v \in Outputs : InputOf("final", 0, v) \in Input
    BY DEF InputOf, Input, InputKinds, MaybeOutput
  <2>3. /\ InputOf("badcalls", 0, NoOutput) \in Input
        /\ InputOf("ask", 0, NoOutput) \in Input
    BY DEF InputOf, Input, InputKinds, MaybeOutput
  <2> QED
    BY <2>1, <2>2, <2>3 DEF ModelResponses
<1> QED
  BY <1>1 DEF Answers, NoReceipt, Outcome, OutcomeOf, OutcomeKinds, NoInput, Input,
        InputOf, InputKinds, MaybeOutput

(***************************************************************************)
(* The inductive invariant behind AtMostOnce and RefusedNeverRan.          *)
(***************************************************************************)
\* Operations are numbered by the reservation counter.
Numbering ==
    /\ run.usage.operations <= MaxOperations
    /\ run.pending \subseteq 1..run.usage.operations
    /\ \A o \in OpId : ops[o].status = "Absent" <=> run.usage.operations < o

\* The status of an operation says whether it has an attempt, and only an
\* attempt calls the executor.
Attempts ==
    \A o \in OpId :
        /\ ops[o].status \in {"Absent", "Denied", "Cancelled"} \cup Dispatchable
              => ops[o].attempts = 0
        /\ ops[o].status \in {"Running", "Unknown", "Succeeded"}
              => ops[o].attempts = 1
        /\ ops[o].attempts <= 1
        /\ ops[o].attempts = 0 => dest[o].calls = 0
        /\ dest[o].calls <= 1

\* An attempt belongs to one driver, which has not made its call yet.
Executing(d) == drv[d].pc \in {"call", "settle"}
Executors ==
    \A d \in Drivers :
        /\ drv[d].pc \in {"admit", "call", "settle"} => drv[d].op \in OpId
        /\ Executing(d) => ops[drv[d].op].attempts = 1
        /\ drv[d].pc = "call" => dest[drv[d].op].calls = 0
        /\ \A e \in Drivers \ {d} :
              Executing(d) /\ Executing(e) => drv[d].op # drv[e].op

AttemptInv == TypeOK /\ Numbering /\ Attempts /\ Executors

LEMMA AttemptInit == Init => AttemptInv
<1> SUFFICES ASSUME Init PROVE AttemptInv
  OBVIOUS
<1> USE DEF Init
<1>1. run \in Run
  BY DEF SubmittedRun, Run, RunStatuses, NoWait, Wait, WaitFor, StartPhase,
        PhaseOf, Phase, PhaseNames, InputOf, Input, InputKinds, MaybeOutput, Usage
<1>2. ops \in [OpId -> Operation]
  BY DEF NoOperation, Operation, MaybeOutput, OperationStatuses, NoDecision,
        Decision, NoInput, InputOf, Input, InputKinds
<1>3. Idle \in Driver
  BY DEF Idle, Driver, Places, NoOutcome, OutcomeOf, Outcome, OutcomeKinds,
        NoInput, InputOf, Input, InputKinds, MaybeOutput
<1>4. TypeOK
  BY <1>1, <1>2, <1>3 DEF TypeOK, Destination
<1>5. Numbering
  BY LimitsAssumption DEF Numbering, SubmittedRun, NoOperation, OpId
<1>6. Attempts
  BY DEF Attempts, NoOperation, Dispatchable
<1>7. Executors
  BY DEF Executors, Executing, Idle
<1> QED
  BY <1>4, <1>5, <1>6, <1>7 DEF AttemptInv

LEMMA AtType == ASSUME NEW pc \in Places PROVE At(pc) \in Driver
BY DEF At, Idle, Driver, Places, NoOutcome, OutcomeOf, Outcome, OutcomeKinds,
       NoInput, InputOf, Input, InputKinds, MaybeOutput

LEMMA GotoType ==
    ASSUME TypeOK, NEW d \in Drivers, NEW pc \in Places, Goto(d, pc)
    PROVE  drv' \in [Drivers -> Driver]
BY AtType DEF Goto, TypeOK

LEMMA DriverUpdate ==
    ASSUME NEW rec \in Driver
    PROVE  /\ \A o \in Nat, at \in Nat : [rec EXCEPT !.op = o, !.at = at] \in Driver
           /\ \A o \in Nat, n \in Nat : [rec EXCEPT !.op = o, !.attempt = n] \in Driver
           /\ \A S \in SUBSET OpId : [rec EXCEPT !.todo = S] \in Driver
           /\ \A out \in Outcome : [rec EXCEPT !.pc = "settle", !.got = out] \in Driver
BY DEF Driver, Places

LEMMA StatusType ==
    ASSUME TypeOK, NEW o \in OpId, NEW s \in OperationStatuses
    PROVE [ops EXCEPT ![o].status = s] \in [OpId -> Operation]
<1>1. ops[o] \in Operation
  BY DEF TypeOK
<1>2. [ops[o] EXCEPT !.status = s] \in Operation
  BY <1>1 DEF Operation
<1> QED
  BY <1>2 DEF TypeOK

LEMMA RunUpdate ==
    ASSUME NEW r \in Run, NEW status \in RunStatuses, NEW wait \in Wait
    PROVE  /\ [r EXCEPT !.status = status, !.wait = wait] \in Run
           /\ [r EXCEPT !.wait = wait] \in Run
           /\ [r EXCEPT !.status = status] \in Run
           /\ \A i \in Input : [r EXCEPT !.status = status, !.next = i] \in Run
           /\ \A i \in Input :
                [r EXCEPT !.next = i, !.wait = wait, !.status = status] \in Run
           /\ \A i \in Input, v \in MaybeOutput :
                [r EXCEPT !.pending = {}, !.next = i, !.wait = wait,
                          !.status = status, !.verified = v] \in Run
BY DEF Run

LEMMA WaitType ==
    /\ NoWait \in Wait
    /\ \A n \in Nat, k \in {"approval", "reconcile", "input"} : WaitFor(k, n) \in Wait
    /\ \A o \in OpId, k \in {"approval", "reconcile", "input"} : WaitFor(k, o) \in Wait
BY DEF NoWait, Wait, WaitFor, OpId

LEMMA InputType ==
    /\ NoInput \in Input
    /\ \A k \in InputKinds, n \in Nat, v \in MaybeOutput : InputOf(k, n, v) \in Input
    /\ NoOutput \in MaybeOutput
BY DEF NoInput, InputOf, Input, InputKinds, MaybeOutput

LEMMA OpsUpdate ==
    ASSUME TypeOK, NEW o, NEW f, o \in OpId => f \in Operation,
           ops' = [ops EXCEPT ![o] = f]
    PROVE  ops' \in [OpId -> Operation]
BY DEF TypeOK

LEMMA DriverType ==
    ASSUME TypeOK, NEW d \in Drivers, NEW rec \in Driver,
           drv' = [drv EXCEPT ![d] = rec]
    PROVE  drv' \in [Drivers -> Driver]
BY DEF TypeOK

LEMMA TypeStep == TypeOK /\ [Next]_vars => TypeOK'
<1> SUFFICES ASSUME TypeOK, [Next]_vars PROVE TypeOK'
  OBVIOUS
<1>1. ASSUME NEW d \in Drivers, Tick(d) PROVE TypeOK'
  <2>1. [At("scan") EXCEPT !.todo = run.pending] \in Driver
    BY AtType, DriverUpdate DEF TypeOK, Run, Places
  <2>2. drv' \in [Drivers -> Driver]
    BY <1>1, <2>1, GotoType, DriverType DEF Tick, Places
  <2> QED
    BY <1>1, <2>2 DEF Tick, TypeOK
<1>2. ASSUME NEW d \in Drivers, Scan(d) PROVE TypeOK'
  <2>1. \A o \in OpId : [At("admit") EXCEPT !.op = o, !.at = clock] \in Driver
    <3>1. At("admit") \in Driver
      BY AtType DEF Places
    <3>2. clock \in Nat /\ OpId \subseteq Nat
      BY DEF TypeOK, OpId
    <3> QED
      BY <3>1, <3>2, DriverUpdate
  <2>2. drv[d].todo \subseteq OpId
    BY DEF TypeOK, Driver
  <2>3. drv' \in [Drivers -> Driver]
    BY <1>2, <2>1, <2>2, GotoType, DriverType DEF Scan, Places
  <2> QED
    BY <1>2, <2>3 DEF Scan, TypeOK
<1>3. ASSUME NEW d \in Drivers, AdmitNothing(d) PROVE TypeOK'
  BY <1>3, GotoType DEF AdmitNothing, Places, TypeOK
<1>4. ASSUME NEW d \in Drivers, AdmitDeny(d) PROVE TypeOK'
  <2>1. drv[d].op \in OpId
    BY <1>4 DEF AdmitDeny, CanDispatch, TypeOK, Run
  <2>2. ops' \in [OpId -> Operation]
    BY <1>4, <2>1, StatusType DEF AdmitDeny, OperationStatuses, Settled
  <2> QED
    BY <1>4, <2>2, GotoType DEF AdmitDeny, Places, TypeOK
<1>5. ASSUME NEW d \in Drivers, AdmitUnsupported(d) PROVE TypeOK'
  <2>1. drv[d].op \in OpId
    BY <1>5 DEF AdmitUnsupported, CanDispatch, TypeOK, Run
  <2>2. ops' \in [OpId -> Operation]
    BY <1>5, <2>1, StatusType DEF AdmitUnsupported, OperationStatuses, Settled
  <2> QED
    BY <1>5, <2>2, GotoType DEF AdmitUnsupported, Places, TypeOK
<1>6. ASSUME NEW d \in Drivers, AdmitWait(d) PROVE TypeOK'
  <2>1. drv[d].op \in OpId
    BY <1>6 DEF AdmitWait, CanDispatch, TypeOK, Run
  <2>2. ops' \in [OpId -> Operation]
    BY <1>6, <2>1, StatusType DEF AdmitWait, OperationStatuses, Dispatchable
  <2>3. WaitFor("approval", drv[d].op) \in Wait
    BY <2>1 DEF Wait, WaitFor, OpId
  <2>4. run' \in Run
    BY <1>6, <2>3 DEF AdmitWait, TypeOK, Run, RunStatuses
  <2> QED
    BY <1>6, <2>2, <2>4, GotoType DEF AdmitWait, NewRevision, Places, TypeOK
<1>7. ASSUME NEW d \in Drivers, AdmitStart(d) PROVE TypeOK'
  <2>1. drv[d].op \in OpId /\ ops[drv[d].op] \in Operation /\ drv[d].at \in Nat
    BY <1>7 DEF AdmitStart, CanDispatch, TypeOK, Run, Driver
  <2>2. [ops[drv[d].op] EXCEPT !.status = "Running", !.attempts = @ + 1,
                               !.started = drv[d].at] \in Operation
    <3>1. "Running" \in OperationStatuses
      BY DEF OperationStatuses, Uncertain
    <3> QED
      <4>1. ops[drv[d].op].attempts + 1 \in Nat
        BY <2>1 DEF Operation
      <4>2. \A r \in Operation, n \in Nat, at \in Nat, s \in OperationStatuses :
              [r EXCEPT !.status = s, !.attempts = n, !.started = at] \in Operation
        BY DEF Operation
      <4> QED
        BY <2>1, <3>1, <4>1, <4>2
  <2>3. ops' \in [OpId -> Operation]
    BY <1>7, <2>2 DEF AdmitStart, TypeOK
  <2>4. ops[drv[d].op].attempts + 1 \in Nat
    BY <2>1 DEF Operation
  <2>5. [At("call") EXCEPT !.op = drv[d].op,
                           !.attempt = ops[drv[d].op].attempts + 1] \in Driver
    <3>1. At("call") \in Driver
      BY AtType DEF Places
    <3>2. drv[d].op \in Nat
      BY <2>1 DEF OpId
    <3> QED
      BY <2>4, <3>1, <3>2, DriverUpdate
  <2>6. drv' \in [Drivers -> Driver]
    BY <1>7, <2>5, DriverType DEF AdmitStart
  <2> QED
    BY <1>7, <2>3, <2>6 DEF AdmitStart, TypeOK
<1>8. ASSUME NEW d \in Drivers, Execute(d) PROVE TypeOK'
  <2>1. PICK outcome \in Answers(drv[d].op) : \E effect \in TookEffect(outcome) :
          /\ dest' = [dest EXCEPT ![drv[d].op].calls = @ + 1,
                                  ![drv[d].op].applied = @ \/ effect]
          /\ drv' = [drv EXCEPT ![d].pc = "settle", ![d].got = outcome]
    BY <1>8 DEF Execute
  <2>2. drv' \in [Drivers -> Driver]
    <3>1. outcome \in Outcome
      BY AnswersType
    <3>2. [drv[d] EXCEPT !.pc = "settle", !.got = outcome] \in Driver
      BY <3>1, DriverUpdate DEF TypeOK
    <3> QED
      BY <2>1, <3>2 DEF TypeOK
  <2>3. dest' \in [OpId -> Destination]
    <3>1. PICK effect \in BOOLEAN :
            dest' = [dest EXCEPT ![drv[d].op].calls = @ + 1,
                                 ![drv[d].op].applied = @ \/ effect]
      BY <2>1 DEF TookEffect
    <3>2. ASSUME drv[d].op \in OpId
          PROVE  [dest[drv[d].op] EXCEPT !.calls = @ + 1, !.applied = @ \/ effect]
                    \in Destination
      <4>1. dest[drv[d].op] \in Destination
        BY <3>2 DEF TypeOK
      <4>2. \A n \in Nat, b \in BOOLEAN :
              [dest[drv[d].op] EXCEPT !.calls = n, !.applied = b] \in Destination
        BY <4>1 DEF Destination
      <4>3. dest[drv[d].op].calls + 1 \in Nat
        BY <4>1 DEF Destination
      <4>4. (dest[drv[d].op].applied \/ effect) \in BOOLEAN
        OBVIOUS
      <4> QED
        BY <4>2, <4>3, <4>4
    <3> QED
      BY <3>1, <3>2 DEF TypeOK
  <2> QED
    BY <1>8, <2>2, <2>3 DEF Execute, TypeOK
<1>9. ASSUME NEW d \in Drivers, SettleStale(d) PROVE TypeOK'
  BY <1>9, GotoType DEF SettleStale, Places, TypeOK
<1>10. ASSUME NEW d \in Drivers, Settle(d) PROVE TypeOK'
  <2>1. drv[d].got \in Outcome /\ drv[d].got.result \in Input
    BY DEF TypeOK, Driver, Outcome
  <2>2. SettledAs(drv[d].op, drv[d].got) \in OperationStatuses
    <3>1. {"Succeeded", "Failed", "Unknown"} \subseteq OperationStatuses
      BY DEF OperationStatuses, Settled, Uncertain
    <3> QED
      BY <3>1, SettledType
  <2>3. ops' \in [OpId -> Operation]
    <3> DEFINE f == [ops[drv[d].op] EXCEPT
                       !.status = SettledAs(drv[d].op, drv[d].got),
                       !.result = drv[d].got.result]
    <3>1. ASSUME drv[d].op \in OpId PROVE f \in Operation
      <4>1. ops[drv[d].op] \in Operation
        BY <3>1 DEF TypeOK
      <4> QED
        BY <4>1, <2>1, <2>2 DEF Operation
    <3>2. ops' = [ops EXCEPT ![drv[d].op] = f]
      BY <1>10 DEF Settle
    <3> QED
      BY <3>1, <3>2, OpsUpdate
  <2> QED
    BY <1>10, <2>3, GotoType DEF Settle, NewRevision, Places, TypeOK
<1>11. ASSUME NEW d \in Drivers, CollectNothing(d) PROVE TypeOK'
  BY <1>11, GotoType DEF CollectNothing, Places, TypeOK
<1>12. ASSUME NEW d \in Drivers, CollectUncertain(d) PROVE TypeOK'
  <2>1. "Waiting" \in RunStatuses /\ run \in Run
    BY DEF RunStatuses, TypeOK
  <2>2. run' \in Run
    <3>1. PICK o \in OpId : run' = [run EXCEPT !.status = "Waiting",
                                               !.wait = WaitFor("reconcile", o)]
      BY <1>12 DEF CollectUncertain
    <3>2. WaitFor("reconcile", o) \in Wait
      BY WaitType
    <3> QED
      BY <2>1, <3>1, <3>2, RunUpdate
  <2> QED
    BY <1>12, <2>2, GotoType DEF CollectUncertain, NewRevision, Places, TypeOK
<1>13. ASSUME NEW d \in Drivers, CollectBatch(d) PROVE TypeOK'
  <2>1. ASSUME NEW o \in OpId PROVE BatchInput(o) \in Input /\ ops[o].out \in MaybeOutput
    <3>1. Cardinality(run.pending) \in Nat
      <4>1. IsFiniteSet(OpId)
        BY FS_Interval, LimitsAssumption DEF OpId
      <4> QED
        BY <4>1, FS_Subset, FS_CardinalityType DEF TypeOK, Run
    <3> QED
      BY <3>1 DEF BatchInput, InputOf, Input, InputKinds, MaybeOutput, TypeOK, Operation
  <2>2. /\ {"Running", "Failed"} \subseteq RunStatuses
        /\ run \in Run /\ run.verified \in MaybeOutput
    BY DEF RunStatuses, TerminalStatuses, TypeOK, Run
  <2>3. run' \in Run
    <3>1. PICK o \in OpId :
            run' = [run EXCEPT
                !.pending = {},
                !.next = BatchInput(o),
                !.wait = NoWait,
                !.status = IF BatchInput(o) # NoInput THEN "Running" ELSE "Failed",
                !.verified = IF BatchInput(o).kind = "passed" THEN ops[o].out ELSE @]
      BY <1>13 DEF CollectBatch
    <3> QED
      BY <2>1, <2>2, <3>1, WaitType, RunUpdate
  <2> QED
    BY <1>13, <2>3, GotoType DEF CollectBatch, NewRevision, Places, TypeOK
<1>14. ASSUME NEW d \in Drivers, Review(d) PROVE TypeOK'
  BY <1>14, GotoType DEF Review, Places, TypeOK
<1>15. ASSUME NEW d \in Drivers, AdvanceStale(d) PROVE TypeOK'
  BY <1>15, GotoType DEF AdvanceStale, Places, TypeOK
<1>16. ASSUME NEW d \in Drivers, AdvanceRefused(d) PROVE TypeOK'
  BY <1>16, GotoType DEF AdvanceRefused, Places, TypeOK
<1>17. ASSUME NEW d \in Drivers, FinishNothing(d) PROVE TypeOK'
  BY <1>17, GotoType DEF FinishNothing, Places, TypeOK
<1>18. ASSUME NEW d \in Drivers, AdvanceCommit(d) PROVE TypeOK'
  <2> DEFINE move == Move
  <2>1. move \in Transition /\ run.step \in Nat /\ run.usage \in Usage
    BY AdvanceType DEF Move, TypeOK, Run
  <2>2. Reserve(move) \in Usage /\ BatchSize(move) \in Nat
    BY <2>1 DEF Reserve, BatchSize, Usage, Transition, Phase
  <2>3. NewOps(move) \subseteq OpId
    <3>1. Reserve(move).operations <= MaxOperations
      BY <1>18 DEF AdvanceCommit, Acceptable, WithinBudget
    <3>2. run.usage.operations \in Nat /\ Reserve(move).operations \in Nat
      BY <2>1, <2>2 DEF Usage
    <3>3. NewOps(move) = (run.usage.operations + 1)..Reserve(move).operations
      BY DEF NewOps
    <3> QED
      BY <3>1, <3>2, <3>3, LimitsAssumption DEF OpId
  <2>4. run' \in Run
    <3>1. NoWait \in Wait /\ WaitFor("input", run.step + 1) \in Wait
      BY <2>1 DEF NoWait, Wait, WaitFor
    <3>2. NoInput \in Input /\ NoOutput \in MaybeOutput
      BY DEF NoInput, InputOf, Input, InputKinds, MaybeOutput
    <3>3. move.phase \in Phase /\ move.phase.out \in MaybeOutput
      BY <2>1 DEF Transition, Phase
    <3>4. run \in Run
      BY DEF TypeOK
    <3> QED
      BY <1>18, <2>1, <2>2, <2>3, <3>1, <3>2, <3>3, <3>4
         DEF AdvanceCommit, Run, RunStatuses, TerminalStatuses
  <2>5. ops' \in [OpId -> Operation]
    <3>1. ASSUME NEW tool \in ToolKinds \cup {"none"}
          PROVE  Requested(RequestKind(move), tool,
                           IF move.action = "verify" THEN move.phase.out
                                                     ELSE NoOutput,
                           run.step + 1) \in Operation
      <4>1. NoOperation \in Operation
        BY InputType DEF NoOperation, Operation, OperationStatuses, NoDecision, Decision
      <4>2. (IF move.action = "verify" THEN move.phase.out ELSE NoOutput) \in MaybeOutput
        BY <2>1, InputType DEF Transition, Phase
      <4>3. "Pending" \in OperationStatuses
        BY DEF OperationStatuses, Dispatchable
      <4>4. RequestKind(move) \in {"none", "model", "tool", "verify"}
        BY DEF RequestKind
      <4>5. tool \in {"none", "read", "write", "sandbox"}
        BY ToolKindsAssumption
      <4>6. run.step + 1 \in Nat
        BY <2>1
      <4> HIDE DEF move
      <4> QED
        BY <4>1, <4>2, <4>3, <4>4, <4>5, <4>6 DEF Requested, Operation
    <3> QED
      BY <1>18, <3>1 DEF AdvanceCommit, TypeOK
  <2> QED
    BY <1>18, <2>4, <2>5, GotoType DEF AdvanceCommit, NewRevision, Places, TypeOK
<1>19. ASSUME NEW d \in Drivers, Fail(d) PROVE TypeOK'
  <2>1. run' \in Run
    BY <1>19 DEF Fail, TypeOK, Run, RunStatuses, TerminalStatuses
  <2> QED
    BY <1>19, <2>1, GotoType DEF Fail, NewRevision, Places, TypeOK
<1>20. ASSUME NEW d \in Drivers, FinishCancellation(d) PROVE TypeOK'
  <2>1. ops' \in [OpId -> Operation]
    BY <1>20 DEF FinishCancellation, TypeOK, Operation, OperationStatuses, Settled
  <2>2. Unresolved \subseteq OpId
    BY DEF Unresolved, PendingIn, TypeOK, Run
  <2>3. run' \in Run
    <3>1. "Cancelled" \in RunStatuses /\ run \in Run
      BY DEF RunStatuses, TerminalStatuses, TypeOK
    <3> QED
      <4>1. CASE run' = [run EXCEPT !.status = "Cancelled", !.wait = NoWait]
        BY <3>1, <4>1, WaitType, RunUpdate
      <4>2. ASSUME NEW o \in OpId,
                   run' = [run EXCEPT !.wait = WaitFor("reconcile", o)]
            PROVE  run' \in Run
        <5>1. WaitFor("reconcile", o) \in Wait
          BY WaitType
        <5> QED
          BY <3>1, <4>2, <5>1, RunUpdate
      <4> QED
        BY <1>20, <2>2, <4>1, <4>2 DEF FinishCancellation
  <2> QED
    BY <1>20, <2>1, <2>3, GotoType DEF FinishCancellation, NewRevision, Places, TypeOK
<1>21. ASSUME NEW d \in Drivers, Cancel(d) PROVE TypeOK'
  <2>1. run' \in Run
    BY <1>21 DEF Cancel, TypeOK, Run, RunStatuses, NoInput, InputOf, Input,
                InputKinds, MaybeOutput
  <2> QED
    BY <1>21, <2>1, GotoType DEF Cancel, NewRevision, Places, TypeOK
<1>22. ASSUME NEW d \in Drivers, Crash(d) PROVE TypeOK'
  BY <1>22, GotoType DEF Crash, Places, TypeOK
<1>23. ASSUME NEW o \in OpId, NEW verdict \in {"approved", "denied"},
           Approve(o, verdict) PROVE TypeOK'
  <2>1. ops' \in [OpId -> Operation]
    BY <1>23 DEF Approve, TypeOK, Operation, OperationStatuses, Settled, Dispatchable,
              Decision
  <2>2. run' \in Run
    BY <1>23 DEF Approve, TypeOK, Run, RunStatuses, NoWait, Wait, WaitFor
  <2> QED
    BY <1>23, <2>1, <2>2 DEF Approve, NewRevision, TypeOK
<1>24. ASSUME NEW o \in OpId, MarkInterrupted(o) PROVE TypeOK'
  <2>1. ops' \in [OpId -> Operation]
    BY <1>24, StatusType DEF MarkInterrupted, OperationStatuses, Uncertain
  <2>2. run' \in Run
    <3>1. /\ (IF run.status = "Cancelling" THEN run.status ELSE "Waiting") \in RunStatuses
          /\ run \in Run
      BY DEF RunStatuses, TypeOK
    <3> QED
      BY <1>24, <3>1, WaitType, RunUpdate DEF MarkInterrupted
  <2> QED
    BY <1>24, <2>1, <2>2 DEF MarkInterrupted, NewRevision, TypeOK
<1>25. ASSUME NEW o \in OpId, RecordReconciledToolResult(o) PROVE TypeOK'
  <2>1. ops' \in [OpId -> Operation]
    BY <1>25, StatusType DEF RecordReconciledToolResult, OperationStatuses, Settled
  <2>2. run' \in Run
    BY <1>25 DEF RecordReconciledToolResult, ResumeRun, TypeOK, Run, RunStatuses, NoWait,
              Wait, WaitFor
  <2> QED
    BY <1>25, <2>1, <2>2 DEF RecordReconciledToolResult, NewRevision, TypeOK
<1>26. ASSUME NEW o \in OpId, AbandonModelResponse(o) PROVE TypeOK'
  <2>1. ops' \in [OpId -> Operation]
    <3>1. "Failed" \in OperationStatuses
      BY DEF OperationStatuses, Settled
    <3>2. [ops[o] EXCEPT !.status = "Failed", !.result = NoInput] \in Operation
      BY <3>1, InputType DEF TypeOK, Operation
    <3> QED
      BY <1>26, <3>2 DEF AbandonModelResponse, TypeOK
  <2>2. run' \in Run
    BY <1>26 DEF AbandonModelResponse, ResumeRun, TypeOK, Run, RunStatuses, NoWait,
              Wait, WaitFor
  <2> QED
    BY <1>26, <2>1, <2>2 DEF AbandonModelResponse, NewRevision, TypeOK
<1>27. ASSUME NEW key \in Keys, Answer(key) PROVE TypeOK'
  <2>1. run' \in Run
    <3>1. "Running" \in RunStatuses /\ run \in Run /\ "user" \in InputKinds
      BY DEF RunStatuses, TypeOK, InputKinds
    <3> QED
      <4>1. InputOf("user", 0, NoOutput) \in Input
        BY <3>1, InputType
      <4>2. run' = [run EXCEPT !.next = InputOf("user", 0, NoOutput),
                               !.wait = NoWait, !.status = "Running"]
        BY <1>27 DEF Answer, ProvideInput
      <4> QED
        BY <3>1, <4>1, <4>2, WaitType, RunUpdate
  <2> QED
    BY <1>27, <2>1 DEF Answer, ProvideInput, NewRevision, TypeOK
<1>28. ASSUME NEW new \in Policies, SetPolicy(new) PROVE TypeOK'
  BY <1>28 DEF SetPolicy, TypeOK
<1>29. CASE ClockTick
  BY <1>29 DEF ClockTick, TypeOK
<1>30. CASE UNCHANGED vars
  BY <1>30 DEF vars, TypeOK
<1> QED
  BY <1>1, <1>2, <1>3, <1>4, <1>5, <1>6, <1>7, <1>8, <1>9, <1>10, <1>11, <1>12, <1>13, <1>14, <1>15, <1>16, <1>17, <1>18, <1>19, <1>20, <1>21, <1>22, <1>23, <1>24, <1>25, <1>26, <1>27, <1>28, <1>29, <1>30
     DEF Next, Drive, Dispatch, Collect, AdvanceRun, Finish, Decide

LEMMA QuietDriver ==
    ASSUME TypeOK, Executors, NEW d \in Drivers, NEW rec,
           drv' = [drv EXCEPT ![d] = rec],
           rec.pc \notin {"admit", "call", "settle"},
           UNCHANGED <<ops, dest>>
    PROVE  Executors'
BY DEF TypeOK, Executors, Executing

LEMMA AttemptStep == AttemptInv /\ [Next]_vars => AttemptInv'
<1> SUFFICES ASSUME AttemptInv, [Next]_vars
             PROVE  Numbering' /\ Attempts' /\ Executors'
  BY TypeStep DEF AttemptInv
<1>0. /\ run \in Run /\ ops \in [OpId -> Operation] /\ drv \in [Drivers -> Driver]
      /\ dest \in [OpId -> Destination] /\ Numbering /\ Attempts /\ Executors
  BY DEF AttemptInv, TypeOK
<1>1. ASSUME NEW d \in Drivers, Tick(d) PROVE Numbering' /\ Attempts' /\ Executors'
  <2>1. Numbering'
    BY <1>0, <1>1 DEF Tick, Numbering, Operation, Run
  <2>2. Attempts'
    BY <1>0, <1>1 DEF Tick, Attempts, Operation, Destination
  <2>3. Executors'
    <3>1. PICK rec : /\ drv' = [drv EXCEPT ![d] = rec]
                     /\ rec.pc \in {"finish", "scan", "advance"}
      <4>1. At("finish").pc = "finish" /\ At("advance").pc = "advance"
        BY DEF At, Idle
      <4>2. [At("scan") EXCEPT !.todo = run.pending].pc = "scan"
        BY DEF At, Idle
      <4> QED
        BY <1>1, <4>1, <4>2 DEF Tick, Goto
    <3> QED
      BY <1>0, <1>1, <3>1, QuietDriver DEF Tick, AttemptInv
  <2> QED
    BY <2>1, <2>2, <2>3
<1>2. ASSUME NEW d \in Drivers, Scan(d) PROVE Numbering' /\ Attempts' /\ Executors'
  <2>1. Numbering'
    BY <1>0, <1>2 DEF Scan, Numbering, Operation, Run, OpId
  <2>2. Attempts'
    BY <1>0, <1>2 DEF Scan, Attempts, Operation, Destination, OpId
  <2>3. Executors'
    <3>1. CASE Goto(d, "collect")
      <4>1. At("collect").pc = "collect"
        BY DEF At, Idle
      <4> QED
        BY <1>0, <1>2, <3>1, <4>1, QuietDriver DEF Scan, Goto, AttemptInv
    <3>2. ASSUME NEW o \in OpId,
                 drv' = [drv EXCEPT ![d] = [At("admit") EXCEPT !.op = o, !.at = clock]]
          PROVE  Executors'
      <4> DEFINE rec == [At("admit") EXCEPT !.op = o, !.at = clock]
      <4>1. rec.pc = "admit" /\ rec.op = o
        BY DEF At, Idle
      <4>2. drv' = [drv EXCEPT ![d] = rec]
        BY <3>2
      <4> HIDE DEF rec
      <4> QED
        BY <1>0, <1>2, <4>1, <4>2 DEF Scan, Executors, Executing
    <3>3. drv[d].todo \subseteq OpId
      BY <1>0 DEF Driver
    <3> QED
      BY <1>2, <3>1, <3>2, <3>3 DEF Scan
  <2> QED
    BY <2>1, <2>2, <2>3
<1>3. ASSUME NEW d \in Drivers, AdmitNothing(d) PROVE Numbering' /\ Attempts' /\ Executors'
  <2>1. Numbering'
    BY <1>0, <1>3 DEF AdmitNothing, Numbering, Operation, Run
  <2>2. Attempts'
    BY <1>0, <1>3 DEF AdmitNothing, Attempts, Operation, Destination
  <2>3. Executors'
    <3>1. At("idle").pc = "idle" /\ At("collect").pc = "collect"
      BY DEF At, Idle
    <3> QED
      BY <1>0, <1>3, <3>1, QuietDriver DEF AdmitNothing, Goto, AttemptInv
  <2> QED
    BY <2>1, <2>2, <2>3
<1>4. ASSUME NEW d \in Drivers, AdmitDeny(d) PROVE Numbering' /\ Attempts' /\ Executors'
  <2>1. Numbering'
    BY <1>0, <1>4 DEF AdmitDeny, Numbering, Operation, Run, CanDispatch, Dispatchable
  <2>2. Attempts'
    BY <1>0, <1>4 DEF AdmitDeny, Attempts, Operation, Destination, CanDispatch, Dispatchable
  <2>3. Executors'
    BY <1>0, <1>4 DEF AdmitDeny, Executors, Executing, Goto, At, Idle, Operation, Destination, Driver, CanDispatch, Dispatchable
  <2> QED
    BY <2>1, <2>2, <2>3
<1>5. ASSUME NEW d \in Drivers, AdmitWait(d) PROVE Numbering' /\ Attempts' /\ Executors'
  <2>1. Numbering'
    BY <1>0, <1>5 DEF AdmitWait, Numbering, Operation, Run, CanDispatch, Dispatchable
  <2>2. Attempts'
    BY <1>0, <1>5 DEF AdmitWait, Attempts, Operation, Destination, CanDispatch, Dispatchable
  <2>3. Executors'
    BY <1>0, <1>5 DEF AdmitWait, Executors, Executing, Goto, At, Idle, Operation, Destination, Driver, CanDispatch, Dispatchable
  <2> QED
    BY <2>1, <2>2, <2>3
<1>6. ASSUME NEW d \in Drivers, AdmitUnsupported(d) PROVE Numbering' /\ Attempts' /\ Executors'
  <2>1. Numbering'
    BY <1>0, <1>6 DEF AdmitUnsupported, Numbering, Operation, Run, CanDispatch, Dispatchable
  <2>2. Attempts'
    BY <1>0, <1>6 DEF AdmitUnsupported, Attempts, Operation, Destination, CanDispatch, Dispatchable
  <2>3. Executors'
    BY <1>0, <1>6 DEF AdmitUnsupported, Executors, Executing, Goto, At, Idle, Operation, Destination, Driver, CanDispatch, Dispatchable
  <2> QED
    BY <2>1, <2>2, <2>3
<1>7. ASSUME NEW d \in Drivers, AdmitStart(d) PROVE Numbering' /\ Attempts' /\ Executors'
  <2>1. Numbering'
    BY <1>0, <1>7 DEF AdmitStart, Numbering, Operation, Run, CanDispatch, Dispatchable
  <2>2. Attempts'
    BY <1>0, <1>7 DEF AdmitStart, Attempts, Operation, Destination, CanDispatch, Dispatchable
  <2>3. Executors'
    BY <1>0, <1>7 DEF AdmitStart, Executors, Executing, Goto, At, Idle, Operation, Destination, Driver, CanDispatch, Dispatchable
  <2> QED
    BY <2>1, <2>2, <2>3
<1>8. ASSUME NEW d \in Drivers, Execute(d) PROVE Numbering' /\ Attempts' /\ Executors'
  <2>1. Numbering'
    BY <1>0, <1>8 DEF Execute, Numbering, Operation, Run
  <2>2. Attempts'
    <3>1. drv[d].op \in OpId /\ ops[drv[d].op].attempts = 1 /\ dest[drv[d].op].calls = 0
      BY <1>0, <1>8 DEF Execute, Executors, Executing
    <3>2. \A o \in OpId :
            dest'[o].calls = IF o = drv[d].op THEN 1 ELSE dest[o].calls
      BY <1>0, <1>8, <3>1 DEF Execute, Destination
    <3> QED
      BY <1>0, <1>8, <3>1, <3>2 DEF Execute, Attempts
  <2>3. Executors'
    BY <1>0, <1>8 DEF Execute, Executors, Executing, Goto, At, Idle, Operation, Destination, Driver
  <2> QED
    BY <2>1, <2>2, <2>3
<1>9. ASSUME NEW d \in Drivers, SettleStale(d) PROVE Numbering' /\ Attempts' /\ Executors'
  <2>1. Numbering'
    BY <1>0, <1>9 DEF SettleStale, Numbering, Operation, Run
  <2>2. Attempts'
    BY <1>0, <1>9 DEF SettleStale, Attempts, Operation, Destination
  <2>3. Executors'
    BY <1>0, <1>9 DEF SettleStale, Executors, Executing, Goto, At, Idle, Operation, Destination, Driver
  <2> QED
    BY <2>1, <2>2, <2>3
<1>10. ASSUME NEW d \in Drivers, Settle(d) PROVE Numbering' /\ Attempts' /\ Executors'
  <2>0. \A o \in OpId :
          /\ ops'[o].attempts = ops[o].attempts
          /\ o # drv[d].op => ops'[o].status = ops[o].status
          /\ o = drv[d].op => ops'[o].status \in {"Succeeded", "Failed", "Unknown"}
    BY <1>0, <1>10, SettledType DEF Settle, Operation
  <2>1. Numbering'
    BY <1>0, <1>10, <2>0 DEF Settle, Numbering, AttemptIsCurrent
  <2>2. Attempts'
    BY <1>0, <1>10, <2>0, SettledType DEF Settle, Attempts, AttemptIsCurrent, Dispatchable
  <2>3. Executors'
    BY <1>0, <1>10 DEF Settle, Executors, Executing, Goto, At, Idle, Operation, Destination, Driver, AttemptIsCurrent
  <2> QED
    BY <2>1, <2>2, <2>3
<1>11. ASSUME NEW d \in Drivers, CollectNothing(d) PROVE Numbering' /\ Attempts' /\ Executors'
  <2>1. Numbering'
    BY <1>0, <1>11 DEF CollectNothing, Numbering, Operation, Run
  <2>2. Attempts'
    BY <1>0, <1>11 DEF CollectNothing, Attempts, Operation, Destination
  <2>3. Executors'
    BY <1>0, <1>11 DEF CollectNothing, Executors, Executing, Goto, At, Idle, Operation, Destination, Driver
  <2> QED
    BY <2>1, <2>2, <2>3
<1>12. ASSUME NEW d \in Drivers, CollectUncertain(d) PROVE Numbering' /\ Attempts' /\ Executors'
  <2>1. Numbering'
    BY <1>0, <1>12 DEF CollectUncertain, Numbering, Operation, Run
  <2>2. Attempts'
    BY <1>0, <1>12 DEF CollectUncertain, Attempts, Operation, Destination
  <2>3. Executors'
    BY <1>0, <1>12 DEF CollectUncertain, Executors, Executing, Goto, At, Idle, Operation, Destination, Driver
  <2> QED
    BY <2>1, <2>2, <2>3
<1>13. ASSUME NEW d \in Drivers, CollectBatch(d) PROVE Numbering' /\ Attempts' /\ Executors'
  <2>1. Numbering'
    BY <1>0, <1>13 DEF CollectBatch, Numbering, Operation, Run
  <2>2. Attempts'
    BY <1>0, <1>13 DEF CollectBatch, Attempts, Operation, Destination
  <2>3. Executors'
    BY <1>0, <1>13 DEF CollectBatch, Executors, Executing, Goto, At, Idle, Operation, Destination, Driver
  <2> QED
    BY <2>1, <2>2, <2>3
<1>14. ASSUME NEW d \in Drivers, Review(d) PROVE Numbering' /\ Attempts' /\ Executors'
  <2>1. Numbering'
    BY <1>0, <1>14 DEF Review, Numbering, Operation, Run
  <2>2. Attempts'
    BY <1>0, <1>14 DEF Review, Attempts, Operation, Destination
  <2>3. Executors'
    BY <1>0, <1>14 DEF Review, Executors, Executing, Goto, At, Idle, Operation, Destination, Driver
  <2> QED
    BY <2>1, <2>2, <2>3
<1>15. ASSUME NEW d \in Drivers, AdvanceStale(d) PROVE Numbering' /\ Attempts' /\ Executors'
  <2>1. Numbering'
    BY <1>0, <1>15 DEF AdvanceStale, Numbering, Operation, Run
  <2>2. Attempts'
    BY <1>0, <1>15 DEF AdvanceStale, Attempts, Operation, Destination
  <2>3. Executors'
    BY <1>0, <1>15 DEF AdvanceStale, Executors, Executing, Goto, At, Idle, Operation, Destination, Driver
  <2> QED
    BY <2>1, <2>2, <2>3
<1>16. ASSUME NEW d \in Drivers, AdvanceRefused(d) PROVE Numbering' /\ Attempts' /\ Executors'
  <2>1. Numbering'
    BY <1>0, <1>16 DEF AdvanceRefused, Numbering, Operation, Run
  <2>2. Attempts'
    BY <1>0, <1>16 DEF AdvanceRefused, Attempts, Operation, Destination
  <2>3. Executors'
    BY <1>0, <1>16 DEF AdvanceRefused, Executors, Executing, Goto, At, Idle, Operation, Destination, Driver
  <2> QED
    BY <2>1, <2>2, <2>3
<1>17. ASSUME NEW d \in Drivers, AdvanceCommit(d) PROVE Numbering' /\ Attempts' /\ Executors'
  <2> DEFINE new == NewOps(Move)
             top == Reserve(Move).operations
  <2>1. /\ Move \in Transition
        /\ run.usage.operations \in Nat
    BY <1>0, AdvanceType DEF Move, Run, Usage
  <2>2. BatchSize(Move) \in Nat
    BY <2>1 DEF BatchSize, Transition, Phase
  <2>3. /\ top = run.usage.operations + BatchSize(Move)
        /\ top <= MaxOperations
    BY <1>17 DEF AdvanceCommit, Acceptable, WithinBudget, Reserve
  <2>4. /\ run'.pending = new
        /\ run'.usage.operations = top
        /\ new = (run.usage.operations + 1)..top
    BY <1>17 DEF AdvanceCommit, NewOps
  <2>5. \A o \in OpId :
          /\ o \in new => ops'[o].status = "Pending" /\ ops'[o].attempts = 0
          /\ o \notin new => ops'[o] = ops[o]
    <3>1. ASSUME NEW kind, NEW tool, NEW out, NEW step
          PROVE  /\ Requested(kind, tool, out, step).status = "Pending"
                 /\ Requested(kind, tool, out, step).attempts = 0
      BY DEF Requested, NoOperation
    <3>2. PICK tool :
            ops' = [o \in OpId |->
                      IF o \in new
                      THEN Requested(RequestKind(Move), tool[o],
                                     IF Move.action = "verify" THEN Move.phase.out
                                     ELSE NoOutput, run.step + 1)
                      ELSE ops[o]]
      BY <1>17 DEF AdvanceCommit
    <3> HIDE DEF new
    <3> QED
      BY <3>1, <3>2
  <2>6. \A o \in OpId : o \in new => ops[o].attempts = 0 /\ dest[o].calls = 0
    BY <1>0, <2>1, <2>4 DEF Numbering, Attempts, OpId
  <2> HIDE DEF new, top
  <2>7. Numbering'
    BY <1>0, <2>1, <2>2, <2>3, <2>4, <2>5 DEF Numbering, OpId
  <2>8. Attempts'
    BY <1>0, <1>17, <2>5, <2>6 DEF AdvanceCommit, Attempts, Dispatchable
  <2>9. Executors'
    <3>1. \A e \in Drivers : /\ drv'[e].pc \in {"admit", "call", "settle"} =>
                                 e # d /\ drv'[e] = drv[e]
      BY <1>0, <1>17 DEF AdvanceCommit, Goto, At, Idle
    <3>2. \A e \in Drivers : Executing(e) => ops'[drv[e].op] = ops[drv[e].op]
      BY <1>0, <2>5, <2>6 DEF Executors, Executing
    <3> QED
      BY <1>0, <1>17, <3>1, <3>2 DEF AdvanceCommit, Executors, Executing
  <2> QED
    BY <2>7, <2>8, <2>9
<1>18. ASSUME NEW d \in Drivers, Fail(d) PROVE Numbering' /\ Attempts' /\ Executors'
  <2>1. Numbering'
    BY <1>0, <1>18 DEF Fail, Numbering, Operation, Run
  <2>2. Attempts'
    BY <1>0, <1>18 DEF Fail, Attempts, Operation, Destination
  <2>3. Executors'
    BY <1>0, <1>18 DEF Fail, Executors, Executing, Goto, At, Idle, Operation, Destination, Driver
  <2> QED
    BY <2>1, <2>2, <2>3
<1>19. ASSUME NEW d \in Drivers, FinishNothing(d) PROVE Numbering' /\ Attempts' /\ Executors'
  <2>1. Numbering'
    BY <1>0, <1>19 DEF FinishNothing, Numbering, Operation, Run
  <2>2. Attempts'
    BY <1>0, <1>19 DEF FinishNothing, Attempts, Operation, Destination
  <2>3. Executors'
    BY <1>0, <1>19 DEF FinishNothing, Executors, Executing, Goto, At, Idle, Operation, Destination, Driver
  <2> QED
    BY <2>1, <2>2, <2>3
<1>20. ASSUME NEW d \in Drivers, FinishCancellation(d) PROVE Numbering' /\ Attempts' /\ Executors'
  <2>1. Numbering'
    <3>1. run'.usage = run.usage /\ run'.pending = run.pending
      BY <1>0, <1>20 DEF FinishCancellation, Run
    <3>2. \A o \in OpId : ops'[o].status = "Absent" <=> ops[o].status = "Absent"
      BY <1>0, <1>20 DEF FinishCancellation, Operation, PendingIn, Dispatchable
    <3> QED
      BY <1>0, <3>1, <3>2 DEF Numbering
  <2>2. Attempts'
    BY <1>0, <1>20 DEF FinishCancellation, Attempts, Operation, Destination, PendingIn, Dispatchable
  <2>3. Executors'
    BY <1>0, <1>20 DEF FinishCancellation, Executors, Executing, Goto, At, Idle, Operation, Destination, Driver
  <2> QED
    BY <2>1, <2>2, <2>3
<1>21. ASSUME NEW d \in Drivers, Cancel(d) PROVE Numbering' /\ Attempts' /\ Executors'
  <2>1. Numbering'
    BY <1>0, <1>21 DEF Cancel, Numbering, Operation, Run
  <2>2. Attempts'
    BY <1>0, <1>21 DEF Cancel, Attempts, Operation, Destination
  <2>3. Executors'
    BY <1>0, <1>21 DEF Cancel, Executors, Executing, Goto, At, Idle, Operation, Destination, Driver
  <2> QED
    BY <2>1, <2>2, <2>3
<1>22. ASSUME NEW d \in Drivers, Crash(d) PROVE Numbering' /\ Attempts' /\ Executors'
  <2>1. Numbering'
    BY <1>0, <1>22 DEF Crash, Numbering, Operation, Run
  <2>2. Attempts'
    BY <1>0, <1>22 DEF Crash, Attempts, Operation, Destination
  <2>3. Executors'
    BY <1>0, <1>22 DEF Crash, Executors, Executing, Goto, At, Idle, Operation, Destination, Driver
  <2> QED
    BY <2>1, <2>2, <2>3
<1>23. ASSUME NEW o \in OpId, NEW verdict \in {"approved", "denied"}, Approve(o, verdict) PROVE Numbering' /\ Attempts' /\ Executors'
  <2>1. Numbering'
    BY <1>0, <1>23 DEF Approve, Numbering, Operation, Run, Dispatchable
  <2>2. Attempts'
    BY <1>0, <1>23 DEF Approve, Attempts, Operation, Destination, Dispatchable
  <2>3. Executors'
    BY <1>0, <1>23 DEF Approve, Executors, Executing, Operation, Destination, Driver, Dispatchable
  <2> QED
    BY <2>1, <2>2, <2>3
<1>24. ASSUME NEW o \in OpId, MarkInterrupted(o) PROVE Numbering' /\ Attempts' /\ Executors'
  <2>1. Numbering'
    BY <1>0, <1>24 DEF MarkInterrupted, Numbering, Operation, Run
  <2>2. Attempts'
    BY <1>0, <1>24 DEF MarkInterrupted, Attempts, Operation, Destination, Dispatchable
  <2>3. Executors'
    BY <1>0, <1>24 DEF MarkInterrupted, Executors, Executing, Operation, Destination, Driver
  <2> QED
    BY <2>1, <2>2, <2>3
<1>25. ASSUME NEW o \in OpId, RecordReconciledToolResult(o) PROVE Numbering' /\ Attempts' /\ Executors'
  <2>1. Numbering'
    BY <1>0, <1>25 DEF RecordReconciledToolResult, Numbering, Operation, Run, ResumeRun
  <2>2. Attempts'
    BY <1>0, <1>25 DEF RecordReconciledToolResult, Attempts, Operation, Destination, Dispatchable, ResumeRun
  <2>3. Executors'
    BY <1>0, <1>25 DEF RecordReconciledToolResult, Executors, Executing, Operation, Destination, Driver, ResumeRun
  <2> QED
    BY <2>1, <2>2, <2>3
<1>26. ASSUME NEW o \in OpId, AbandonModelResponse(o) PROVE Numbering' /\ Attempts' /\ Executors'
  <2>1. Numbering'
    BY <1>0, <1>26 DEF AbandonModelResponse, Numbering, Operation, Run, ResumeRun
  <2>2. Attempts'
    BY <1>0, <1>26 DEF AbandonModelResponse, Attempts, Operation, Destination, Dispatchable, ResumeRun
  <2>3. Executors'
    BY <1>0, <1>26 DEF AbandonModelResponse, Executors, Executing, Operation, Destination, Driver, ResumeRun
  <2> QED
    BY <2>1, <2>2, <2>3
<1>27. ASSUME NEW key \in Keys, Answer(key) PROVE Numbering' /\ Attempts' /\ Executors'
  <2>1. Numbering'
    BY <1>0, <1>27 DEF Answer, Numbering, Operation, Run, ProvideInput
  <2>2. Attempts'
    BY <1>0, <1>27 DEF Answer, Attempts, Operation, Destination, ProvideInput
  <2>3. Executors'
    BY <1>0, <1>27 DEF Answer, Executors, Executing, Operation, Destination, Driver, ProvideInput
  <2> QED
    BY <2>1, <2>2, <2>3
<1>28. ASSUME NEW new \in Policies, SetPolicy(new) PROVE Numbering' /\ Attempts' /\ Executors'
  <2>1. Numbering'
    BY <1>0, <1>28 DEF SetPolicy, Numbering, Operation, Run
  <2>2. Attempts'
    BY <1>0, <1>28 DEF SetPolicy, Attempts, Operation, Destination
  <2>3. Executors'
    BY <1>0, <1>28 DEF SetPolicy, Executors, Executing, Operation, Destination, Driver
  <2> QED
    BY <2>1, <2>2, <2>3
<1>29. CASE ClockTick
  BY <1>0, <1>29 DEF ClockTick, Numbering, Attempts, Executors, Executing
<1>30. CASE UNCHANGED vars
  BY <1>0, <1>30 DEF vars, Numbering, Attempts, Executors, Executing
<1> QED
  BY <1>1, <1>2, <1>3, <1>4, <1>5, <1>6, <1>7, <1>8, <1>9, <1>10, <1>11, <1>12, <1>13, <1>14, <1>15, <1>16, <1>17, <1>18, <1>19, <1>20, <1>21, <1>22, <1>23, <1>24, <1>25, <1>26, <1>27, <1>28, <1>29, <1>30
     DEF Next, Drive, Dispatch, Collect, AdvanceRun, Finish, Decide

\* TypeOK holds in every reachable state, whatever the limits, the drivers and
\* the policies.
THEOREM TypeCorrect == Spec => []TypeOK
<1>1. Init => TypeOK
  BY AttemptInit DEF AttemptInv
<1> QED
  BY <1>1, TypeStep, PTL DEF Spec

LEMMA AttemptInvariant == Spec => []AttemptInv
BY AttemptInit, AttemptStep, PTL DEF Spec

\* No operation is ever attempted twice and no executor is ever called twice,
\* for any number of drivers, crashes, fences and policy changes.
THEOREM NeverRetried == Spec => []AtMostOnce
<1>1. AttemptInv => AtMostOnce
  BY DEF AttemptInv, Attempts, AtMostOnce
<1> QED
  BY <1>1, AttemptInvariant, PTL

\* A denied or cancelled operation never reached its executor.
THEOREM RefusalIsFinal == Spec => []RefusedNeverRan
<1>1. AttemptInv => RefusedNeverRan
  BY DEF AttemptInv, Attempts, RefusedNeverRan
<1> QED
  BY <1>1, AttemptInvariant, PTL

(***************************************************************************)
(* Order and finality.  Three lemmas say once what any step can do to an   *)
(* operation (OperationStep), to the run (RunStep) and to a driver         *)
(* (DriverStep); the invariants and the action properties that follow, and *)
(* those of RunLoopProofs, rest on them without a second look at the       *)
(* thirty actions.                                                         *)
(***************************************************************************)
Active == Dispatchable \cup Uncertain

(***************************************************************************)
(* The steps that change the run or an operation.                          *)
(***************************************************************************)
DriverWrites(d) ==
    \/ AdmitDeny(d) \/ AdmitWait(d) \/ AdmitUnsupported(d) \/ AdmitStart(d)
    \/ Settle(d) \/ CollectUncertain(d) \/ CollectBatch(d) \/ AdvanceCommit(d)
    \/ Fail(d) \/ FinishCancellation(d) \/ Cancel(d)
PersonWrites(o) ==
    \/ \E verdict \in {"approved", "denied"} : Approve(o, verdict)
    \/ MarkInterrupted(o) \/ RecordReconciledToolResult(o) \/ AbandonModelResponse(o)

LEMMA WritingSteps ==
    ASSUME [Next]_vars
    PROVE  \/ UNCHANGED <<run, ops>>
           \/ \E d \in Drivers : DriverWrites(d)
           \/ \E o \in OpId : PersonWrites(o)
           \/ \E key \in Keys : Answer(key)
<1>1. ASSUME NEW d \in Drivers, Tick(d) \/ Scan(d) \/ Review(d) \/ Crash(d)
      PROVE  UNCHANGED <<run, ops>>
  BY <1>1 DEF Tick, Scan, Review, Crash
<1>2. ASSUME NEW d \in Drivers, Dispatch(d), ~DriverWrites(d)
      PROVE  UNCHANGED <<run, ops>>
  BY <1>2 DEF Dispatch, DriverWrites, AdmitNothing, Execute, SettleStale
<1>3. ASSUME NEW d \in Drivers, Collect(d) \/ AdvanceRun(d) \/ Finish(d),
             ~DriverWrites(d)
      PROVE  UNCHANGED <<run, ops>>
  BY <1>3 DEF Collect, AdvanceRun, Finish, DriverWrites, CollectNothing,
        AdvanceStale, AdvanceRefused, FinishNothing
<1>4. ASSUME NEW new \in Policies, SetPolicy(new) PROVE UNCHANGED <<run, ops>>
  BY <1>4 DEF SetPolicy
<1>5. ClockTick \/ UNCHANGED vars => UNCHANGED <<run, ops>>
  BY DEF ClockTick, vars
<1> QED
  BY <1>1, <1>2, <1>3, <1>4, <1>5 DEF Next, Drive, DriverWrites, PersonWrites, Decide

(***************************************************************************)
(* What a step can do to an operation.                                     *)
(***************************************************************************)
SameRequest(o) ==
    /\ ops'[o].kind = ops[o].kind
    /\ ops'[o].tool = ops[o].tool
    /\ ops'[o].out = ops[o].out
    /\ ops'[o].step = ops[o].step
SameAttempt(o) ==
    ops'[o].attempts = ops[o].attempts /\ ops'[o].started = ops[o].started
SameDecision(o) == ops'[o].decision = ops[o].decision
SameResult(o) == ops'[o].result = ops[o].result

Requests(o) ==
    /\ \E d \in Drivers : AdvanceCommit(d)
    /\ run.usage.operations < o
    /\ ops[o].status = "Absent"
    /\ ops'[o].status = "Pending"
    /\ ops'[o].attempts = 0
Decides(o) ==
    /\ ops[o].status \in Dispatchable
    /\ ops'[o].status \in Dispatchable \cup {"Denied", "Failed", "Cancelled"}
    /\ SameAttempt(o) /\ SameResult(o)
    /\ ops'[o].status = "Failed" => ops[o].tool = "sandbox"
Starts(o) ==
    /\ \E d \in Drivers : AdmitStart(d) /\ drv[d].op = o
    /\ ops[o].status \in Dispatchable
    /\ ops'[o].status = "Running"
    /\ ops'[o].attempts = ops[o].attempts + 1
    /\ SameDecision(o) /\ SameResult(o)
Settles(o) ==
    /\ \E d \in Drivers :
          /\ Settle(d) /\ drv[d].op = o
          /\ ops'[o].status = SettledAs(o, drv[d].got)
          /\ ops'[o].result = drv[d].got.result
    /\ ops[o].status = "Running"
    /\ SameAttempt(o) /\ SameDecision(o)
Fences(o) ==
    /\ ops[o].status = "Running"
    /\ ops'[o].status = "Unknown"
    /\ SameAttempt(o) /\ SameDecision(o) /\ SameResult(o)
Reconciles(o) ==
    /\ ops[o].status = "Unknown"
    /\ \/ ops'[o].status = "Succeeded" /\ ops[o].kind = "tool" /\ dest[o].applied
       \/ ops'[o].status = "Failed" /\ ops[o].kind = "model"
    /\ SameAttempt(o) /\ SameDecision(o)
    /\ ops'[o].result \in {ops[o].result, NoInput}
    /\ run'.status # "Waiting"

OperationMoves(o) ==
    \/ ops'[o] = ops[o]
    \/ Requests(o)
    \/ /\ SameRequest(o)
       /\ Decides(o) \/ Starts(o) \/ Settles(o) \/ Fences(o) \/ Reconciles(o)

LEMMA OperationStep ==
    ASSUME AttemptInv, [Next]_vars, NEW o \in OpId
    PROVE  OperationMoves(o)
<1>0. ops \in [OpId -> Operation] /\ ops[o] \in Operation /\ run \in Run
  BY DEF AttemptInv, TypeOK
<1> USE DEF OperationMoves
<1>1. ASSUME NEW d \in Drivers, AdmitDeny(d) \/ AdmitWait(d) \/ AdmitUnsupported(d)
      PROVE  OperationMoves(o)
  BY <1>0, <1>1 DEF AdmitDeny, AdmitWait, AdmitUnsupported, CanDispatch, Dispatchable,
        Decides, SameRequest, SameAttempt, SameResult, Operation
<1>2. ASSUME NEW d \in Drivers, AdmitStart(d) PROVE OperationMoves(o)
  BY <1>0, <1>2 DEF AdmitStart, CanDispatch, Starts, SameRequest, SameDecision,
        SameResult, Operation
<1>3. ASSUME NEW d \in Drivers, Settle(d) PROVE OperationMoves(o)
  BY <1>0, <1>3 DEF Settle, AttemptIsCurrent, Settles, SameRequest, SameAttempt,
        SameDecision, Operation
<1>4. ASSUME NEW d \in Drivers, CollectUncertain(d) \/ CollectBatch(d) \/ Fail(d) \/ Cancel(d)
      PROVE  OperationMoves(o)
  BY <1>4 DEF CollectUncertain, CollectBatch, Fail, Cancel
<1>5. ASSUME NEW d \in Drivers, AdvanceCommit(d) PROVE OperationMoves(o)
  <2>1. run.usage.operations \in Nat
    BY DEF AttemptInv, TypeOK, Run, Usage
  <2>2. CASE o \notin NewOps(Move)
    BY <1>5, <2>2 DEF AdvanceCommit
  <2>3. CASE o \in NewOps(Move)
    <3>1. run.usage.operations < o
      BY <2>1, <2>3 DEF NewOps, OpId
    <3>2. ops[o].status = "Absent"
      BY <3>1 DEF AttemptInv, Numbering
    <3>3. ops'[o].status = "Pending" /\ ops'[o].attempts = 0
      BY <1>5, <2>3 DEF AdvanceCommit, Requested, NoOperation
    <3> QED
      BY <1>5, <3>1, <3>2, <3>3 DEF Requests
  <2> QED
    BY <2>2, <2>3
<1>6. ASSUME NEW d \in Drivers, FinishCancellation(d) PROVE OperationMoves(o)
  BY <1>0, <1>6 DEF FinishCancellation, PendingIn, Decides, SameRequest, SameAttempt,
        SameResult, Operation
<1>7. ASSUME NEW p \in OpId, NEW verdict \in {"approved", "denied"}, Approve(p, verdict)
      PROVE  OperationMoves(o)
  BY <1>0, <1>7 DEF Approve, Dispatchable, Decides, SameRequest, SameAttempt,
        SameResult, Operation
<1>8. ASSUME NEW p \in OpId, MarkInterrupted(p) PROVE OperationMoves(o)
  BY <1>0, <1>8 DEF MarkInterrupted, Fences, SameRequest, SameAttempt, SameDecision,
        SameResult, Operation
<1>9. ASSUME NEW p \in OpId, RecordReconciledToolResult(p) \/ AbandonModelResponse(p)
      PROVE  OperationMoves(o)
  <2>1. run'.status # "Waiting"
    BY <1>0, <1>9 DEF RecordReconciledToolResult, AbandonModelResponse, ResumeRun, Run
  <2> QED
    BY <1>0, <1>9, <2>1 DEF RecordReconciledToolResult, AbandonModelResponse, Reconciles,
          SameRequest, SameAttempt, SameDecision, Operation
<1>10. ASSUME NEW key \in Keys, Answer(key) PROVE OperationMoves(o)
  BY <1>10 DEF Answer, ProvideInput
<1> QED
  BY <1>1, <1>2, <1>3, <1>4, <1>5, <1>6, <1>7, <1>8, <1>9, <1>10, WritingSteps
     DEF DriverWrites, PersonWrites

(***************************************************************************)
(* What a step can do to the run.  Every change makes all snapshots stale. *)
(***************************************************************************)
SameLoop ==
    /\ run'.phase = run.phase
    /\ run'.step = run.step
    /\ run'.usage = run.usage
    /\ run'.result = run.result
    /\ run'.pending = run.pending
    /\ run'.verified = run.verified
SameInput == run'.next = run.next
Unfinished == \E o \in OpId : ops[o].status \in Active

Waits ==
    /\ Unfinished /\ run.status # "Cancelling"
    /\ run'.status = "Waiting"
    /\ \/ run'.wait.kind = "approval"
       \/ /\ run'.wait.kind = "reconcile"
          /\ run'.wait.id \in OpId /\ ops'[run'.wait.id].status = "Unknown"
    /\ SameLoop /\ SameInput
Resumes ==
    /\ Unfinished /\ run.status # "Cancelling"
    /\ run'.status = "Running"
    /\ SameLoop /\ SameInput
Lingers ==
    /\ run.status = "Cancelling" /\ run'.status = "Cancelling"
    /\ SameLoop /\ SameInput
Replies ==
    /\ \E key \in Keys :
          /\ inputs' = [inputs EXCEPT ![key] = run.wait.id]
          /\ inputs[key] = 0
    /\ run.status = "Waiting" /\ run.wait.kind = "input"
    /\ run'.status = "Running"
    /\ run'.next = InputOf("user", 0, NoOutput)
    /\ SameLoop
    /\ ops' = ops
Collects ==
    /\ \E d \in Drivers : CollectBatch(d)
    /\ PendingIn(Settled) = run.pending
    /\ run.pending # {} /\ ~Stopped
    /\ run'.pending = {}
    /\ run'.status \in {"Running", "Failed"}
    /\ ops' = ops
Commits ==
    /\ \E d \in Drivers : AdvanceCommit(d) /\ d \in current
    /\ run'.status \in {"Running", "Waiting", "Completed"}
    /\ run'.next = NoInput
    /\ run'.step = run.step + 1
Fails ==
    /\ \E d \in current : drv[d].pc = "fail"
    /\ run'.status = "Failed"
    /\ SameLoop /\ SameInput
    /\ ops' = ops
Cancels ==
    /\ ~Stopped
    /\ run'.status = "Cancelling"
    /\ run'.next = NoInput
    /\ SameLoop
    /\ ops' = ops
Confirms ==
    /\ run.status = "Cancelling" /\ run'.status = "Cancelled"
    /\ Unresolved = {}
    /\ \A o \in run.pending :
          ops[o].status \in Dispatchable => ops'[o].status = "Cancelled"
    /\ SameLoop /\ SameInput

RunMoves ==
    \/ run' = run
    \/ /\ current' = {}
       /\ \/ Waits \/ Resumes \/ Lingers \/ Replies \/ Collects
          \/ Commits \/ Fails \/ Cancels \/ Confirms

LEMMA RunStep ==
    ASSUME AttemptInv, [Next]_vars
    PROVE  RunMoves /\ (inputs' = inputs \/ Replies)
<1>0. /\ run \in Run /\ ops \in [OpId -> Operation] /\ run.pending \subseteq OpId
      /\ drv \in [Drivers -> Driver]
  BY DEF AttemptInv, TypeOK, Run
<1>1. ASSUME NEW d \in Drivers,
             \/ AdmitDeny(d) \/ AdmitUnsupported(d) \/ AdmitStart(d) \/ Settle(d)
      PROVE  RunMoves /\ inputs' = inputs
  BY <1>1 DEF AdmitDeny, AdmitUnsupported, AdmitStart, Settle, RunMoves
<1>2. ASSUME NEW d \in Drivers, AdmitWait(d) PROVE RunMoves /\ inputs' = inputs
  <2>1. Waits
    BY <1>0, <1>2 DEF AdmitWait, CanDispatch, Stopped, Waits, Unfinished, Active, WaitFor,
          SameLoop, SameInput, Run
  <2> QED
    BY <1>2, <2>1 DEF AdmitWait, NewRevision, RunMoves
<1>3. ASSUME NEW d \in Drivers, CollectUncertain(d) PROVE RunMoves /\ inputs' = inputs
  <2>1. PICK o \in OpId :
          /\ First(PendingIn({"Unknown"}), o)
          /\ run' = [run EXCEPT !.status = "Waiting",
                                !.wait = WaitFor("reconcile", o)]
    BY <1>3 DEF CollectUncertain
  <2>2. Waits
    BY <1>0, <1>3, <2>1 DEF CollectUncertain, Collectable, Stopped, First, PendingIn, Waits,
          Unfinished, Active, Uncertain, WaitFor, SameLoop, SameInput, Run
  <2> QED
    BY <1>3, <2>2 DEF CollectUncertain, NewRevision, RunMoves
<1>4. ASSUME NEW d \in Drivers, CollectBatch(d) PROVE RunMoves /\ inputs' = inputs
  <2>1. Collects
    BY <1>0, <1>4 DEF CollectBatch, Collectable, Collects, Run
  <2> QED
    BY <1>4, <2>1 DEF CollectBatch, NewRevision, RunMoves
<1>5. ASSUME NEW d \in Drivers, AdvanceCommit(d) PROVE RunMoves /\ inputs' = inputs
  <2>1. Commits
    BY <1>5 DEF AdvanceCommit, Commits
  <2> QED
    BY <1>5, <2>1 DEF AdvanceCommit, NewRevision, RunMoves
<1>6. ASSUME NEW d \in Drivers, Fail(d) PROVE RunMoves /\ inputs' = inputs
  <2>1. d \in current => Fails
    BY <1>0, <1>6 DEF Fail, Fails, SameLoop, SameInput, Run
  <2> QED
    BY <1>6, <2>1 DEF Fail, NewRevision, RunMoves
<1>7. ASSUME NEW d \in Drivers, FinishCancellation(d) PROVE RunMoves /\ inputs' = inputs
  <2>1. CASE run' = [run EXCEPT !.status = "Cancelled", !.wait = NoWait] /\ Unresolved = {}
    <3>1. Confirms
      BY <1>0, <1>7, <2>1 DEF FinishCancellation, Confirms, PendingIn, SameLoop,
            SameInput, Run, Operation
    <3> QED
      BY <1>7, <3>1 DEF FinishCancellation, NewRevision, RunMoves
  <2>2. ASSUME NEW o, run' = [run EXCEPT !.wait = WaitFor("reconcile", o)]
        PROVE  RunMoves
    <3>1. Lingers
      BY <1>0, <1>7, <2>2 DEF FinishCancellation, Lingers, SameLoop, SameInput, Run
    <3> QED
      BY <1>7, <3>1 DEF FinishCancellation, NewRevision, RunMoves
  <2> QED
    BY <1>7, <2>1, <2>2 DEF FinishCancellation
<1>8. ASSUME NEW d \in Drivers, Cancel(d) PROVE RunMoves /\ inputs' = inputs
  <2>1. Cancels
    BY <1>0, <1>8 DEF Cancel, Cancels, SameLoop, Run
  <2> QED
    BY <1>8, <2>1 DEF Cancel, NewRevision, RunMoves
<1>9. ASSUME NEW o \in OpId, NEW verdict \in {"approved", "denied"}, Approve(o, verdict)
      PROVE  RunMoves /\ inputs' = inputs
  <2>1. Resumes
    BY <1>0, <1>9 DEF Approve, Stopped, Resumes, Unfinished, Active, Dispatchable,
          SameLoop, SameInput, Run
  <2> QED
    BY <1>9, <2>1 DEF Approve, NewRevision, RunMoves
<1>10. ASSUME NEW o \in OpId, MarkInterrupted(o) PROVE RunMoves /\ inputs' = inputs
  <2>1. Waits \/ Lingers
    BY <1>0, <1>10 DEF MarkInterrupted, Waits, Lingers, Unfinished, Active, Uncertain,
          WaitFor, SameLoop, SameInput, Run
  <2> QED
    BY <1>10, <2>1 DEF MarkInterrupted, NewRevision, RunMoves
<1>11. ASSUME NEW o \in OpId, RecordReconciledToolResult(o) \/ AbandonModelResponse(o)
       PROVE  RunMoves /\ inputs' = inputs
  <2>1. Resumes \/ Lingers
    BY <1>0, <1>11 DEF RecordReconciledToolResult, AbandonModelResponse, ResumeRun, Resumes,
          Lingers, Unfinished, Active, Uncertain, SameLoop, SameInput, Run
  <2> QED
    BY <1>11, <2>1 DEF RecordReconciledToolResult, AbandonModelResponse, NewRevision, RunMoves
<1>12. ASSUME NEW key \in Keys, Answer(key) PROVE RunMoves /\ Replies
  <2>1. PICK question \in 1..MaxHarnessSteps : ProvideInput(key, question)
    BY <1>12 DEF Answer
  <2>2. run.wait.kind = "input" /\ run.wait.id = question
    BY <2>1 DEF ProvideInput, WaitFor
  <2>3. \E k \in Keys : inputs' = [inputs EXCEPT ![k] = run.wait.id] /\ inputs[k] = 0
    BY <2>1, <2>2 DEF ProvideInput
  <2>4. /\ run' = [run EXCEPT !.next = InputOf("user", 0, NoOutput),
                             !.wait = NoWait, !.status = "Running"]
        /\ run.status = "Waiting" /\ ops' = ops
    BY <2>1 DEF ProvideInput
  <2>5. /\ run'.status = "Running" /\ run'.next = InputOf("user", 0, NoOutput)
        /\ SameLoop
    BY <1>0, <2>4 DEF SameLoop, Run
  <2>6. Replies
    BY <2>2, <2>3, <2>4, <2>5 DEF Replies
  <2> QED
    BY <2>1, <2>6 DEF ProvideInput, NewRevision, RunMoves
<1>13. UNCHANGED <<run, ops>> => RunMoves
  BY DEF RunMoves
<1>14. ASSUME UNCHANGED <<run, ops>> PROVE inputs' = inputs \/ Replies
  <2>1. ASSUME NEW d \in Drivers, Tick(d) \/ Scan(d) \/ Review(d) \/ Crash(d)
        PROVE  inputs' = inputs
    BY <2>1 DEF Tick, Scan, Review, Crash
  <2>2. ASSUME NEW d \in Drivers, Dispatch(d) \/ Cancel(d) PROVE inputs' = inputs
    BY <2>2 DEF Dispatch, AdmitNothing, AdmitDeny, AdmitWait, AdmitUnsupported,
          AdmitStart, Execute, SettleStale, Settle, Cancel
  <2>3. ASSUME NEW d \in Drivers, Collect(d) \/ AdvanceRun(d) \/ Finish(d)
        PROVE  inputs' = inputs
    BY <2>3 DEF Collect, AdvanceRun, Finish, CollectNothing, CollectUncertain, CollectBatch,
          AdvanceStale, AdvanceRefused, AdvanceCommit, Fail, FinishNothing, FinishCancellation
  <2>4. ASSUME NEW new \in Policies, SetPolicy(new) PROVE inputs' = inputs
    BY <2>4 DEF SetPolicy
  <2>5. ClockTick \/ UNCHANGED vars => inputs' = inputs
    BY DEF ClockTick, vars
  <2> QED
    BY <1>9, <1>10, <1>11, <1>12, <2>1, <2>2, <2>3, <2>4, <2>5 DEF Next, Drive, Decide
<1> QED
  BY <1>1, <1>2, <1>3, <1>4, <1>5, <1>6, <1>7, <1>8, <1>9, <1>10, <1>11, <1>12, <1>13,
     <1>14, WritingSteps DEF DriverWrites, PersonWrites

(***************************************************************************)
(* What a step can do to a driver and to its snapshot.                     *)
(***************************************************************************)
NotRefreshed(d) == d \in current' => d \in current

Rests(d) ==
    /\ drv'[d].pc \in {"idle", "collect", "review", "finish"}
    /\ d \in current' => d \in current /\ drv[d].pc \notin {"advance", "fail"}
Looks(d) ==
    /\ drv[d].pc = "idle" /\ drv'[d].pc = "scan"
    /\ drv'[d].todo = run.pending
    /\ run' = run /\ ops' = ops
    /\ NotRefreshed(d)
Picks(d) ==
    /\ drv[d].pc = "scan" /\ drv'[d].pc = "admit"
    /\ drv'[d].op \in drv[d].todo
    /\ \A p \in drv[d].todo : p < drv'[d].op => ops[p].status \in Settled
    /\ ops' = ops
    /\ NotRefreshed(d)
Calls(d) ==
    /\ AdmitStart(d)
    /\ drv'[d].pc = "call" /\ drv'[d].op = drv[d].op
    /\ NotRefreshed(d)
Hears(d) ==
    /\ Execute(d)
    /\ drv[d].pc = "call" /\ drv'[d].pc = "settle"
    /\ drv'[d].op = drv[d].op /\ drv'[d].got \in Answers(drv[d].op)
    /\ NotRefreshed(d)
Turns(d) ==
    /\ drv'[d].pc = "advance"
    /\ run' = run /\ ~Stopped /\ run.pending = {} /\ run.next # NoInput
Surrenders(d) ==
    /\ d \in current
    /\ drv[d].pc = "advance" /\ drv'[d].pc = "fail"
    /\ run' = run

DriverMoves(d) ==
    \/ drv'[d] = drv[d] /\ NotRefreshed(d)
    \/ Rests(d) \/ Looks(d) \/ Picks(d) \/ Calls(d) \/ Hears(d)
    \/ Turns(d) \/ Surrenders(d)

LEMMA DriverStep ==
    ASSUME AttemptInv, [Next]_vars, NEW e \in Drivers
    PROVE  DriverMoves(e)
<1>0. /\ drv \in [Drivers -> Driver]
      /\ \A d \in Drivers : \A rec :
            drv' = [drv EXCEPT ![d] = rec] =>
                drv'[e] = IF e = d THEN rec ELSE drv[e]
      /\ \A d \in Drivers, pc \in Places : Goto(d, pc) =>
            IF e = d THEN drv'[e].pc = pc ELSE drv'[e] = drv[e]
  <2>1. drv \in [Drivers -> Driver]
    BY DEF AttemptInv, TypeOK
  <2>2. \A pc \in Places : At(pc).pc = pc
    BY DEF At, Idle
  <2> QED
    BY <2>1, <2>2 DEF Goto
<1>1. {"idle", "collect", "review", "finish", "advance", "fail"} \subseteq Places
  BY DEF Places
<1> USE DEF DriverMoves
<1>2. ASSUME NEW d \in Drivers, Tick(d) PROVE DriverMoves(e)
  <2>1. CASE run.status = "Cancelling" /\ Goto(d, "finish") /\ UNCHANGED current
    BY <1>0, <1>1, <1>2, <2>1 DEF Tick, Rests, NotRefreshed
  <2>2. CASE /\ drv' = [drv EXCEPT ![d] = [At("scan") EXCEPT !.todo = run.pending]]
             /\ UNCHANGED current
    <3>1. drv'[e] = IF e = d THEN [At("scan") EXCEPT !.todo = run.pending] ELSE drv[e]
      BY <1>0, <2>2
    <3>2. e = d => drv'[e].pc = "scan" /\ drv'[e].todo = run.pending
      BY <3>1 DEF At, Idle
    <3> QED
      BY <1>2, <2>2, <3>1, <3>2 DEF Tick, Looks, NotRefreshed
  <2>3. CASE /\ ~Stopped /\ run.pending = {} /\ run.next # NoInput
             /\ Goto(d, "advance") /\ current' = current \cup {d}
    BY <1>0, <1>1, <1>2, <2>3 DEF Tick, Turns, NotRefreshed
  <2> QED
    BY <1>2, <2>1, <2>2, <2>3 DEF Tick
<1>3. ASSUME NEW d \in Drivers, Scan(d) PROVE DriverMoves(e)
  <2>1. CASE Goto(d, "collect")
    BY <1>0, <1>1, <1>3, <2>1 DEF Scan, Rests, NotRefreshed
  <2>2. ASSUME NEW o \in drv[d].todo,
               \A p \in drv[d].todo : ops[p].status \notin Settled => o <= p,
               drv' = [drv EXCEPT ![d] = [At("admit") EXCEPT !.op = o, !.at = clock]]
        PROVE  DriverMoves(e)
    <3>1. drv'[e] = IF e = d THEN [At("admit") EXCEPT !.op = o, !.at = clock] ELSE drv[e]
      BY <1>0, <2>2
    <3>2. \A p \in drv[d].todo : p < o => ops[p].status \in Settled
      <4>1. drv[d].todo \subseteq Nat
        BY <1>0 DEF Driver, OpId
      <4> QED
        BY <2>2, <4>1
    <3>3. e = d => drv'[e].pc = "admit" /\ drv'[e].op = o
      BY <3>1 DEF At, Idle
    <3>4. drv[d].pc = "scan" /\ ops' = ops /\ current' = current
      BY <1>3 DEF Scan
    <3> QED
      BY <2>2, <3>1, <3>2, <3>3, <3>4 DEF Picks, NotRefreshed
  <2> QED
    BY <1>3, <2>1, <2>2 DEF Scan, First
<1>4. ASSUME NEW d \in Drivers, AdmitStart(d) PROVE DriverMoves(e)
  <2>1. drv'[e] = IF e = d THEN [At("call") EXCEPT !.op = drv[d].op,
                                      !.attempt = ops[drv[d].op].attempts + 1]
                  ELSE drv[e]
    BY <1>0, <1>4 DEF AdmitStart
  <2>2. e = d => drv'[e].pc = "call" /\ drv'[e].op = drv[d].op
    BY <2>1 DEF At, Idle
  <2>3. current' = current
    BY <1>4 DEF AdmitStart
  <2> QED
    BY <1>4, <2>1, <2>2, <2>3 DEF Calls, NotRefreshed
<1>5. ASSUME NEW d \in Drivers, Execute(d) PROVE DriverMoves(e)
  <2>1. PICK outcome \in Answers(drv[d].op) :
          drv' = [drv EXCEPT ![d].pc = "settle", ![d].got = outcome]
    BY <1>5 DEF Execute
  <2>2. drv'[e] = IF e = d THEN [drv[d] EXCEPT !.pc = "settle", !.got = outcome]
                  ELSE drv[e]
    BY <1>0, <2>1
  <2>3. drv[d] \in Driver
    BY <1>0
  <2>4. e = d => /\ drv'[d].pc = "settle" /\ drv'[d].got = outcome
                 /\ drv'[d].op = drv[d].op
    BY <2>2, <2>3 DEF Driver
  <2>5. NotRefreshed(e)
    BY <1>5 DEF Execute, NotRefreshed
  <2>6. drv[d].pc = "call"
    BY <1>5 DEF Execute
  <2> QED
    BY <1>5, <2>2, <2>4, <2>5, <2>6 DEF Hears
<1>6. ASSUME NEW d \in Drivers,
             \/ AdmitNothing(d) \/ AdmitDeny(d) \/ AdmitWait(d) \/ AdmitUnsupported(d)
             \/ SettleStale(d) \/ Settle(d) \/ CollectNothing(d) \/ CollectUncertain(d)
             \/ CollectBatch(d) \/ Review(d) \/ FinishNothing(d) \/ FinishCancellation(d)
             \/ Cancel(d)
      PROVE  DriverMoves(e)
  <2>1. /\ \E pc \in {"idle", "collect", "review", "finish"} : Goto(d, pc)
        /\ current' \subseteq current
        /\ drv[d].pc \notin {"advance", "fail"}
    BY <1>6 DEF AdmitNothing, AdmitDeny, AdmitWait, AdmitUnsupported, SettleStale, Settle,
          CollectNothing, CollectUncertain, CollectBatch, Review, FinishNothing,
          FinishCancellation, Cancel, NewRevision
  <2> QED
    BY <1>0, <1>1, <2>1 DEF Rests, NotRefreshed
<1>7. ASSUME NEW d \in Drivers, AdvanceStale(d) \/ AdvanceCommit(d) \/ Fail(d) \/ Crash(d)
      PROVE  DriverMoves(e)
  <2>1. Goto(d, "idle") /\ current' \subseteq current /\ d \notin current'
    BY <1>7 DEF AdvanceStale, AdvanceCommit, Fail, Crash, NewRevision
  <2> QED
    BY <1>0, <1>1, <2>1 DEF Rests, NotRefreshed
<1>8. ASSUME NEW d \in Drivers, AdvanceRefused(d) PROVE DriverMoves(e)
  BY <1>0, <1>1, <1>8 DEF AdvanceRefused, Surrenders, NotRefreshed
<1>9. ASSUME \/ \E o \in OpId : PersonWrites(o)
             \/ \E key \in Keys : Answer(key)
             \/ \E new \in Policies : SetPolicy(new)
             \/ ClockTick \/ UNCHANGED vars
      PROVE  DriverMoves(e)
  BY <1>9 DEF PersonWrites, Approve, MarkInterrupted, RecordReconciledToolResult,
        AbandonModelResponse, Answer, ProvideInput, SetPolicy, ClockTick, vars,
        NewRevision, NotRefreshed
<1> QED
  BY <1>2, <1>3, <1>4, <1>5, <1>6, <1>7, <1>8, <1>9
     DEF Next, Drive, Dispatch, Collect, AdvanceRun, Finish, Decide, PersonWrites

(***************************************************************************)
(* The inductive invariant of the order of a run.                          *)
(***************************************************************************)
\* A snapshot that is still current is of a run that can take its next step.
Snapshots ==
    \A d \in current :
        /\ drv[d].pc \in {"advance", "fail"}
        /\ ~Stopped /\ run.pending = {} /\ run.next # NoInput

\* What is not settled is in the pending batch of a run that has not ended.
OpenIsPending ==
    \A o \in OpId : ops[o].status \in Active =>
        o \in run.pending /\ run.status \notin TerminalStatuses

\* A driver comes to an operation after every earlier one was settled.
ScanInOrder ==
    \A d \in Drivers :
        /\ drv[d].pc = "scan" =>
              \A o \in drv[d].todo, p \in OpId :
                  p < o /\ p \notin drv[d].todo => ops[p].status \in Settled
        /\ drv[d].pc = "admit" =>
              \A p \in OpId : p < drv[d].op => ops[p].status \in Settled

OrderInv == AttemptInv /\ Snapshots /\ OpenIsPending /\ ScanInOrder /\ NoOvertaking

LEMMA Statuses ==
    /\ Active \cap Settled = {}
    /\ "Absent" \notin Active \cup Settled
    /\ OperationStatuses = Active \cup Settled \cup {"Absent"}
    /\ \A o \in OpId : ops \in [OpId -> Operation] => ops[o].status \in OperationStatuses
BY DEF Active, Settled, Dispatchable, Uncertain, OperationStatuses, Operation

\* A settled operation never changes.
LEMMA SettledStays ==
    ASSUME AttemptInv, [Next]_vars, NEW o \in OpId, ops[o].status \in Settled
    PROVE  ops'[o] = ops[o]
BY OperationStep, Statuses DEF OperationMoves, Requests, Decides, Starts, Settles, Fences,
     Reconciles, Active, Dispatchable, Uncertain, Settled

LEMMA OrderInit == Init => OrderInv
<1> SUFFICES ASSUME Init PROVE OrderInv
  OBVIOUS
<1>1. AttemptInv
  BY AttemptInit
<1>2. Snapshots
  BY DEF Init, Snapshots
<1>3. \A o \in OpId : ops[o].status = "Absent" /\ ops[o].attempts = 0
  BY DEF Init, NoOperation
<1>4. OpenIsPending
  BY <1>3, Statuses DEF OpenIsPending
<1>5. NoOvertaking
  BY <1>3 DEF NoOvertaking
<1>6. ScanInOrder
  BY DEF Init, ScanInOrder, Idle
<1> QED
  BY <1>1, <1>2, <1>4, <1>5, <1>6 DEF OrderInv

LEMMA OrderStep == OrderInv /\ [Next]_vars => OrderInv'
<1> SUFFICES ASSUME OrderInv, [Next]_vars PROVE OrderInv'
  OBVIOUS
<1>0. /\ AttemptInv /\ AttemptInv' /\ Snapshots /\ OpenIsPending /\ ScanInOrder
      /\ NoOvertaking
      /\ ops \in [OpId -> Operation] /\ ops' \in [OpId -> Operation]
      /\ run.pending \subseteq OpId
  BY AttemptStep DEF OrderInv, AttemptInv, TypeOK, Run
<1>1. Snapshots'
  <2> SUFFICES ASSUME NEW d \in current'
               PROVE  /\ drv'[d].pc \in {"advance", "fail"}
                      /\ ~Stopped' /\ run'.pending = {} /\ run'.next # NoInput
    BY DEF Snapshots
  <2>1. d \in Drivers /\ current' # {}
    BY <1>0 DEF AttemptInv, TypeOK
  <2>2. run' = run
    BY <1>0, <2>1, RunStep DEF RunMoves
  <2>3. d \in current => /\ drv[d].pc \in {"advance", "fail"}
                         /\ ~Stopped /\ run.pending = {} /\ run.next # NoInput
    BY <1>0 DEF Snapshots
  <2>4. DriverMoves(d)
    BY <1>0, <2>1, DriverStep
  <2>5. CASE drv'[d] = drv[d] /\ NotRefreshed(d)
    BY <2>2, <2>3, <2>5 DEF NotRefreshed, Stopped
  <2>6. CASE Turns(d) \/ Surrenders(d)
    BY <2>2, <2>3, <2>6 DEF Turns, Surrenders, Stopped
  <2>7. CASE Rests(d) \/ Looks(d) \/ Picks(d) \/ Hears(d)
    BY <2>3, <2>7 DEF Rests, Looks, Picks, Hears, NotRefreshed
  <2>8. CASE Calls(d)
    BY <2>3, <2>8 DEF Calls, NotRefreshed, AdmitStart
  <2> QED
    BY <2>4, <2>5, <2>6, <2>7, <2>8 DEF DriverMoves
<1>2. OpenIsPending'
  <2> SUFFICES ASSUME NEW o \in OpId, ops'[o].status \in Active
               PROVE  o \in run'.pending /\ run'.status \notin TerminalStatuses
    BY DEF OpenIsPending
  <2>1. CASE ops[o].status \in Active
    <3>1. o \in run.pending /\ run.status \notin TerminalStatuses
      BY <1>0, <2>1 DEF OpenIsPending
    <3>2. CASE run' = run
      BY <3>1, <3>2
    <3>3. CASE Waits \/ Resumes \/ Lingers \/ Replies \/ Cancels
      BY <3>1, <3>3 DEF Waits, Resumes, Lingers, Replies, Cancels, SameLoop, TerminalStatuses
    <3>4. CASE Collects
      BY <2>1, <3>1, <3>4, Statuses DEF Collects, PendingIn
    <3>5. CASE Commits \/ Fails
      BY <1>0, <3>1, <3>5 DEF Commits, Fails, Snapshots
    <3>6. CASE Confirms
      <4>1. ops[o].status \in Dispatchable
        BY <2>1, <3>1, <3>6 DEF Confirms, Unresolved, PendingIn, Active
      <4>2. ops'[o].status = "Cancelled"
        BY <3>1, <3>6, <4>1 DEF Confirms
      <4> QED
        BY <4>2 DEF Active, Dispatchable, Uncertain
    <3> QED
      BY <1>0, <3>2, <3>3, <3>4, <3>5, <3>6, RunStep DEF RunMoves
  <2>2. CASE ops[o].status \notin Active
    <3>1. Requests(o)
      BY <1>0, <2>2, OperationStep, Statuses
         DEF OperationMoves, Decides, Starts, Settles, Fences, Reconciles, Active,
             Dispatchable, Uncertain
    <3>2. PICK d \in Drivers : AdvanceCommit(d)
      BY <3>1 DEF Requests
    <3>3. o \in NewOps(Move)
      BY <2>2, <3>2, <1>0 DEF AdvanceCommit
    <3>4. Move.action # "complete"
      <4>1. run.usage.operations \in Nat
        BY <1>0 DEF AttemptInv, TypeOK, Run, Usage
      <4>2. CASE Move.action = "complete"
        <5>1. Reserve(Move).operations = run.usage.operations
          BY <4>1, <4>2 DEF Reserve, BatchSize
        <5> QED
          BY <3>3, <4>1, <5>1 DEF NewOps
      <4> QED
        BY <4>2
    <3>5. run'.pending = NewOps(Move) /\ run'.status \in {"Running", "Waiting"}
      BY <3>2, <3>4 DEF AdvanceCommit
    <3> QED
      BY <3>3, <3>5 DEF TerminalStatuses
  <2> QED
    BY <2>1, <2>2
<1>3. NoOvertaking'
  <2> SUFFICES ASSUME NEW o \in OpId, NEW p \in OpId, p < o, ops'[o].attempts > 0
               PROVE  ops'[p].status \in Settled
    BY DEF NoOvertaking
  <2>1. ops[p].status \in Settled
    <3>1. CASE ops[o].attempts > 0
      BY <1>0, <3>1 DEF NoOvertaking
    <3>2. CASE ~(ops[o].attempts > 0)
      <4>1. Starts(o)
        BY <1>0, <3>2, OperationStep DEF OperationMoves, Requests, Decides, Settles, Fences,
              Reconciles, SameAttempt
      <4>2. PICK d \in Drivers : AdmitStart(d) /\ drv[d].op = o
        BY <4>1 DEF Starts
      <4> QED
        BY <1>0, <4>2 DEF AdmitStart, ScanInOrder
    <3> QED
      BY <3>1, <3>2
  <2> QED
    BY <1>0, <2>1, SettledStays
<1>4. ScanInOrder'
  <2> SUFFICES ASSUME NEW d \in Drivers
               PROVE  /\ drv'[d].pc = "scan" =>
                            \A o \in drv'[d].todo, p \in OpId :
                                p < o /\ p \notin drv'[d].todo => ops'[p].status \in Settled
                      /\ drv'[d].pc = "admit" =>
                            \A p \in OpId : p < drv'[d].op => ops'[p].status \in Settled
    BY DEF ScanInOrder
  <2>1. CASE drv'[d] = drv[d]
    BY <1>0, <2>1, SettledStays DEF ScanInOrder
  <2>2. CASE Looks(d)
    <3>1. ASSUME NEW o \in run.pending, NEW p \in OpId, p < o, p \notin run.pending
          PROVE  ops[p].status \in Settled
      <4>1. o <= run.usage.operations /\ o \in OpId /\ run.usage.operations \in Nat
        BY <1>0, <3>1 DEF AttemptInv, Numbering, TypeOK, Run, Usage
      <4>2. ops[p].status # "Absent"
        BY <1>0, <3>1, <4>1 DEF AttemptInv, Numbering, OpId
      <4> QED
        BY <1>0, <3>1, <4>2, Statuses DEF OpenIsPending
    <3> QED
      BY <2>2, <3>1 DEF Looks
  <2>3. CASE Picks(d)
    <3>1. drv[d].todo \subseteq OpId
      BY <1>0 DEF AttemptInv, TypeOK, Driver
    <3> QED
      BY <1>0, <2>3, <3>1 DEF Picks, ScanInOrder
  <2>4. CASE Rests(d) \/ Calls(d) \/ Hears(d) \/ Turns(d) \/ Surrenders(d)
    BY <2>4 DEF Rests, Calls, Hears, Turns, Surrenders
  <2> QED
    BY <1>0, <2>1, <2>2, <2>3, <2>4, DriverStep DEF DriverMoves
<1> QED
  BY <1>0, <1>1, <1>2, <1>3, <1>4 DEF OrderInv

LEMMA OrderInvariant == Spec => []OrderInv
BY OrderInit, OrderStep, PTL DEF Spec

\* For any number of drivers, no operation is started before every earlier one
\* is settled, so at most one operation of the run is running or uncertain.
THEOREM NeverOvertaken == Spec => []NoOvertaking
<1>1. OrderInv => NoOvertaking
  BY DEF OrderInv
<1> QED
  BY <1>1, OrderInvariant, PTL

\* A run ends only when nothing it requested is open or uncertain.
THEOREM EndsSettled == Spec => []TerminalSettled
<1>1. OrderInv => TerminalSettled
  <2> SUFFICES ASSUME OrderInv, run.status \in TerminalStatuses, NEW o \in OpId
               PROVE  ops[o].status \in Settled \cup {"Absent"}
    BY DEF TerminalSettled
  <2> QED
    BY Statuses DEF OrderInv, AttemptInv, TypeOK, OpenIsPending
<1> QED
  BY <1>1, OrderInvariant, PTL

(***************************************************************************)
(* Action properties.                                                      *)
(***************************************************************************)
Final ==
    /\ run.status \in TerminalStatuses => run' = run
    /\ run.status = "Cancelling" => run'.status \in {"Cancelling", "Cancelled"}
    /\ \A o \in OpId : ops[o].status \in Settled => ops'[o] = ops[o]

LEMMA FinalStep == OrderInv /\ [Next]_vars => Final
<1> SUFFICES ASSUME OrderInv, [Next]_vars PROVE Final
  OBVIOUS
<1>0. AttemptInv /\ OpenIsPending /\ Snapshots
  BY DEF OrderInv
<1>1. \A o \in OpId : ops[o].status \in Settled => ops'[o] = ops[o]
  BY <1>0, SettledStays
<1>2. CASE run' = run
  BY <1>1, <1>2 DEF Final
<1>3. CASE Waits \/ Resumes \/ Lingers
  <2>1. run.status \notin TerminalStatuses
    BY <1>0, <1>3 DEF Waits, Resumes, Lingers, Unfinished, OpenIsPending, TerminalStatuses
  <2> QED
    BY <1>1, <1>3, <2>1 DEF Waits, Resumes, Lingers, Final
<1>4. CASE Replies \/ Collects \/ Cancels \/ Confirms
  BY <1>1, <1>4 DEF Replies, Collects, Cancels, Confirms, Stopped, TerminalStatuses, Final
<1>5. CASE Commits \/ Fails
  BY <1>0, <1>1, <1>5 DEF Commits, Fails, Snapshots, Stopped, Final
<1> QED
  BY <1>0, <1>2, <1>3, <1>4, <1>5, RunStep DEF RunMoves

\* A finished run and a settled operation never change, and a cancelling run
\* only becomes Cancelled.
THEOREM OutcomesStay == Spec => OutcomesAreFinal
BY FinalStep, OrderInvariant, PTL DEF Spec, OutcomesAreFinal, Final

\* Once a cancellation is stored, no attempt starts and nothing is requested.
THEOREM CancelStopsWork == Spec => NoWorkAfterCancel
<1> DEFINE Step ==
      Stopped => \A o \in OpId : /\ ops'[o].attempts = ops[o].attempts
                                 /\ ops'[o].kind = ops[o].kind
<1>1. OrderInv /\ [Next]_vars => Step
  <2> SUFFICES ASSUME OrderInv, [Next]_vars, Stopped, NEW o \in OpId
               PROVE  /\ ops'[o].attempts = ops[o].attempts
                      /\ ops'[o].kind = ops[o].kind
    OBVIOUS
  <2>1. ~Requests(o)
    BY DEF Requests, AdvanceCommit, OrderInv, Snapshots
  <2>2. ~Starts(o)
    BY DEF Starts, AdmitStart, CanDispatch
  <2> QED
    BY <2>1, <2>2, OperationStep DEF OrderInv, OperationMoves, SameRequest, Decides, Settles,
       Fences, Reconciles, SameAttempt
<1> QED
  BY <1>1, OrderInvariant, PTL DEF Spec, NoWorkAfterCancel
=============================================================================
