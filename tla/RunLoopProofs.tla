---------------------------- MODULE RunLoopProofs ---------------------------
(***************************************************************************)
(* Theorems about the agreement of the runtime with the portable loop: the *)
(* batch in progress, the input of the next step, waits, answers,          *)
(* approvals, verification and budgets.                                    *)
(***************************************************************************)
EXTENDS RunExecutionProofs

(***************************************************************************)
(* The loop: what each action of Advance presupposes and yields.           *)
(***************************************************************************)
LEMMA AdvanceCases ==
    ASSUME NEW phase \in Phase, NEW input \in Input, NEW move,
           move = Advance(phase, input)
    PROVE  /\ move.action = "call_model" => move.phase = ModelPhase
           /\ move.action = "execute_tools" =>
                 /\ phase.at = "model" /\ input.kind = "calls"
                 /\ move.phase = PhaseOf("tools", input.n, NoOutput)
           /\ move.action = "verify" =>
                 /\ phase.at = "model" /\ input.kind = "final"
                 /\ move.phase = PhaseOf("verification", 0, input.out)
           /\ move.action = "wait" => move.phase = PhaseOf("user", 0, NoOutput)
           /\ move.action = "complete" =>
                 /\ phase.at = "verification" /\ input.kind = "passed"
                 /\ move.phase = PhaseOf("done", 0, phase.out)
           /\ move.action \in {"call_model", "execute_tools", "verify", "wait",
                               "complete", "error"}
BY DEF Advance, Moves

LEMMA ResponseKinds ==
    \A input \in ModelResponses :
        /\ input.kind \in {"calls", "badcalls", "ask", "final"}
        /\ input.kind = "calls" => input.n \in CallCounts
BY DEF ModelResponses, InputOf

Verdicts == {InputOf(verdict, 0, NoOutput) : verdict \in {"passed", "rejected"}}

LEMMA AnswerResults ==
    ASSUME NEW o, NEW outcome \in Answers(o)
    PROVE  /\ ops[o].kind = "model" => outcome.result \in ModelResponses \cup {NoInput}
           /\ ops[o].kind = "verify" => outcome.result \in Verdicts \cup {NoInput}
BY DEF Answers, NoReceipt, OutcomeOf, Verdicts

(***************************************************************************)
(* The invariants.                                                         *)
(***************************************************************************)
\* Results are of the kind of their operation.
Results ==
    \A o \in OpId :
        /\ ops[o].kind = "model" => ops[o].result \in ModelResponses \cup {NoInput}
        /\ ops[o].kind = "verify" => ops[o].result \in Verdicts \cup {NoInput}
        /\ ops[o].kind = "none" <=> ops[o].status = "Absent"
        /\ ops[o].tool # "none" => ops[o].kind = "tool"
Heard == \A d \in Drivers : drv[d].pc = "settle" => drv[d].got \in Answers(drv[d].op)

ResultInv == OrderInv /\ Results /\ Heard

LEMMA NewOperation ==
    ASSUME AttemptInv, NEW d \in Drivers, AdvanceCommit(d), NEW o \in NewOps(Move)
    PROVE  /\ o \in OpId
           /\ ops'[o].kind = RequestKind(Move)
           /\ ops'[o].status = "Pending"
           /\ ops'[o].step = run.step + 1
           /\ ops'[o].result = NoInput
           /\ Move.action = "verify" => ops'[o].out = Move.phase.out
           /\ Move.action # "execute_tools" => ops'[o].tool = "none"
<1>1. o \in OpId
  <2>1. run.usage.operations \in Nat /\ Reserve(Move).operations <= MaxOperations
    BY DEF AttemptInv, TypeOK, Run, Usage, AdvanceCommit, Acceptable, WithinBudget
  <2>2. BatchSize(Move) \in Nat
    <3>1. Move \in Transition
      BY AdvanceType DEF AttemptInv, TypeOK, Run, Move
    <3> QED
      BY <3>1 DEF BatchSize, Transition, Phase
  <2>3. Reserve(Move).operations \in Nat
    BY <2>1, <2>2 DEF Reserve
  <2> QED
    BY <2>1, <2>3, LimitsAssumption DEF NewOps, OpId
<1>2. PICK tool \in [NewOps(Move) -> IF Move.action = "execute_tools" THEN ToolKinds
                                     ELSE {"none"}] :
        ops'[o] = Requested(RequestKind(Move), tool[o],
                            IF Move.action = "verify" THEN Move.phase.out ELSE NoOutput,
                            run.step + 1)
  BY <1>1 DEF AdvanceCommit
<1>3. tool[o] \in IF Move.action = "execute_tools" THEN ToolKinds ELSE {"none"}
  BY <1>2
<1> QED
  BY <1>1, <1>2, <1>3 DEF Requested, NoOperation

\* A batch of a committed step that is not empty is a model call, tool calls
\* or a verification.
LEMMA Commit ==
    ASSUME AttemptInv, NEW d \in Drivers, AdvanceCommit(d)
    PROVE  /\ run.usage.operations \in Nat
           /\ Move.action \in {"call_model", "execute_tools", "verify", "wait", "complete"}
           /\ Move.action \in {"call_model", "verify"} =>
                 NewOps(Move) = {run.usage.operations + 1}
           /\ Move.action = "execute_tools" =>
                 NewOps(Move) = (run.usage.operations + 1)..(run.usage.operations + run.next.n)
           /\ Move.action \in {"wait", "complete"} => NewOps(Move) = {}
           /\ run'.usage.operations = run.usage.operations + BatchSize(Move)
           /\ run'.pending = NewOps(Move)
           /\ run'.phase = Move.phase
           /\ run'.next = NoInput
           /\ run'.step = run.step + 1
<1>0. run.usage.operations \in Nat /\ run.phase \in Phase /\ run.next \in Input
  BY DEF AttemptInv, TypeOK, Run, Usage
<1>1. Move.action # "error"
  BY DEF AdvanceCommit, Acceptable
<1>2. /\ Move.action \in {"call_model", "execute_tools", "verify", "wait", "complete"}
      /\ Move.action = "execute_tools" => Move.phase.n = run.next.n
  <2>1. Move = Advance(run.phase, run.next)
    BY DEF Move
  <2> HIDE DEF Move
  <2>2. /\ Move.action \in {"call_model", "execute_tools", "verify", "wait", "complete", "error"}
        /\ Move.action = "execute_tools" => Move.phase = PhaseOf("tools", run.next.n, NoOutput)
    BY <1>0, <2>1, AdvanceCases
  <2> QED
    BY <1>1, <2>2 DEF PhaseOf
<1>3. /\ Move.action \in {"call_model", "verify"} => BatchSize(Move) = 1
      /\ Move.action = "execute_tools" => BatchSize(Move) = run.next.n
      /\ Move.action \in {"wait", "complete"} => BatchSize(Move) = 0
  BY <1>2 DEF BatchSize
<1>4. NewOps(Move) = (run.usage.operations + 1)..(run.usage.operations + BatchSize(Move))
  BY DEF NewOps, Reserve
<1>5. /\ run'.usage = Reserve(Move) /\ run'.pending = NewOps(Move) /\ run'.phase = Move.phase
      /\ run'.next = NoInput /\ run'.step = run.step + 1
  BY DEF AdvanceCommit
<1>6. run'.usage.operations = run.usage.operations + BatchSize(Move)
  BY <1>5 DEF Reserve
<1> QED
  BY <1>0, <1>2, <1>3, <1>4, <1>5, <1>6

LEMMA ResultStep == ResultInv /\ [Next]_vars => ResultInv'
<1> SUFFICES ASSUME ResultInv, [Next]_vars PROVE Results' /\ Heard'
  BY OrderStep DEF ResultInv
<1>0. AttemptInv /\ Executors /\ Results /\ Heard
  BY DEF ResultInv, OrderInv, AttemptInv
<1>1. ASSUME NEW o \in OpId
      PROVE  /\ ops'[o].kind = "model" => ops'[o].result \in ModelResponses \cup {NoInput}
             /\ ops'[o].kind = "verify" => ops'[o].result \in Verdicts \cup {NoInput}
             /\ ops'[o].kind = "none" <=> ops'[o].status = "Absent"
             /\ ops'[o].tool # "none" => ops'[o].kind = "tool"
  <2>0. /\ ops[o].kind = "model" => ops[o].result \in ModelResponses \cup {NoInput}
        /\ ops[o].kind = "verify" => ops[o].result \in Verdicts \cup {NoInput}
        /\ ops[o].kind = "none" <=> ops[o].status = "Absent"
        /\ ops[o].tool # "none" => ops[o].kind = "tool"
    BY <1>0 DEF Results
  <2>1. CASE ops'[o] = ops[o]
    BY <2>0, <2>1
  <2>2. CASE Requests(o)
    <3>1. PICK d \in Drivers : AdvanceCommit(d)
      BY <2>2 DEF Requests
    <3>2. o \in NewOps(Move)
      BY <2>2, <3>1 DEF Requests, AdvanceCommit
    <3> QED
      BY <1>0, <3>1, <3>2, NewOperation DEF RequestKind
  <2>3. CASE SameRequest(o) /\ (Decides(o) \/ Starts(o) \/ Fences(o))
    BY <2>0, <2>3 DEF SameRequest, Decides, Starts, Fences, SameResult, Dispatchable
  <2>4. CASE SameRequest(o) /\ Settles(o)
    <3>1. PICK d \in Drivers : Settle(d) /\ drv[d].op = o
                                /\ ops'[o].status = SettledAs(o, drv[d].got)
                                /\ ops'[o].result = drv[d].got.result
      BY <2>4 DEF Settles
    <3>2. drv[d].got \in Answers(o)
      BY <1>0, <3>1 DEF Heard, Settle
    <3>3. ops'[o].status # "Absent"
      BY <3>1, SettledType
    <3> QED
      BY <2>0, <2>4, <3>1, <3>2, <3>3, AnswerResults DEF SameRequest, Settles
  <2>5. CASE SameRequest(o) /\ Reconciles(o)
    BY <2>0, <2>5 DEF SameRequest, Reconciles
  <2> QED
    BY <1>0, <2>1, <2>2, <2>3, <2>4, <2>5, OperationStep DEF OperationMoves
<1>2. ASSUME NEW d \in Drivers, drv'[d].pc = "settle"
      PROVE  (drv[d].got \in Answers(drv[d].op))'
  <2>1. CASE drv'[d] = drv[d]
    <3>1. drv[d].op \in OpId /\ ops[drv[d].op].attempts = 1
      BY <1>2, <2>1, <1>0 DEF Executors, Executing
    <3>2. ops'[drv[d].op].kind = ops[drv[d].op].kind
      <4>1. ~Requests(drv[d].op)
        BY <1>0, <3>1 DEF Requests, AttemptInv, Attempts
      <4> QED
        BY <1>0, <3>1, <4>1, OperationStep DEF OperationMoves, SameRequest
    <3>3. drv[d].got \in Answers(drv[d].op)
      BY <1>0, <1>2, <2>1 DEF Heard
    <3> QED
      BY <2>1, <3>2, <3>3 DEF Answers
  <2>2. CASE Hears(d)
    <3>1. ops' = ops /\ drv'[d].op = drv[d].op /\ drv'[d].got \in Answers(drv[d].op)
      BY <2>2 DEF Hears, Execute
    <3> QED
      BY <3>1 DEF Answers
  <2>3. CASE Rests(d) \/ Looks(d) \/ Picks(d) \/ Calls(d) \/ Turns(d) \/ Surrenders(d)
    BY <1>2, <2>3 DEF Rests, Looks, Picks, Calls, Turns, Surrenders
  <2> QED
    BY <1>0, <2>1, <2>2, <2>3, DriverStep DEF DriverMoves
<1> QED
  BY <1>1, <1>2 DEF Results, Heard

\* The pending operations are the last ones requested, they are what the phase
\* asked for, and the loop has no other input meanwhile.
FitsPhase(o) ==
    /\ ops[o].step = run.step
    /\ ops[o].kind = CASE run.phase.at = "model" -> "model"
                       [] run.phase.at = "tools" -> "tool"
                       [] OTHER -> "verify"
    /\ run.phase.at = "verification" => ops[o].out = run.phase.out
PhaseSize == IF run.phase.at = "tools" THEN run.phase.n ELSE 1
PendingBatch ==
    run.pending # {} =>
        /\ run.next = NoInput
        /\ run.phase.at \in {"model", "tools", "verification"}
        /\ run.phase.at = "tools" => run.phase.n \in CallCounts
        /\ run.pending = (run.usage.operations - PhaseSize + 1)..run.usage.operations
        /\ \A o \in run.pending : FitsPhase(o)

\* The next input is one the phase expects.
NextExpected ==
    run.next # NoInput =>
        /\ Expects(run.phase, run.next)
        /\ run.phase.at = "model" => run.next \in ModelResponses

\* A run with nothing to do waits for the user.
NeverIdle ==
    ~Stopped /\ run.next = NoInput /\ run.pending = {} =>
        run.status = "Waiting" /\ run.wait = WaitFor("input", run.step)

\* A passed verification is the last operation, of the verified output.
PassedCheck(out) ==
    LET last == run.usage.operations
    IN /\ last \in OpId
       /\ ops[last].kind = "verify" /\ ops[last].result.kind = "passed"
       /\ ops[last].out = out
PassedIsLast == run.next.kind = "passed" => PassedCheck(run.verified)
CompletedIsLast == run.status = "Completed" => PassedCheck(run.result)

\* A wait names what it waits for; nobody answered the question it asks.
WaitCause ==
    run.status = "Waiting" =>
        /\ run.wait.kind = "reconcile" =>
              run.wait.id \in OpId /\ ops[run.wait.id].status = "Unknown"
        /\ run.wait.kind = "input" =>
              /\ run.next = NoInput /\ run.pending = {} /\ run.phase.at = "user"
              /\ run.wait.id = run.step
              /\ \A key \in Keys : inputs[key] # run.step

Questions ==
    \A k, l \in Keys : /\ inputs[k] <= run.step
                       /\ inputs[k] # 0 /\ inputs[k] = inputs[l] => k = l

LoopInv ==
    /\ ResultInv /\ PendingBatch /\ NextExpected /\ NeverIdle
    /\ PassedIsLast /\ CompletedIsLast /\ WaitCause /\ Questions

LEMMA LoopInit == Init => LoopInv
<1> SUFFICES ASSUME Init PROVE LoopInv
  OBVIOUS
<1>1. OrderInv
  BY OrderInit
<1>2. Results /\ Heard
  BY DEF Init, NoOperation, Results, Heard, Idle
<1>3. PendingBatch /\ NextExpected /\ NeverIdle
  BY DEF Init, SubmittedRun, PendingBatch, NextExpected, NeverIdle, Expects, InputOf,
        NoInput, StartPhase, PhaseOf
<1>4. PassedIsLast /\ CompletedIsLast /\ WaitCause
  BY DEF Init, SubmittedRun, PassedIsLast, CompletedIsLast, WaitCause, InputOf
<1>5. Questions
  BY DEF Init, SubmittedRun, Questions
<1> QED
  BY <1>1, <1>2, <1>3, <1>4, <1>5 DEF LoopInv, ResultInv

LEMMA LoopFacts ==
    ASSUME LoopInv
    PROVE  /\ AttemptInv /\ OrderInv /\ Snapshots /\ OpenIsPending /\ Results
           /\ PendingBatch /\ NextExpected /\ NeverIdle /\ PassedIsLast
           /\ CompletedIsLast /\ WaitCause /\ Questions
           /\ run.usage.operations \in Nat /\ run.step \in Nat
           /\ run.pending \subseteq OpId /\ run \in Run
           /\ \A o \in run.pending : ops[o].status # "Absent"
<1>1. AttemptInv /\ TypeOK /\ Numbering
  BY DEF LoopInv, ResultInv, OrderInv, AttemptInv
<1>2. /\ run.usage.operations \in Nat /\ run.step \in Nat
      /\ run.pending \subseteq OpId /\ run \in Run
  BY <1>1 DEF TypeOK, Run, Usage
<1>3. \A o \in run.pending : ops[o].status # "Absent"
  BY <1>1, <1>2 DEF Numbering, OpId
<1> QED
  BY <1>1, <1>2, <1>3 DEF LoopInv, ResultInv, OrderInv

\* A pending operation keeps the request it was made from.
LEMMA PendingKeepsRequest ==
    ASSUME LoopInv, [Next]_vars, NEW o \in OpId, ops[o].status # "Absent"
    PROVE  SameRequest(o)
BY LoopFacts, OperationStep DEF OperationMoves, Requests, SameRequest

\* A run that has a next input, or ended, has no active operation.
LEMMA LastIsSettled ==
    ASSUME LoopInv, run.next # NoInput \/ run.status \in TerminalStatuses,
           NEW o \in OpId, ops[o].status # "Absent"
    PROVE  ops[o].status \in Settled
<1>1. ops[o].status \notin Active
  BY LoopFacts DEF PendingBatch, OpenIsPending
<1> QED
  BY <1>1, Statuses, LoopFacts DEF AttemptInv, TypeOK

LEMMA PendingBatchStep == LoopInv /\ [Next]_vars => PendingBatch'
<1> SUFFICES ASSUME LoopInv, [Next]_vars PROVE PendingBatch'
  OBVIOUS
<1>1. CASE run' = run \/ (SameLoop /\ run'.next \in {run.next, NoInput})
  <2>1. \A o \in run.pending : SameRequest(o)
    BY LoopFacts, PendingKeepsRequest
  <2>2. /\ run'.pending = run.pending /\ run'.phase = run.phase /\ run'.step = run.step
        /\ run'.usage = run.usage /\ run'.next \in {run.next, NoInput}
    BY <1>1 DEF SameLoop
  <2> QED
    BY <2>1, <2>2, LoopFacts DEF PendingBatch, FitsPhase, PhaseSize, SameRequest
<1>2. CASE Replies \/ Collects \/ Fails
  <2>1. run'.pending = {}
    BY <1>2, LoopFacts DEF Replies, Collects, Fails, SameLoop, WaitCause, Snapshots
  <2> QED
    BY <2>1 DEF PendingBatch
<1>3. CASE Commits
  <2>1. PICK d \in Drivers : AdvanceCommit(d) /\ d \in current
    BY <1>3 DEF Commits
  <2>2. /\ run.usage.operations \in Nat
        /\ Move.action \in {"call_model", "execute_tools", "verify", "wait", "complete"}
        /\ Move.action \in {"call_model", "verify"} =>
              NewOps(Move) = {run.usage.operations + 1}
        /\ Move.action = "execute_tools" =>
              NewOps(Move) = (run.usage.operations + 1)..(run.usage.operations + run.next.n)
        /\ Move.action \in {"wait", "complete"} => NewOps(Move) = {}
        /\ run'.usage.operations = run.usage.operations + BatchSize(Move)
        /\ run'.pending = NewOps(Move)
        /\ run'.phase = Move.phase
        /\ run'.next = NoInput
        /\ run'.step = run.step + 1
    BY <2>1, LoopFacts, Commit
  <2>3. /\ run.next # NoInput /\ Move = Advance(run.phase, run.next)
        /\ run.phase \in Phase /\ run.next \in Input
    BY <2>1, LoopFacts DEF Snapshots, Move, Run
  <2>4. \A o \in NewOps(Move) :
           /\ ops'[o].kind = RequestKind(Move)
           /\ ops'[o].step = run.step + 1
           /\ Move.action = "verify" => ops'[o].out = Move.phase.out
    BY <2>1, LoopFacts, NewOperation
  <2> DEFINE move == Move
             new == NewOps(Move)
             size == BatchSize(Move)
             kind == RequestKind(Move)
  <2>5. /\ move = Advance(run.phase, run.next)
        /\ size = CASE move.action = "execute_tools" -> move.phase.n
                    [] move.action \in {"call_model", "verify"} -> 1
                    [] OTHER -> 0
        /\ kind = CASE move.action = "call_model" -> "model"
                    [] move.action = "execute_tools" -> "tool"
                    [] OTHER -> "verify"
    BY <2>3 DEF BatchSize, RequestKind
  <2>6. CASE move.action = "call_model"
    <3>1. move.phase = ModelPhase
      BY <2>3, <2>5, <2>6, AdvanceCases
    <3>2. run'.phase.at = "model"
      BY <2>2, <3>1 DEF ModelPhase, PhaseOf
    <3>3. size = 1 /\ kind = "model" /\ PhaseSize' = 1
      BY <2>5, <2>6, <3>2 DEF PhaseSize
    <3>4. run'.pending = (run'.usage.operations - PhaseSize' + 1)..run'.usage.operations
      <4>1. run'.usage.operations = run.usage.operations + 1
        BY <2>2, <3>3
      <4>2. run'.usage.operations - PhaseSize' + 1 = run.usage.operations + 1
        BY <2>2, <3>3, <4>1
      <4>3. {run.usage.operations + 1} = (run.usage.operations + 1)..(run.usage.operations + 1)
        BY <2>2
      <4> QED
        BY <2>2, <2>6, <4>1, <4>2, <4>3
    <3>5. \A o \in run'.pending : FitsPhase(o)'
      BY <2>2, <2>4, <2>6, <3>2, <3>3 DEF FitsPhase
    <3> QED
      BY <2>2, <3>2, <3>4, <3>5 DEF PendingBatch
  <2>7. CASE move.action = "execute_tools"
    <3>1. /\ run.phase.at = "model" /\ run.next.kind = "calls"
          /\ move.phase = PhaseOf("tools", run.next.n, NoOutput)
      BY <2>3, <2>5, <2>7, AdvanceCases
    <3>2. run'.phase.at = "tools" /\ run'.phase.n = run.next.n
      BY <2>2, <3>1 DEF PhaseOf
    <3>3. run.next.n \in CallCounts /\ run.next.n \in Nat
      BY <2>3, <3>1, LoopFacts, ResponseKinds DEF NextExpected, Input
    <3>4. size = run.next.n /\ kind = "tool" /\ PhaseSize' = run.next.n
      BY <2>2, <2>5, <2>7, <3>2 DEF PhaseSize
    <3>5. run'.pending = (run'.usage.operations - PhaseSize' + 1)..run'.usage.operations
      BY <2>2, <2>7, <3>3, <3>4
    <3> QED
      BY <2>2, <2>4, <2>7, <3>2, <3>3, <3>4, <3>5 DEF PendingBatch, FitsPhase
  <2>8. CASE move.action = "verify"
    <3>1. move.phase = PhaseOf("verification", 0, run.next.out)
      BY <2>3, <2>5, <2>8, AdvanceCases
    <3>2. run'.phase.at = "verification" /\ run'.phase = move.phase
      BY <2>2, <3>1 DEF PhaseOf
    <3>3. size = 1 /\ kind = "verify" /\ PhaseSize' = 1
      BY <2>5, <2>8, <3>2 DEF PhaseSize
    <3>4. run'.pending = (run'.usage.operations - PhaseSize' + 1)..run'.usage.operations
      <4>1. run'.usage.operations = run.usage.operations + 1
        BY <2>2, <3>3
      <4>2. run'.usage.operations - PhaseSize' + 1 = run.usage.operations + 1
        BY <2>2, <3>3, <4>1
      <4>3. {run.usage.operations + 1} = (run.usage.operations + 1)..(run.usage.operations + 1)
        BY <2>2
      <4> QED
        BY <2>2, <2>8, <4>1, <4>2, <4>3
    <3>5. \A o \in run'.pending : FitsPhase(o)'
      BY <2>2, <2>4, <2>8, <3>2, <3>3 DEF FitsPhase
    <3> QED
      BY <2>2, <3>2, <3>4, <3>5 DEF PendingBatch
  <2>9. CASE move.action \in {"wait", "complete"}
    BY <2>2, <2>9 DEF PendingBatch
  <2> QED
    BY <2>2, <2>6, <2>7, <2>8, <2>9
<1> QED
  BY <1>1, <1>2, <1>3, RunStep, LoopFacts
     DEF RunMoves, Waits, Resumes, Lingers, Cancels, Confirms, SameInput

\* What a settled batch gives the loop: the input it expects, or nothing.
LEMMA Collected ==
    ASSUME LoopInv, NEW d \in Drivers, CollectBatch(d)
    PROVE  /\ run'.phase = run.phase /\ run'.step = run.step /\ run'.usage = run.usage
           /\ run'.result = run.result /\ run'.pending = {}
           /\ run'.status = IF run'.next # NoInput THEN "Running" ELSE "Failed"
           /\ run'.next # NoInput =>
                 /\ Expects(run.phase, run'.next)
                 /\ run.phase.at = "model" => run'.next \in ModelResponses
           /\ run'.next.kind = "passed" => PassedCheck(run'.verified)
<1>0. PICK o \in OpId :
        /\ First(run.pending, o)
        /\ run' = [run EXCEPT
              !.pending = {},
              !.next = BatchInput(o),
              !.wait = NoWait,
              !.status = IF BatchInput(o) # NoInput THEN "Running" ELSE "Failed",
              !.verified = IF BatchInput(o).kind = "passed" THEN ops[o].out ELSE @]
  BY DEF CollectBatch
<1>1. /\ run'.phase = run.phase /\ run'.step = run.step /\ run'.usage = run.usage
      /\ run'.result = run.result /\ run'.pending = {} /\ run'.next = BatchInput(o)
      /\ run'.status = IF BatchInput(o) # NoInput THEN "Running" ELSE "Failed"
      /\ BatchInput(o).kind = "passed" => run'.verified = ops[o].out
  BY <1>0, LoopFacts DEF Run
<1>2. o \in run.pending /\ FitsPhase(o)
  BY <1>0, LoopFacts DEF First, PendingBatch
<1>3. /\ run.phase.at \in {"model", "tools", "verification"}
      /\ run.phase.at = "tools" => run.phase.n \in CallCounts
      /\ run.pending = (run.usage.operations - PhaseSize + 1)..run.usage.operations
      /\ run.usage.operations \in Nat
  BY <1>2, LoopFacts DEF PendingBatch
<1>4. CASE run.phase.at = "model"
  <2>1. BatchInput(o) \in ModelResponses \cup {NoInput}
    BY <1>2, <1>4, LoopFacts DEF FitsPhase, Results, BatchInput
  <2>2. BatchInput(o) # NoInput => BatchInput(o).kind \in {"calls", "badcalls", "ask", "final"}
    BY <2>1, ResponseKinds
  <2>3. BatchInput(o).kind # "passed"
    BY <2>1, <2>2 DEF NoInput, InputOf
  <2> QED
    BY <1>1, <1>4, <2>1, <2>2, <2>3 DEF Expects
<1>5. CASE run.phase.at = "tools"
  <2>1. BatchInput(o) = InputOf("tools", Cardinality(run.pending), NoOutput)
    BY <1>2, <1>5 DEF FitsPhase, BatchInput
  <2>2. Cardinality(run.pending) = run.phase.n
    <3>1. run.phase.n \in Nat \ {0} /\ PhaseSize = run.phase.n
      BY <1>3, <1>5, CallCountsAssumption DEF PhaseSize
    <3>2. run.usage.operations - run.phase.n + 1 \in Int /\ run.usage.operations \in Int
      BY <1>3, <3>1
    <3>3. run.usage.operations - run.phase.n + 1 <= run.usage.operations
      BY <1>3, <3>1
    <3>4. Cardinality((run.usage.operations - run.phase.n + 1)..run.usage.operations)
            = run.usage.operations - (run.usage.operations - run.phase.n + 1) + 1
      BY <3>2, <3>3, FS_Interval
    <3> QED
      BY <1>3, <3>1, <3>4
  <2>3. BatchInput(o).kind = "tools" /\ BatchInput(o).n = run.phase.n
    BY <2>1, <2>2 DEF InputOf
  <2> QED
    BY <1>1, <1>5, <2>3 DEF Expects
<1>6. CASE run.phase.at = "verification"
  <2>1. ops[o].kind = "verify"
    BY <1>2, <1>6 DEF FitsPhase
  <2>2. BatchInput(o) = ops[o].result /\ BatchInput(o) \in Verdicts \cup {NoInput}
    BY <1>2, <2>1, LoopFacts DEF Results, BatchInput
  <2>3. BatchInput(o) # NoInput => BatchInput(o).kind \in {"passed", "rejected"}
    BY <2>2 DEF Verdicts, InputOf
  <2>4. o = run.usage.operations
    BY <1>2, <1>3, <1>6, LoopFacts DEF PhaseSize, OpId
  <2>5. run'.next.kind = "passed" => PassedCheck(run'.verified)
    BY <1>1, <2>1, <2>2, <2>4 DEF PassedCheck
  <2> QED
    BY <1>1, <1>6, <2>3, <2>5 DEF Expects
<1> QED
  BY <1>3, <1>4, <1>5, <1>6

LEMMA NextExpectedStep == LoopInv /\ [Next]_vars => NextExpected'
<1> SUFFICES ASSUME LoopInv, [Next]_vars PROVE NextExpected'
  OBVIOUS
<1>1. CASE run' = run \/ (SameLoop /\ run'.next \in {run.next, NoInput})
  BY <1>1, LoopFacts DEF SameLoop, NextExpected
<1>2. CASE Replies
  <2>1. run'.phase.at = "user" /\ run'.next.kind = "user"
    BY <1>2, LoopFacts DEF Replies, SameLoop, WaitCause, InputOf
  <2> QED
    BY <2>1 DEF NextExpected, Expects
<1>3. CASE Collects
  BY <1>3, Collected DEF Collects, NextExpected
<1>4. CASE Commits
  BY <1>4 DEF Commits, NextExpected
<1> QED
  BY <1>1, <1>2, <1>3, <1>4, RunStep, LoopFacts
     DEF RunMoves, Waits, Resumes, Lingers, Fails, Cancels, Confirms, SameInput

LEMMA NeverIdleStep == LoopInv /\ [Next]_vars => NeverIdle'
<1> SUFFICES ASSUME LoopInv, [Next]_vars,
                    ~Stopped', run'.next = NoInput, run'.pending = {}
             PROVE  run'.status = "Waiting" /\ run'.wait = WaitFor("input", run'.step)
  BY DEF NeverIdle
<1>1. CASE run' = run
  BY <1>1, LoopFacts DEF NeverIdle, Stopped
<1>2. CASE Waits \/ Resumes
  BY <1>2, LoopFacts DEF Waits, Resumes, Unfinished, OpenIsPending, SameLoop
<1>3. CASE Lingers \/ Fails \/ Cancels \/ Confirms
  BY <1>3 DEF Lingers, Fails, Cancels, Confirms, Stopped, TerminalStatuses
<1>4. CASE Replies
  BY <1>4 DEF Replies, NoInput, InputOf
<1>5. CASE Collects
  BY <1>5, Collected DEF Collects, Stopped, TerminalStatuses
<1>6. CASE Commits
  <2>1. PICK d \in Drivers : AdvanceCommit(d)
    BY <1>6 DEF Commits
  <2>2. /\ Move.action \in {"call_model", "execute_tools", "verify", "wait", "complete"}
        /\ Move.action \in {"call_model", "verify"} =>
              NewOps(Move) = {run.usage.operations + 1}
        /\ Move.action = "execute_tools" =>
              NewOps(Move) = (run.usage.operations + 1)..(run.usage.operations + run.next.n)
        /\ run'.pending = NewOps(Move)
        /\ run.usage.operations \in Nat
    BY <2>1, LoopFacts, Commit
  <2>3. Move.action # "execute_tools"
    <3>1. CASE Move.action = "execute_tools"
      <4>1. d \in current
        BY <2>1 DEF AdvanceCommit
      <4>2. run.next # NoInput /\ run.phase \in Phase /\ run.next \in Input
        BY <4>1, LoopFacts DEF Snapshots, Run
      <4>3. run.phase.at = "model" /\ run.next.kind = "calls"
        BY <3>1, <4>2, AdvanceCases DEF Move
      <4>4. run.next.n \in Nat \ {0}
        BY <4>2, <4>3, LoopFacts, ResponseKinds, CallCountsAssumption DEF NextExpected
      <4>5. run.usage.operations + 1 \in NewOps(Move)
        BY <2>2, <3>1, <4>4
      <4> QED
        BY <2>2, <4>5
    <3> QED
      BY <3>1
  <2>4. Move.action # "complete"
    BY <2>1 DEF AdvanceCommit, Stopped, TerminalStatuses
  <2>5. Move.action = "wait"
    BY <2>2, <2>3, <2>4
  <2> QED
    BY <2>1, <2>5 DEF AdvanceCommit
<1> QED
  BY <1>1, <1>2, <1>3, <1>4, <1>5, <1>6, RunStep, LoopFacts DEF RunMoves

\* A passed check is not undone while its run is of no other step.
LEMMA PassedStays ==
    ASSUME LoopInv, [Next]_vars, NEW out, PassedCheck(out),
           run.next # NoInput \/ run.status \in TerminalStatuses,
           run'.usage.operations = run.usage.operations
    PROVE  PassedCheck(out)'
<1> DEFINE last == run.usage.operations
<1>1. last \in OpId /\ ops[last].status # "Absent"
  BY LoopFacts DEF PassedCheck, Results
<1>2. ops'[last] = ops[last]
  BY <1>1, LastIsSettled, SettledStays, LoopFacts
<1> QED
  BY <1>1, <1>2 DEF PassedCheck

LEMMA PassedStep == LoopInv /\ [Next]_vars => PassedIsLast' /\ CompletedIsLast'
<1> SUFFICES ASSUME LoopInv, [Next]_vars PROVE PassedIsLast' /\ CompletedIsLast'
  OBVIOUS
<1>1. NoInput.kind # "passed" /\ InputOf("user", 0, NoOutput).kind # "passed"
  BY DEF NoInput, InputOf
<1>2. PassedIsLast'
  <2> SUFFICES ASSUME run'.next.kind = "passed" PROVE PassedCheck(run.verified)'
    BY DEF PassedIsLast
  <2>1. CASE run' = run \/ (SameLoop /\ run'.next \in {run.next, NoInput})
    <3>1. /\ run'.next = run.next /\ run'.verified = run.verified
          /\ run'.usage = run.usage
      BY <1>1, <2>1 DEF SameLoop
    <3>2. PassedCheck(run.verified) /\ run.next # NoInput
      BY <1>1, <3>1, LoopFacts DEF PassedIsLast
    <3>3. \A out : out = run.verified => PassedCheck(out)'
      BY <3>1, <3>2, PassedStays
    <3> QED
      BY <3>1, <3>3 DEF PassedCheck
  <2>2. CASE Replies \/ Commits
    BY <1>1, <2>2 DEF Replies, Commits
  <2>3. CASE Collects
    <3>1. PassedCheck(run'.verified)
      BY <2>3, Collected DEF Collects
    <3>2. ops' = ops /\ run'.usage = run.usage
      BY <2>3, Collected DEF Collects
    <3> QED
      BY <3>1, <3>2 DEF PassedCheck
  <2> QED
    BY <2>1, <2>2, <2>3, RunStep, LoopFacts
       DEF RunMoves, Waits, Resumes, Lingers, Fails, Cancels, Confirms, SameInput
<1>3. CompletedIsLast'
  <2> SUFFICES ASSUME run'.status = "Completed" PROVE PassedCheck(run.result)'
    BY DEF CompletedIsLast
  <2>1. CASE run' = run
    <3>1. PassedCheck(run.result) /\ run.status \in TerminalStatuses
      BY <2>1, LoopFacts DEF CompletedIsLast, TerminalStatuses
    <3>2. \A out : out = run.result => PassedCheck(out)'
      BY <2>1, <3>1, PassedStays
    <3> QED
      BY <2>1, <3>2 DEF PassedCheck
  <2>2. CASE Waits \/ Resumes \/ Lingers \/ Replies \/ Fails \/ Cancels \/ Confirms \/ Collects
    BY <2>2 DEF Waits, Resumes, Lingers, Replies, Fails, Cancels, Confirms, Collects
  <2>3. CASE Commits
    <3>1. PICK d \in Drivers : AdvanceCommit(d) /\ d \in current
      BY <2>3 DEF Commits
    <3>2. Move.action = "complete"
      BY <3>1 DEF AdvanceCommit
    <3>3. run.next # NoInput /\ run.phase \in Phase /\ run.next \in Input
      BY <3>1, LoopFacts DEF Snapshots, Run
    <3>4. run.next.kind = "passed"
      BY <3>2, <3>3, AdvanceCases DEF Move
    <3>5. run.verified = Move.phase.out /\ run'.result = Move.phase.out
      BY <3>1, <3>2 DEF AdvanceCommit, Acceptable
    <3>6. run'.usage.operations = run.usage.operations
      <4>1. BatchSize(Move) = 0
        BY <3>2 DEF BatchSize
      <4> QED
        BY <3>1, <4>1, Commit, LoopFacts
    <3>7. PassedCheck(run.verified)
      BY <3>4, LoopFacts DEF PassedIsLast
    <3>8. \A out : out = run.verified => PassedCheck(out)'
      BY <3>3, <3>6, <3>7, PassedStays
    <3> QED
      BY <3>5, <3>8 DEF PassedCheck
  <2> QED
    BY <2>1, <2>2, <2>3, RunStep, LoopFacts DEF RunMoves
<1> QED
  BY <1>2, <1>3

LEMMA WaitStep == LoopInv /\ [Next]_vars => WaitCause' /\ Questions'
<1> SUFFICES ASSUME LoopInv, [Next]_vars PROVE WaitCause' /\ Questions'
  OBVIOUS
<1>0. inputs \in [Keys -> Nat]
  BY LoopFacts DEF AttemptInv, TypeOK
<1>1. RunMoves /\ (inputs' = inputs \/ Replies)
  BY RunStep, LoopFacts
<1>2. CASE run' = run
  <2>1. inputs' = inputs \/ run.status # "Waiting"
    BY <1>1, <1>2 DEF Replies
  <2>2. inputs' = inputs
    BY <1>1, <1>2, <2>1 DEF Replies
  <2>3. \A o \in OpId : ops[o].status = "Unknown" /\ run.status = "Waiting" =>
            ops'[o].status = "Unknown"
    BY <1>2, LoopFacts, OperationStep DEF OperationMoves, Requests, Decides, Starts, Settles,
       Fences, Reconciles, Dispatchable
  <2> QED
    BY <1>2, <2>2, <2>3, LoopFacts DEF WaitCause, Questions
<1>3. CASE Waits
  <2>1. inputs' = inputs
    BY <1>1, <1>3 DEF Replies, Waits
  <2> QED
    BY <1>3, <2>1, LoopFacts DEF Waits, SameLoop, WaitCause, Questions
<1>4. CASE Resumes \/ Lingers \/ Collects \/ Fails \/ Cancels \/ Confirms
  <2>1. run'.status # "Waiting" /\ run'.step = run.step
    BY <1>4, Collected DEF Resumes, Lingers, Collects, Fails, Cancels, Confirms, SameLoop
  <2>2. inputs' = inputs \/ Replies
    BY <1>1
  <2>3. CASE inputs' = inputs
    BY <2>1, <2>3, LoopFacts DEF WaitCause, Questions
  <2>4. CASE Replies
    <3>1. PICK key \in Keys : inputs' = [inputs EXCEPT ![key] = run.wait.id]
      BY <2>4 DEF Replies
    <3>2. run.wait.id = run.step /\ \A k \in Keys : inputs[k] # run.step
      BY <2>4, LoopFacts DEF Replies, WaitCause
    <3> QED
      BY <1>0, <2>1, <3>1, <3>2, LoopFacts DEF WaitCause, Questions
  <2> QED
    BY <2>2, <2>3, <2>4
<1>5. CASE Replies
  <2>1. PICK key \in Keys : inputs' = [inputs EXCEPT ![key] = run.wait.id]
    BY <1>5 DEF Replies
  <2>2. run.wait.id = run.step /\ \A k \in Keys : inputs[k] # run.step
    BY <1>5, LoopFacts DEF Replies, WaitCause
  <2>3. run'.status # "Waiting" /\ run'.step = run.step
    BY <1>5 DEF Replies, SameLoop
  <2> QED
    BY <1>0, <2>1, <2>2, <2>3, LoopFacts DEF WaitCause, Questions
<1>6. CASE Commits
  <2>1. PICK d \in Drivers : AdvanceCommit(d)
    BY <1>6 DEF Commits
  <2>2. inputs' = inputs
    BY <2>1 DEF AdvanceCommit
  <2>3. run'.step = run.step + 1 /\ run.step \in Nat
    BY <1>6, LoopFacts DEF Commits
  <2>4. Questions'
    BY <1>0, <2>2, <2>3, LoopFacts DEF Questions
  <2>5. \A key \in Keys : inputs'[key] # run'.step
    BY <1>0, <2>2, <2>3, LoopFacts DEF Questions
  <2>6. run'.status = "Waiting" =>
           /\ run'.wait.kind = "input" /\ run'.wait.id = run'.step
           /\ run'.next = NoInput /\ run'.pending = {} /\ run'.phase.at = "user"
    <3>1. SUFFICES ASSUME run'.status = "Waiting"
          PROVE  /\ run'.wait.kind = "input" /\ run'.wait.id = run'.step
                 /\ run'.next = NoInput /\ run'.pending = {} /\ run'.phase.at = "user"
      OBVIOUS
    <3>2. Move.action = "wait"
      BY <2>1, <3>1 DEF AdvanceCommit
    <3>3. run'.wait = WaitFor("input", run.step + 1)
      BY <2>1, <3>2 DEF AdvanceCommit
    <3>4. Move.phase = PhaseOf("user", 0, NoOutput)
      BY <3>2, LoopFacts, AdvanceCases DEF Move, Run
    <3>5. run'.next = NoInput /\ run'.pending = {} /\ run'.phase = Move.phase
      BY <2>1, <3>2, LoopFacts, Commit
    <3> QED
      BY <2>3, <3>3, <3>4, <3>5 DEF WaitFor, PhaseOf
  <2>7. WaitCause'
    BY <2>5, <2>6 DEF WaitCause
  <2> QED
    BY <2>4, <2>7
<1> QED
  BY <1>1, <1>2, <1>3, <1>4, <1>5, <1>6 DEF RunMoves

LEMMA LoopStep == LoopInv /\ [Next]_vars => LoopInv'
BY ResultStep, PendingBatchStep, NextExpectedStep, NeverIdleStep, PassedStep, WaitStep
   DEF LoopInv

LEMMA LoopInvariant == Spec => []LoopInv
BY LoopInit, LoopStep, PTL DEF Spec

\* The runtime stores only inputs the loop expects, the pending operations are
\* what the phase asked for, and a live run always has something to do.
THEOREM StaysInSync == Spec => []LoopInSync
<1>1. LoopInv => LoopInSync
  BY LoopFacts DEF LoopInSync, PendingBatch, NextExpected, NeverIdle, FitsPhase
<1> QED
  BY <1>1, LoopInvariant, PTL

\* A completed run returns the output that its last operation verified.
THEOREM CompletionIsVerified == Spec => []CompletedVerified
<1>1. LoopInv => CompletedVerified
  BY LoopFacts DEF CompletedVerified, CompletedIsLast, PassedCheck
<1> QED
  BY <1>1, LoopInvariant, PTL

\* A wait for reconciliation names an uncertain operation, a wait for the user
\* leaves nothing pending.
THEOREM WaitsHaveACause == Spec => []WaitNamesItsCause
<1>1. LoopInv => WaitNamesItsCause
  BY LoopFacts DEF WaitNamesItsCause, WaitCause
<1> QED
  BY <1>1, LoopInvariant, PTL

\* A question takes one answer, whatever keys are retried or raced.
THEOREM AnsweredOnce == Spec => []AnswerOnce
<1>1. LoopInv => AnswerOnce
  BY LoopFacts DEF AnswerOnce, Questions
<1> QED
  BY <1>1, LoopInvariant, PTL

(***************************************************************************)
(* Approvals.                                                              *)
(***************************************************************************)
LEMMA ApprovalStep ==
    AttemptInv /\ ApprovalCoversAttempt /\ [Next]_vars => ApprovalCoversAttempt'
<1> SUFFICES ASSUME AttemptInv, ApprovalCoversAttempt, [Next]_vars,
                    \A p \in Policies : p.approval,
                    NEW o \in OpId, ops'[o].kind = "tool", ops'[o].attempts > 0
             PROVE  /\ ops'[o].decision.verdict = "approved"
                    /\ ops'[o].decision.at <= ops'[o].started
                    /\ ops'[o].started < ops'[o].decision.at + ApprovalTTL
  BY DEF ApprovalCoversAttempt
<1>0. ops \in [OpId -> Operation] /\ policy \in Policies /\ Attempts
  BY DEF AttemptInv, TypeOK
<1>1. CASE Starts(o)
  <2>1. PICK d \in Drivers : AdmitStart(d) /\ drv[d].op = o
    BY <1>1 DEF Starts
  <2>2. ops'[o].started = drv[d].at /\ ops'[o].decision = ops[o].decision
    <3>1. ops[o] \in Operation
          /\ ops' = [ops EXCEPT ![o].status = "Running", ![o].attempts = @ + 1,
                                ![o].started = drv[d].at]
      BY <1>0, <2>1 DEF AdmitStart
    <3> QED
      BY <1>0, <3>1 DEF Operation
  <2>3. ops[o].kind = "tool"
    <3>1. SameRequest(o) \/ ops'[o] = ops[o]
      BY <1>1, OperationStep DEF OperationMoves, Requests, Starts, Dispatchable
    <3> QED
      BY <3>1 DEF SameRequest
  <2>4. Admission(o, drv[d].at) = "allow"
    BY <2>1, <2>3 DEF AdmitStart, Admitted
  <2>5. /\ ops[o].decision.verdict = "approved"
        /\ ops[o].decision.at <= drv[d].at
        /\ drv[d].at < ops[o].decision.at + ApprovalTTL
    BY <1>0, <2>4 DEF Admission
  <2> QED
    BY <2>2, <2>5
<1>2. CASE ~Starts(o)
  <2>1. ~Requests(o)
    BY DEF Requests
  <2>2. ops[o].attempts > 0 => ops[o].status \notin Dispatchable
    BY <1>0 DEF Attempts
  <2>3. \/ ops'[o] = ops[o]
        \/ SameRequest(o) /\ SameAttempt(o) /\ SameDecision(o)
    BY <1>2, <2>1, <2>2, OperationStep
       DEF OperationMoves, Decides, Settles, Fences, Reconciles, SameAttempt
  <2>4. ops[o].kind = "tool" /\ ops[o].attempts > 0
    BY <2>3 DEF SameRequest, SameAttempt
  <2> QED
    BY <2>3, <2>4 DEF ApprovalCoversAttempt, SameAttempt, SameDecision
<1> QED
  BY <1>1, <1>2

\* Where every policy requires an approval, a tool that was started had been
\* approved, in time, and the approval is still its last decision.
THEOREM ApprovalPrecedesAttempt == Spec => []ApprovalCoversAttempt
<1>1. Init => ApprovalCoversAttempt
  BY DEF Init, ApprovalCoversAttempt, NoOperation
<1> QED
  BY <1>1, ApprovalStep, AttemptInvariant, PTL DEF Spec

(***************************************************************************)
(* Budgets.                                                                *)
(***************************************************************************)
BudgetInv ==
    /\ LoopInv
    /\ run.usage.models = Cardinality(Kind("model"))
    /\ run.usage.tools = Cardinality(Kind("tool"))
    /\ run.usage.models <= MaxModelCalls
    /\ run.step <= MaxHarnessSteps

LEMMA FiniteOps == IsFiniteSet(OpId)
BY FS_Interval, LimitsAssumption DEF OpId

\* Operations of a kind only change when a step requests new ones.
LEMMA KindKept ==
    ASSUME LoopInv, [Next]_vars, NEW kind \in {"model", "tool"},
           run'.usage = run.usage
    PROVE  Kind(kind)' = Kind(kind)
<1>1. \A o \in OpId : ops[o].status # "Absent" => ops'[o].kind = ops[o].kind
  BY PendingKeepsRequest DEF SameRequest
<1>2. \A o \in OpId : ops[o].status = "Absent" => ops'[o].status = "Absent"
  <2> SUFFICES ASSUME NEW o \in OpId, ops[o].status = "Absent", ops'[o].status # "Absent"
               PROVE  FALSE
    OBVIOUS
  <2>1. Numbering /\ Numbering'
    BY AttemptStep, LoopFacts DEF AttemptInv
  <2> QED
    BY <2>1 DEF Numbering
<1>3. Results /\ Results'
  BY ResultStep DEF LoopInv, ResultInv
<1> QED
  BY <1>1, <1>2, <1>3 DEF Kind, Results

LEMMA BudgetStep == BudgetInv /\ [Next]_vars => BudgetInv'
<1> SUFFICES ASSUME BudgetInv, [Next]_vars PROVE BudgetInv'
  OBVIOUS
<1>0. /\ LoopInv /\ LoopInv' /\ Results /\ Results' /\ run \in Run
      /\ run.usage.models = Cardinality(Kind("model"))
      /\ run.usage.tools = Cardinality(Kind("tool"))
      /\ run.usage.models <= MaxModelCalls
      /\ run.step <= MaxHarnessSteps
  BY LoopStep, LoopFacts DEF BudgetInv, LoopInv, ResultInv
<1>1. CASE run'.usage = run.usage /\ run'.step = run.step
  <2>1. Kind("model")' = Kind("model") /\ Kind("tool")' = Kind("tool")
    BY <1>0, <1>1, KindKept
  <2> QED
    BY <1>0, <1>1, <2>1 DEF BudgetInv
<1>2. CASE Commits
  <2>1. PICK d \in Drivers : AdvanceCommit(d)
    BY <1>2 DEF Commits
  <2>2. /\ run.usage.operations \in Nat
        /\ Move.action \in {"call_model", "execute_tools", "verify", "wait", "complete"}
        /\ Move.action \in {"call_model", "verify"} =>
              NewOps(Move) = {run.usage.operations + 1}
        /\ Move.action = "execute_tools" =>
              NewOps(Move) = (run.usage.operations + 1)..(run.usage.operations + run.next.n)
        /\ Move.action \in {"wait", "complete"} => NewOps(Move) = {}
        /\ run'.step = run.step + 1
    BY <1>0, <2>1, LoopFacts, Commit
  <2>3. /\ run'.usage = Reserve(Move) /\ Reserve(Move).models <= MaxModelCalls
        /\ run.step < MaxHarnessSteps
    BY <2>1 DEF AdvanceCommit, Acceptable, WithinBudget
  <2>4. run.step \in Nat /\ run.usage.models \in Nat /\ run.usage.tools \in Nat
        /\ run.next \in Input /\ run.phase \in Phase /\ MaxHarnessSteps \in Nat
    BY <1>0, LimitsAssumption DEF Run, Usage
  <2>5. ASSUME NEW kind \in {"model", "tool"}
        PROVE  /\ Kind(kind)' = Kind(kind) \cup
                     (IF RequestKind(Move) = kind THEN NewOps(Move) ELSE {})
               /\ Kind(kind) \cap NewOps(Move) = {}
               /\ IsFiniteSet(Kind(kind)) /\ IsFiniteSet(NewOps(Move))
    <3>1. \A o \in NewOps(Move) : o \in OpId /\ ops'[o].kind = RequestKind(Move)
      BY <1>0, <2>1, LoopFacts, NewOperation
    <3>2. \A o \in OpId \ NewOps(Move) : ops'[o] = ops[o]
      BY <2>1 DEF AdvanceCommit
    <3>3. \A o \in NewOps(Move) : ops[o].kind = "none"
      <4>1. \A o \in NewOps(Move) : run.usage.operations < o
        BY <2>2, <2>4 DEF NewOps
      <4>2. \A o \in NewOps(Move) : ops[o].status = "Absent"
        BY <3>1, <4>1, <1>0, LoopFacts DEF AttemptInv, Numbering
      <4> QED
        BY <1>0, <3>1, <4>2 DEF Results
    <3>4. Kind(kind) \subseteq OpId /\ NewOps(Move) \subseteq OpId
      BY <3>1 DEF Kind
    <3>5. IsFiniteSet(Kind(kind)) /\ IsFiniteSet(NewOps(Move))
      BY <3>4, FiniteOps, FS_Subset
    <3> QED
      BY <3>1, <3>2, <3>3, <3>5 DEF Kind
  <2>6. ASSUME NEW kind \in {"model", "tool"}
        PROVE  Cardinality(Kind(kind)') = Cardinality(Kind(kind)) +
                   (IF RequestKind(Move) = kind THEN Cardinality(NewOps(Move)) ELSE 0)
    <3>1. CASE RequestKind(Move) = kind
      <4>1. Cardinality(Kind(kind) \cup NewOps(Move)) =
              Cardinality(Kind(kind)) + Cardinality(NewOps(Move))
               - Cardinality(Kind(kind) \cap NewOps(Move))
        BY <2>5, FS_Union
      <4>2. Cardinality(Kind(kind) \cap NewOps(Move)) = 0
        BY <2>5, FS_EmptySet
      <4>3. Cardinality(Kind(kind)) \in Nat /\ Cardinality(NewOps(Move)) \in Nat
        BY <2>5, FS_CardinalityType
      <4>4. Kind(kind)' = Kind(kind) \cup NewOps(Move)
        BY <2>5, <3>1
      <4> QED
        BY <3>1, <4>1, <4>2, <4>3, <4>4
    <3>2. CASE RequestKind(Move) # kind
      <4>1. Kind(kind)' = Kind(kind)
        BY <2>5, <3>2
      <4>2. Cardinality(Kind(kind)) \in Nat
        BY <2>5, FS_CardinalityType
      <4> QED
        BY <3>2, <4>1, <4>2
    <3> QED
      BY <3>1, <3>2
  <2>7. CASE Move.action = "call_model"
    <3>1. RequestKind(Move) = "model" /\ Cardinality(NewOps(Move)) = 1
      BY <2>2, <2>7, FS_Singleton DEF RequestKind
    <3>2. run'.usage.models = run.usage.models + 1 /\ run'.usage.tools = run.usage.tools
      BY <2>3, <2>4, <2>7 DEF Reserve
    <3> QED
      BY <1>0, <2>2, <2>3, <2>4, <2>6, <3>1, <3>2 DEF BudgetInv
  <2>8. CASE Move.action = "execute_tools"
    <3>1. Move.phase.n = run.next.n /\ run.next.n \in Nat
      <4>1. Move.phase = PhaseOf("tools", run.next.n, NoOutput)
        BY <2>4, <2>8, AdvanceCases DEF Move
      <4> QED
        BY <2>4, <4>1 DEF PhaseOf, Input
    <3>2. RequestKind(Move) = "tool" /\ Cardinality(NewOps(Move)) = run.next.n
      <4>1. RequestKind(Move) = "tool"
        BY <2>8 DEF RequestKind
      <4>2. CASE run.next.n = 0
        <5>1. NewOps(Move) = {}
          BY <2>2, <2>8, <4>2
        <5> QED
          BY <4>1, <4>2, <5>1, FS_EmptySet
      <4>3. CASE run.next.n # 0
        <5>1. run.usage.operations + 1 <= run.usage.operations + run.next.n
          BY <2>2, <3>1, <4>3
        <5>2. \A a, b \in Int : a <= b => Cardinality(a..b) = b - a + 1
          BY FS_Interval
        <5>3. /\ run.usage.operations + 1 \in Int
              /\ run.usage.operations + run.next.n \in Int
          BY <2>2, <3>1
        <5>4. Cardinality(NewOps(Move)) =
                (run.usage.operations + run.next.n) - (run.usage.operations + 1) + 1
          BY <2>2, <2>8, <5>1, <5>2, <5>3
        <5> QED
          BY <2>2, <3>1, <4>1, <5>4
      <4> QED
        BY <4>2, <4>3
    <3>3. run'.usage.models = run.usage.models
          /\ run'.usage.tools = run.usage.tools + run.next.n
      BY <2>3, <2>4, <2>8, <3>1 DEF Reserve
    <3> QED
      BY <1>0, <2>2, <2>3, <2>4, <2>6, <3>2, <3>3 DEF BudgetInv
  <2>9. CASE Move.action \in {"verify", "wait", "complete"}
    <3>1. RequestKind(Move) = "verify"
      BY <2>9 DEF RequestKind
    <3>2. run'.usage.models = run.usage.models /\ run'.usage.tools = run.usage.tools
      BY <2>3, <2>4, <2>9 DEF Reserve
    <3>3. /\ Cardinality(Kind("model")') = Cardinality(Kind("model"))
          /\ Cardinality(Kind("tool")') = Cardinality(Kind("tool"))
      BY <2>6, <3>1, <1>0, <2>4
    <3> QED
      BY <1>0, <2>2, <2>3, <2>4, <3>2, <3>3 DEF BudgetInv
  <2> QED
    BY <2>2, <2>7, <2>8, <2>9
<1> QED
  BY <1>0, <1>1, <1>2, RunStep, LoopFacts, Collected
     DEF RunMoves, Waits, Resumes, Lingers, Replies, Collects, Fails, Cancels, Confirms,
         SameLoop

LEMMA BudgetInvariant == Spec => []BudgetInv
<1>1. Init => BudgetInv
  <2> SUFFICES ASSUME Init PROVE BudgetInv
    OBVIOUS
  <2>1. Kind("model") = {} /\ Kind("tool") = {}
    BY DEF Init, Kind, NoOperation
  <2>2. /\ run.usage.models = 0 /\ run.usage.tools = 0 /\ run.step = 0
    BY DEF Init, SubmittedRun
  <2> QED
    BY <2>1, <2>2, FS_EmptySet, LoopInit, LimitsAssumption DEF BudgetInv
<1> QED
  BY <1>1, BudgetStep, PTL DEF Spec

\* The budget counters are the numbers of operations ever requested, by kind,
\* and never pass the limits.
THEOREM BudgetsHold == Spec => []BudgetRespected
<1>1. BudgetInv => BudgetRespected
  <2> SUFFICES ASSUME BudgetInv PROVE BudgetRespected
    OBVIOUS
  <2>1. /\ LoopInv /\ Results /\ Numbering /\ run.usage.operations \in Nat
    BY LoopFacts DEF BudgetInv, AttemptInv
  <2>2. OpId \ Kind("none") = 1..run.usage.operations
    <3>1. 1..run.usage.operations \subseteq OpId
      BY <2>1, LimitsAssumption DEF Numbering, OpId
    <3>2. \A o \in OpId : ops[o].kind # "none" <=> o <= run.usage.operations
      BY <2>1 DEF Results, Numbering, OpId
    <3> QED
      BY <2>1, <3>1, <3>2 DEF Kind, OpId
  <2>3. Cardinality(1..run.usage.operations) = run.usage.operations
    <3>1. CASE run.usage.operations = 0
      BY <3>1, FS_EmptySet
    <3>2. CASE run.usage.operations # 0
      BY <2>1, <3>2, FS_Interval
    <3> QED
      BY <3>1, <3>2
  <2> QED
    BY <2>1, <2>2, <2>3 DEF BudgetInv, BudgetRespected, Numbering
<1> QED
  BY <1>1, BudgetInvariant, PTL
=============================================================================
