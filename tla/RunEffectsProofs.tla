-------------------------- MODULE RunEffectsProofs --------------------------
(***************************************************************************)
(* RunExecution implements EffectLedger, for every number of drivers,      *)
(* crashes, fences and policy changes: the theorem behind the property     *)
(* WritesFollowLedger.                                                     *)
(***************************************************************************)
EXTENDS RunLoopProofs

(***************************************************************************)
(* The inductive invariant: what an outcome says of its destination.       *)
(***************************************************************************)
\* What was never called never took effect; a write that succeeded took effect
\* and one that failed did not; a sandbox write is never started.
Truthful ==
    /\ \A o \in OpId : dest[o].calls = 0 => ~dest[o].applied
    /\ \A o \in Writes :
          /\ ops[o].status = "Succeeded" => dest[o].applied
          /\ ops[o].status = "Failed" => ~dest[o].applied
          /\ ops[o].tool = "sandbox" => ops[o].attempts = 0

\* What a driver heard is what happened, and nobody settles a write while its
\* driver is still to make the call.
Witnessed ==
    \A d \in Drivers :
        /\ drv[d].pc = "settle" =>
              /\ dest[drv[d].op].calls = 1
              /\ drv[d].got.kind \in {"value", "invalid"} => dest[drv[d].op].applied
              /\ drv[d].got.kind = "failed" => ~dest[drv[d].op].applied
        /\ drv[d].pc = "call" /\ drv[d].op \in Writes =>
              ops[drv[d].op].status \in Uncertain

ReceiptInv == LoopInv /\ Truthful /\ Witnessed

LEMMA ReceiptInit == Init => ReceiptInv
<1> SUFFICES ASSUME Init PROVE ReceiptInv
  OBVIOUS
<1>1. Truthful /\ Witnessed
  BY DEF Init, Truthful, Witnessed, Writes, NoOperation, Idle
<1> QED
  BY <1>1, LoopInit DEF ReceiptInv

LEMMA ReceiptFacts ==
    ASSUME ReceiptInv
    PROVE  /\ AttemptInv /\ LoopInv /\ Attempts /\ Executors /\ Results /\ Heard
           /\ Truthful /\ Witnessed /\ TypeOK
           /\ \A o \in Writes : ops[o].kind = "tool" /\ o \in OpId
BY LoopFacts DEF ReceiptInv, AttemptInv, LoopInv, ResultInv, Results, Writes

\* Only a call of an executor reaches a destination.
LEMMA DestinationStep ==
    ASSUME [Next]_vars PROVE dest' = dest \/ \E d \in Drivers : Execute(d)
<1>1. ASSUME NEW d \in Drivers,
             Tick(d) \/ Scan(d) \/ Review(d) \/ Crash(d) \/ Cancel(d) \/ Dispatch(d)
      PROVE  dest' = dest \/ Execute(d)
  BY <1>1 DEF Tick, Scan, Review, Crash, Cancel, Dispatch, AdmitNothing, AdmitDeny, AdmitWait,
        AdmitUnsupported, AdmitStart, SettleStale, Settle
<1>2. ASSUME NEW d \in Drivers, Collect(d) \/ AdvanceRun(d) \/ Finish(d)
      PROVE  dest' = dest
  BY <1>2 DEF Collect, CollectNothing, CollectUncertain, CollectBatch, AdvanceRun,
        AdvanceStale, AdvanceRefused, AdvanceCommit, Fail, Finish, FinishNothing,
        FinishCancellation
<1>3. ASSUME NEW o \in OpId, PersonWrites(o) PROVE dest' = dest
  BY <1>3 DEF PersonWrites, Approve, MarkInterrupted, RecordReconciledToolResult,
        AbandonModelResponse
<1>4. ASSUME \/ \E key \in Keys : Answer(key)
             \/ \E new \in Policies : SetPolicy(new)
             \/ ClockTick \/ UNCHANGED vars
      PROVE  dest' = dest
  BY <1>4 DEF Answer, ProvideInput, SetPolicy, ClockTick, vars
<1> QED
  BY <1>1, <1>2, <1>3, <1>4 DEF Next, Drive, Decide, PersonWrites

LEMMA ExecuteStep ==
    ASSUME ReceiptInv, NEW d \in Drivers, Execute(d)
    PROVE  /\ drv[d].op \in OpId /\ dest[drv[d].op].calls = 0 /\ ~dest[drv[d].op].applied
           /\ drv[d].pc = "call" /\ ops' = ops
           /\ dest'[drv[d].op].calls = 1
           /\ dest'[drv[d].op].applied \in BOOLEAN
           /\ drv'[d].got.kind \in {"value", "invalid"} => dest'[drv[d].op].applied
           /\ drv'[d].got.kind = "failed" => ~dest'[drv[d].op].applied
           /\ \A o \in OpId \ {drv[d].op} : dest'[o] = dest[o]
           /\ \A e \in Drivers \ {d} : drv'[e] = drv[e]
           /\ drv'[d].op = drv[d].op /\ drv'[d].pc = "settle"
<1> DEFINE o == drv[d].op
<1>0. TypeOK /\ Executors /\ Truthful
  BY ReceiptFacts
<1>1. drv[d].pc = "call" /\ o \in OpId /\ dest[o].calls = 0 /\ ~dest[o].applied
  BY <1>0 DEF Execute, Executors, Truthful
<1>12. PICK outcome \in Answers(o) : \E effect \in TookEffect(outcome) :
        /\ dest' = [dest EXCEPT ![o].calls = @ + 1, ![o].applied = @ \/ effect]
        /\ drv' = [drv EXCEPT ![d].pc = "settle", ![d].got = outcome]
  BY DEF Execute
<1>2. PICK effect \in TookEffect(outcome) :
        /\ dest' = [dest EXCEPT ![o].calls = @ + 1, ![o].applied = @ \/ effect]
        /\ drv' = [drv EXCEPT ![d].pc = "settle", ![d].got = outcome]
  BY <1>12
<1>3. drv[d] \in Driver /\ dest[o] \in Destination /\ drv \in [Drivers -> Driver]
      /\ dest \in [OpId -> Destination]
  BY <1>0, <1>1 DEF TypeOK
<1>4. drv'[d].pc = "settle" /\ drv'[d].got = outcome /\ drv'[d].op = o
  BY <1>2, <1>3 DEF Driver
<1>5. /\ dest'[o].calls = dest[o].calls + 1
      /\ dest'[o].applied = (dest[o].applied \/ effect)
  BY <1>1, <1>2, <1>3 DEF Destination
<1>6. /\ effect \in BOOLEAN
      /\ outcome.kind \in {"value", "invalid"} => effect
      /\ outcome.kind = "failed" => ~effect
  BY DEF TookEffect
<1>7. /\ \A p \in OpId \ {o} : dest'[p] = dest[p]
      /\ \A e \in Drivers \ {d} : drv'[e] = drv[e]
  BY <1>2, <1>3
<1>8. ops' = ops
  BY DEF Execute
<1>9. dest'[o].calls = 1
  BY <1>1, <1>5
<1>10. dest'[o].applied = effect
  BY <1>1, <1>5, <1>6
<1> HIDE DEF o
<1>11. /\ drv'[d].got.kind \in {"value", "invalid"} => dest'[o].applied
       /\ drv'[d].got.kind = "failed" => ~dest'[o].applied
       /\ dest'[o].applied \in BOOLEAN
  BY <1>4, <1>6, <1>10
<1> QED
  BY <1>1, <1>4, <1>7, <1>8, <1>9, <1>11 DEF o

LEMMA ReceiptStep == ReceiptInv /\ [Next]_vars => ReceiptInv'
<1> SUFFICES ASSUME ReceiptInv, [Next]_vars PROVE Truthful' /\ Witnessed'
  BY LoopStep DEF ReceiptInv
<1>0. /\ AttemptInv /\ LoopInv /\ Attempts /\ Executors /\ Results /\ Heard
      /\ Truthful /\ Witnessed
      /\ \A o \in Writes : ops[o].kind = "tool" /\ o \in OpId
  BY ReceiptFacts
<1>1. ASSUME NEW d \in Drivers, Execute(d) PROVE Truthful' /\ Witnessed'
  <2> DEFINE o == drv[d].op
  <2>1. /\ o \in OpId /\ dest[o].calls = 0 /\ ~dest[o].applied
        /\ drv[d].pc = "call" /\ ops' = ops
        /\ dest'[o].calls = 1
        /\ drv'[d].got.kind \in {"value", "invalid"} => dest'[o].applied
        /\ drv'[d].got.kind = "failed" => ~dest'[o].applied
        /\ \A p \in OpId \ {o} : dest'[p] = dest[p]
        /\ \A e \in Drivers \ {d} : drv'[e] = drv[e]
        /\ drv'[d].op = o /\ drv'[d].pc = "settle"
    BY <1>1, ExecuteStep
  <2>2. Writes' = Writes
    BY <2>1 DEF Writes
  <2>3. o \in Writes => ops[o].status \in Uncertain
    BY <1>0, <2>1 DEF Witnessed
  <2>4. \A e \in Drivers \ {d} : drv[e].pc \in {"call", "settle"} =>
            drv[e].op \in OpId \ {o}
    BY <1>0, <2>1 DEF Executors, Executing
  <2> HIDE DEF o
  <2>5. Truthful'
    BY <1>0, <2>1, <2>2, <2>3 DEF Truthful, Uncertain
  <2>6. Witnessed'
    BY <1>0, <2>1, <2>2, <2>4 DEF Witnessed
  <2> QED
    BY <2>5, <2>6
<1>2. ASSUME dest' = dest PROVE Truthful' /\ Witnessed'
  <2>1. ASSUME NEW o \in Writes'
        PROVE  /\ ops'[o].status = "Succeeded" => dest[o].applied
               /\ ops'[o].status = "Failed" => ~dest[o].applied
               /\ ops'[o].tool = "sandbox" => ops'[o].attempts = 0
    <3>0. o \in OpId /\ ops'[o].tool \in {"write", "sandbox"}
      BY <2>1 DEF Writes
    <3>1. CASE ops'[o] = ops[o]
      BY <1>0, <3>0, <3>1 DEF Truthful, Writes
    <3>2. CASE Requests(o)
      BY <3>2 DEF Requests
    <3>3. CASE SameRequest(o) /\ ops'[o] # ops[o]
      <4>0. /\ o \in Writes /\ ops[o].kind = "tool" /\ ops'[o].tool = ops[o].tool
        BY <1>0, <3>0, <3>3 DEF SameRequest, Writes
      <4>1. CASE Decides(o)
        <5>1. ops[o].attempts = 0 /\ ~dest[o].applied
          BY <1>0, <3>0, <4>1 DEF Decides, Attempts, Truthful
        <5> QED
          BY <4>1, <5>1 DEF Decides, SameAttempt, Dispatchable
      <4>2. CASE Starts(o)
        BY <4>0, <4>2 DEF Starts, AdmitStart
      <4>3. CASE Settles(o)
        <5>1. PICK d \in Drivers : /\ Settle(d) /\ drv[d].op = o
                                   /\ ops'[o].status = SettledAs(o, drv[d].got)
          BY <4>3 DEF Settles
        <5>2. drv[d].pc = "settle" /\ drv[d].got \in Answers(o)
          BY <1>0, <5>1 DEF Settle, Heard
        <5>3. drv[d].got.kind \in {"value", "invalid", "failed", "unknown"}
          BY <4>0, <5>2 DEF Answers, NoReceipt, OutcomeOf
        <5>4. ops[o].attempts = 1 /\ ops'[o].attempts = 1 /\ ops[o].tool = "write"
          BY <1>0, <3>0, <4>0, <4>3 DEF Settles, SameAttempt, Attempts, Truthful
        <5>5. /\ drv[d].got.kind = "value" => dest[o].applied
              /\ drv[d].got.kind = "failed" => ~dest[o].applied
          BY <1>0, <5>1, <5>2 DEF Witnessed
        <5> QED
          BY <4>0, <5>1, <5>3, <5>4, <5>5 DEF SettledAs
      <4>4. CASE Fences(o)
        BY <1>0, <4>0, <4>4 DEF Fences, SameAttempt, Truthful
      <4>5. CASE Reconciles(o)
        BY <1>0, <4>0, <4>5 DEF Reconciles, SameAttempt, Truthful
      <4> QED
        BY <1>0, <3>0, <3>3, <4>1, <4>2, <4>3, <4>4, <4>5, OperationStep
           DEF OperationMoves, Requests, SameRequest, Results
    <3> QED
      BY <1>0, <3>0, <3>1, <3>2, <3>3, OperationStep DEF OperationMoves
  <2>2. Truthful'
    BY <1>0, <1>2, <2>1 DEF Truthful
  <2>3. ASSUME NEW d \in Drivers, drv'[d].pc = "settle"
        PROVE  /\ dest[drv'[d].op].calls = 1
               /\ drv'[d].got.kind \in {"value", "invalid"} => dest[drv'[d].op].applied
               /\ drv'[d].got.kind = "failed" => ~dest[drv'[d].op].applied
    <3>1. ~Hears(d)
      <4>1. ASSUME Execute(d) PROVE FALSE
        <5>1. /\ drv[d].op \in OpId /\ dest[drv[d].op].calls = 0
              /\ dest'[drv[d].op].calls = 1
          BY <4>1, ExecuteStep
        <5> QED
          BY <1>2, <5>1
      <4> QED
        BY <4>1 DEF Hears
    <3>2. drv'[d] = drv[d]
      BY <1>0, <2>3, <3>1, DriverStep
         DEF DriverMoves, Rests, Looks, Picks, Calls, Turns, Surrenders
    <3> QED
      BY <1>0, <2>3, <3>2 DEF Witnessed
  <2>4. ASSUME NEW d \in Drivers, drv'[d].pc = "call", drv'[d].op \in Writes'
        PROVE  ops'[drv'[d].op].status \in Uncertain
    <3>1. CASE Calls(d)
      <4>1. AdmitStart(d) /\ drv'[d].op = drv[d].op /\ drv[d].op \in OpId
        BY <1>0, <3>1 DEF Calls, AdmitStart, Executors
      <4>2. ops'[drv[d].op].status = "Running"
        <5>1. ops[drv[d].op] \in Operation /\ ops \in [OpId -> Operation]
          BY <1>0, <4>1 DEF AttemptInv, TypeOK
        <5> QED
          BY <4>1, <5>1 DEF AdmitStart, Operation
      <4> QED
        BY <4>1, <4>2 DEF Uncertain
    <3>2. CASE drv'[d] = drv[d]
      <4> DEFINE o == drv[d].op
      <4>1. /\ drv[d].pc = "call" /\ o \in OpId /\ dest[o].calls = 0
            /\ ops[o].attempts = 1 /\ ~dest[o].applied
        BY <1>0, <2>4, <3>2 DEF Executors, Executing, Truthful
      <4>2. ~Requests(o)
        BY <1>0, <4>1 DEF Requests, Attempts
      <4>3. o \in Writes /\ ops[o].status \in Uncertain /\ ops[o].kind = "tool"
        <5>1. ops'[o].tool \in {"write", "sandbox"}
          BY <2>4, <3>2 DEF Writes
        <5>2. ops'[o].tool = ops[o].tool
          BY <1>0, <4>1, <4>2, OperationStep DEF OperationMoves, SameRequest
        <5>3. o \in Writes
          BY <4>1, <5>1, <5>2 DEF Writes
        <5> QED
          BY <1>0, <4>1, <5>3 DEF Witnessed
      <4>4. ~Settles(o)
        <5>1. ASSUME NEW e \in Drivers, Settle(e), drv[e].op = o PROVE FALSE
          BY <1>0, <4>1, <5>1 DEF Settle, Executors, Executing
        <5> QED
          BY <5>1 DEF Settles
      <4> HIDE DEF o
      <4>5. ops'[o].status \in Uncertain
        BY <1>0, <4>1, <4>2, <4>3, <4>4, OperationStep
           DEF OperationMoves, Decides, Starts, Fences, Reconciles, Uncertain, Dispatchable
      <4> QED
        BY <3>2, <4>5 DEF o
    <3> QED
      BY <1>0, <2>4, <3>1, <3>2, DriverStep
         DEF DriverMoves, Rests, Looks, Picks, Hears, Turns, Surrenders
  <2>5. Witnessed'
    BY <1>2, <2>3, <2>4 DEF Witnessed
  <2> QED
    BY <2>2, <2>5
<1> QED
  BY <1>1, <1>2, DestinationStep

LEMMA ReceiptInvariant == Spec => []ReceiptInv
BY ReceiptInit, ReceiptStep, PTL DEF Spec

(***************************************************************************)
(* The refinement.                                                         *)
(***************************************************************************)
Life == [o \in OpId |-> LifeOf(o)]
Invoked == {o \in Writes : dest[o].calls > 0}
Applied == {o \in Writes : dest[o].applied}

LEMMA LedgerInitially == Init => Ledger!LedgerInit
<1> SUFFICES ASSUME Init PROVE Ledger!LedgerInit
  OBVIOUS
<1>1. Writes = {}
  BY DEF Init, Writes, NoOperation
<1>2. \A o \in OpId : LifeOf(o) = "free"
  BY <1>1 DEF LifeOf
<1>3. Life = [o \in OpId |-> "free"]
  BY <1>2 DEF Life
<1> QED
  BY <1>1, <1>3 DEF Ledger!LedgerInit, Life

\* A call of an executor invokes a write, or concerns no write.
LEMMA ExecuteInvokes ==
    ASSUME ReceiptInv, NEW d \in Drivers, Execute(d)
    PROVE  [Ledger!LedgerNext]_(Ledger!ledger)
<1>0. PICK o \in OpId : o = drv[d].op
  BY ExecuteStep
<1>1. /\ dest[o].calls = 0 /\ ~dest[o].applied /\ dest'[o].calls = 1
      /\ dest'[o].applied \in BOOLEAN /\ drv[d].pc = "call" /\ ops' = ops
      /\ \A p \in OpId \ {o} : dest'[p] = dest[p]
  BY <1>0, ExecuteStep
<1>2. Writes' = Writes /\ Life' = Life
  BY <1>1 DEF Writes, Life, LifeOf
<1>3. CASE o \in Writes
  <2>1. ops[o].status \in Uncertain
    BY <1>0, <1>1, <1>3, ReceiptFacts DEF Witnessed
  <2>2. Life[o] \in {"admitted", "uncertain"}
    BY <1>1, <1>3, <2>1 DEF Life, LifeOf, Uncertain, Dispatchable
  <2>3. o \notin Invoked /\ Invoked' = Invoked \cup {o}
    BY <1>1, <1>2, <1>3 DEF Invoked, Writes
  <2>4. Applied' \in {Applied, Applied \cup {o}}
    <3>1. CASE dest'[o].applied
      <4>1. Applied' = Applied \cup {o}
        BY <1>1, <1>2, <1>3, <3>1 DEF Applied, Writes
      <4> QED
        BY <4>1
    <3>2. CASE ~dest'[o].applied
      <4>1. Applied' = Applied
        BY <1>1, <1>2, <1>3, <3>2 DEF Applied, Writes
      <4> QED
        BY <4>1
    <3> QED
      BY <3>1, <3>2
  <2>5. Ledger!Invoke(o)
    BY <1>2, <2>2, <2>3, <2>4 DEF Ledger!Invoke, Life, Invoked, Applied
  <2> QED
    BY <2>5 DEF Ledger!LedgerNext
<1>4. CASE o \notin Writes
  <2>1. Invoked' = Invoked /\ Applied' = Applied
    BY <1>1, <1>2, <1>4 DEF Invoked, Applied, Writes
  <2> QED
    BY <1>2, <2>1 DEF Ledger!ledger, Life, Invoked, Applied
<1> QED
  BY <1>3, <1>4

\* Every other step leaves what was invoked and what took effect as it was.
LEMMA EffectsStay ==
    ASSUME ReceiptInv, [Next]_vars, dest' = dest
    PROVE  Invoked' = Invoked /\ Applied' = Applied
<1>0. AttemptInv /\ Attempts /\ Truthful
  BY ReceiptFacts
<1>1. ASSUME NEW o \in OpId, dest[o].calls > 0 \/ dest[o].applied
      PROVE  o \in Writes' <=> o \in Writes
  <2>1. ops[o].attempts # 0
    <3>1. dest[o].calls # 0
      BY <1>0, <1>1 DEF Truthful
    <3> QED
      BY <1>0, <3>1 DEF Attempts
  <2>2. ~Requests(o)
    BY <1>0, <2>1 DEF Requests, Attempts
  <2>3. ops'[o].tool = ops[o].tool
    BY <1>0, <2>2, OperationStep DEF OperationMoves, SameRequest
  <2> QED
    BY <2>3 DEF Writes
<1>2. Writes \subseteq OpId /\ Writes' \subseteq OpId
  BY DEF Writes
<1> QED
  BY <1>1, <1>2 DEF Invoked, Applied

\* What a step can do to the life of an effect.
LifeMoves(o) ==
    \/ Life'[o] = Life[o]
    \/ Life[o] = "free" /\ Life'[o] = "requested" /\ \E d \in Drivers : AdvanceCommit(d)
    \/ Life[o] = "requested" /\ Life'[o] \in {"void", "admitted"}
    \/ Life[o] = "requested" /\ Life'[o] = "refused" /\ o \notin Applied
    \/ Life[o] = "admitted" /\ Life'[o] = "uncertain"
    \/ Life[o] \in {"admitted", "uncertain"} /\ Life'[o] = "confirmed" /\ o \in Applied
    \/ Life[o] = "admitted" /\ Life'[o] = "refused" /\ o \in Invoked /\ o \notin Applied

LEMMA LifeStep ==
    ASSUME ReceiptInv, [Next]_vars, dest' = dest, NEW o \in OpId
    PROVE  LifeMoves(o)
<1>0. /\ AttemptInv /\ Attempts /\ Results /\ Heard /\ Truthful /\ Witnessed
      /\ \A w \in Writes : ops[w].kind = "tool"
      /\ Truthful'
  BY ReceiptFacts, ReceiptStep DEF ReceiptInv
<1>1. Life[o] = LifeOf(o) /\ Life'[o] = LifeOf(o)'
  BY DEF Life
<1>2. CASE ops'[o] = ops[o]
  <2>1. o \in Writes' <=> o \in Writes
    BY <1>2 DEF Writes
  <2>2. LifeOf(o)' = LifeOf(o)
    BY <1>2, <2>1 DEF LifeOf
  <2> QED
    BY <1>1, <2>2 DEF LifeMoves
<1>3. CASE Requests(o)
  <2>1. o \notin Writes
    <3>1. ops[o].kind = "none"
      BY <1>0, <1>3 DEF Requests, Results
    <3> QED
      BY <1>0, <3>1
  <2>2. LifeOf(o) = "free" /\ LifeOf(o)' \in {"free", "requested"}
    BY <1>3, <2>1 DEF LifeOf, Requests, Dispatchable
  <2> QED
    BY <1>1, <1>3, <2>2 DEF LifeMoves, Requests
<1>4. CASE SameRequest(o) /\ o \notin Writes
  <2>1. o \notin Writes'
    BY <1>4 DEF SameRequest, Writes
  <2> QED
    BY <1>1, <1>4, <2>1 DEF LifeMoves, LifeOf
<1>5. CASE SameRequest(o) /\ o \in Writes
  <2>0. o \in Writes' /\ ops[o].kind = "tool"
    BY <1>0, <1>5 DEF SameRequest, Writes
  <2>1. CASE Decides(o)
    <3>1. LifeOf(o) = "requested" /\ LifeOf(o)' \in {"requested", "void", "refused"}
      BY <1>5, <2>0, <2>1 DEF Decides, LifeOf, Dispatchable
    <3>2. o \notin Applied
      BY <1>0, <2>1 DEF Decides, Attempts, Truthful, Applied
    <3> QED
      BY <1>1, <3>1, <3>2 DEF LifeMoves
  <2>2. CASE Starts(o)
    <3>1. LifeOf(o) = "requested" /\ LifeOf(o)' = "admitted"
      BY <1>5, <2>0, <2>2 DEF Starts, LifeOf, Dispatchable
    <3> QED
      BY <1>1, <3>1 DEF LifeMoves
  <2>3. CASE Settles(o)
    <3>1. LifeOf(o) = "admitted"
      BY <1>5, <2>3 DEF Settles, LifeOf, Dispatchable
    <3>2. PICK d \in Drivers : Settle(d) /\ drv[d].op = o
                               /\ ops'[o].status = SettledAs(o, drv[d].got)
      BY <2>3 DEF Settles
    <3>3. ops'[o].status \in {"Succeeded", "Failed", "Unknown"}
      BY <3>2, SettledType
    <3>4. o \in Invoked
      BY <1>0, <1>5, <3>2 DEF Settle, Witnessed, Invoked
    <3>5. /\ ops'[o].status = "Succeeded" => dest[o].applied
          /\ ops'[o].status = "Failed" => ~dest[o].applied
      BY <1>0, <2>0 DEF Truthful
    <3>6. /\ ops'[o].status = "Succeeded" => LifeOf(o)' = "confirmed" /\ o \in Applied
          /\ ops'[o].status = "Failed" => LifeOf(o)' = "refused" /\ o \notin Applied
          /\ ops'[o].status = "Unknown" => LifeOf(o)' = "uncertain"
      BY <1>5, <2>0, <3>5 DEF LifeOf, Applied, Dispatchable
    <3> QED
      BY <1>1, <3>1, <3>3, <3>4, <3>6 DEF LifeMoves
  <2>4. CASE Fences(o)
    <3>1. LifeOf(o) = "admitted" /\ LifeOf(o)' = "uncertain"
      BY <1>5, <2>0, <2>4 DEF Fences, LifeOf, Dispatchable
    <3> QED
      BY <1>1, <3>1 DEF LifeMoves
  <2>5. CASE Reconciles(o)
    <3>1. LifeOf(o) = "uncertain" /\ LifeOf(o)' = "confirmed" /\ o \in Applied
      BY <1>5, <2>0, <2>5 DEF Reconciles, LifeOf, Applied, Dispatchable
    <3> QED
      BY <1>1, <3>1 DEF LifeMoves
  <2> QED
    <3>1. \/ ops'[o] = ops[o] \/ Requests(o)
          \/ Decides(o) \/ Starts(o) \/ Settles(o) \/ Fences(o) \/ Reconciles(o)
      BY <1>0, OperationStep DEF OperationMoves
    <3> QED
      BY <1>2, <1>3, <2>1, <2>2, <2>3, <2>4, <2>5, <3>1
<1> QED
  BY <1>0, <1>2, <1>3, <1>4, <1>5, OperationStep DEF OperationMoves

\* A step concerns a batch, one operation, or none.
LEMMA Scope ==
    ASSUME ReceiptInv, [Next]_vars
    PROVE  \/ \E d \in Drivers : AdvanceCommit(d)
           \/ \E d \in Drivers : FinishCancellation(d)
           \/ \E o \in OpId : \A p \in OpId \ {o} : ops'[p] = ops[p]
           \/ ops' = ops
<1>0. ops \in [OpId -> Operation]
  BY ReceiptFacts DEF TypeOK
<1>1. ASSUME NEW d \in Drivers, NEW s,
             ops' = [ops EXCEPT ![drv[d].op] = s]
      PROVE  \/ \E o \in OpId : \A p \in OpId \ {o} : ops'[p] = ops[p]
             \/ ops' = ops
  BY <1>0, <1>1
<1>2. ASSUME NEW d \in Drivers, AdmitDeny(d) \/ AdmitWait(d) \/ AdmitUnsupported(d)
                                \/ AdmitStart(d) \/ Settle(d)
      PROVE  \E s : ops' = [ops EXCEPT ![drv[d].op] = s]
  BY <1>2 DEF AdmitDeny, AdmitWait, AdmitUnsupported, AdmitStart, Settle
<1>3. ASSUME NEW d \in Drivers, CollectUncertain(d) \/ CollectBatch(d) \/ Fail(d) \/ Cancel(d)
      PROVE  ops' = ops
  BY <1>3 DEF CollectUncertain, CollectBatch, Fail, Cancel
<1>4. ASSUME NEW o \in OpId, PersonWrites(o)
      PROVE  \A p \in OpId \ {o} : ops'[p] = ops[p]
  BY <1>0, <1>4 DEF PersonWrites, Approve, MarkInterrupted, RecordReconciledToolResult,
        AbandonModelResponse
<1>5. ASSUME NEW key \in Keys, Answer(key) PROVE ops' = ops
  BY <1>5 DEF Answer, ProvideInput
<1> QED
  BY <1>1, <1>2, <1>3, <1>4, <1>5, WritingSteps DEF DriverWrites

LEMMA LedgerStep == ReceiptInv /\ [Next]_vars => [Ledger!LedgerNext]_(Ledger!ledger)
<1> SUFFICES ASSUME ReceiptInv, [Next]_vars
             PROVE  [Ledger!LedgerNext]_(Ledger!ledger)
  OBVIOUS
<1>1. CASE \E d \in Drivers : Execute(d)
  BY <1>1, ExecuteInvokes
<1>2. CASE dest' = dest
  <2>1. /\ Invoked' = Invoked /\ Applied' = Applied
        /\ \A o \in OpId : LifeMoves(o)
    BY <1>2, EffectsStay, LifeStep
  <2>2. Life = [o \in OpId |-> Life[o]] /\ Life' = [o \in OpId |-> Life'[o]]
    BY DEF Life
  <2>3. ASSUME Life' = Life PROVE [Ledger!LedgerNext]_(Ledger!ledger)
    BY <2>1, <2>3 DEF Ledger!ledger, Life, Invoked, Applied
  <2>4. ASSUME \E d \in Drivers : AdvanceCommit(d)
        PROVE  [Ledger!LedgerNext]_(Ledger!ledger)
    <3> DEFINE S == {o \in OpId : Life'[o] # Life[o]}
    <3>1. \A o \in S : Life[o] = "free" /\ Life'[o] = "requested"
      <4> SUFFICES ASSUME NEW o \in S PROVE Life[o] = "free" /\ Life'[o] = "requested"
        OBVIOUS
      <4>0. o \in OpId /\ AttemptInv /\ Results /\ Writes \subseteq OpId
        BY ReceiptFacts DEF Writes
      <4>1. PICK d \in Drivers : AdvanceCommit(d)
        BY <2>4
      <4>2. o \in NewOps(Move)
        <5>1. CASE o \notin NewOps(Move)
          <6>1. ops'[o] = ops[o]
            BY <4>0, <4>1, <5>1 DEF AdvanceCommit
          <6>2. o \in Writes' <=> o \in Writes
            BY <6>1 DEF Writes
          <6>3. LifeOf(o)' = LifeOf(o)
            BY <6>1, <6>2 DEF LifeOf
          <6> QED
            BY <4>0, <6>3 DEF Life
        <5> QED
          BY <5>1
      <4>3. ops'[o].status = "Pending"
        BY <4>0, <4>1, <4>2, NewOperation
      <4>4. Life'[o] \in {"free", "requested"}
        BY <4>0, <4>3 DEF Life, LifeOf, Dispatchable
      <4> QED
        BY <2>1, <4>0, <4>4 DEF LifeMoves
    <3>2. Life' = [o \in OpId |-> IF o \in S THEN "requested" ELSE Life[o]]
      BY <2>2, <3>1
    <3>3. Ledger!Request(S)
      BY <2>1, <3>1, <3>2 DEF Ledger!Request, Ledger!Become, Life, Invoked, Applied
    <3> QED
      BY <3>3 DEF Ledger!LedgerNext, Life
  <2>5. ASSUME NEW d \in Drivers, FinishCancellation(d)
        PROVE  [Ledger!LedgerNext]_(Ledger!ledger)
    <3> DEFINE S == {o \in OpId : Life'[o] # Life[o]}
    <3>1. \A o \in S : Life[o] = "requested" /\ Life'[o] = "void"
      <4> SUFFICES ASSUME NEW o \in S PROVE Life[o] = "requested" /\ Life'[o] = "void"
        OBVIOUS
      <4>0. o \in OpId /\ ops \in [OpId -> Operation] /\ ops[o] \in Operation
        BY ReceiptFacts DEF TypeOK
      <4>1. \/ ops'[o] = ops[o]
            \/ /\ ops[o].status \in Dispatchable /\ ops'[o].status = "Cancelled"
               /\ ops'[o].tool = ops[o].tool
        BY <2>5, <4>0 DEF FinishCancellation, PendingIn, Operation
      <4>2. o \in Writes' <=> o \in Writes
        BY <4>1 DEF Writes
      <4>3. LifeOf(o)' # LifeOf(o)
        BY <4>0 DEF Life
      <4>4. ops'[o] # ops[o] /\ o \in Writes
        BY <4>2, <4>3 DEF LifeOf
      <4>5. LifeOf(o) = "requested" /\ LifeOf(o)' = "void"
        BY <4>1, <4>2, <4>4 DEF LifeOf, Dispatchable
      <4> QED
        BY <4>0, <4>5 DEF Life
    <3>2. Life' = [o \in OpId |-> IF o \in S THEN "void" ELSE Life[o]]
      BY <2>2, <3>1
    <3>3. Ledger!Void(S)
      BY <2>1, <3>1, <3>2 DEF Ledger!Void, Ledger!Become, Life, Invoked, Applied
    <3> QED
      BY <3>3 DEF Ledger!LedgerNext, Life
  <2>6. ASSUME NEW o \in OpId, \A p \in OpId \ {o} : ops'[p] = ops[p], Life' # Life,
               ~\E d \in Drivers : AdvanceCommit(d)
        PROVE  Ledger!LedgerNext
    <3>1. \A p \in OpId \ {o} : Life'[p] = Life[p]
      <4> SUFFICES ASSUME NEW p \in OpId \ {o} PROVE LifeOf(p)' = LifeOf(p)
        BY DEF Life
      <4>1. p \in Writes' <=> p \in Writes
        BY <2>6 DEF Writes
      <4> QED
        BY <2>6, <4>1 DEF LifeOf
    <3>2. Life'[o] # Life[o]
      BY <2>2, <2>6, <3>1
    <3>3. Life' = [e \in OpId |-> IF e \in {o} THEN Life'[o] ELSE Life[e]]
      BY <2>2, <3>1
    <3>4. ASSUME NEW from, NEW to, Life[o] \in from, Life'[o] = to
          PROVE  Ledger!Become({o}, from, to)
      BY <3>3, <3>4 DEF Ledger!Become, Life
    <3>5. UNCHANGED <<Invoked, Applied>>
      BY <2>1
    <3>6. CASE Life[o] = "requested" /\ Life'[o] = "admitted"
      <4>1. Ledger!Become({o}, {"requested"}, "admitted")
        BY <3>4, <3>6
      <4>2. Ledger!Admit(o)
        BY <3>5, <4>1 DEF Ledger!Admit, Invoked, Applied
      <4> QED
        BY <4>2 DEF Ledger!LedgerNext
    <3>7. CASE Life[o] = "requested" /\ Life'[o] = "void"
      <4> DEFINE S == {e \in OpId : Life'[e] # Life[e]}
      <4>1. S = {o}
        BY <3>1, <3>2
      <4>2. Ledger!Become({o}, {"requested"}, "void")
        BY <3>4, <3>7
      <4>3. Ledger!Void(S)
        BY <3>5, <4>1, <4>2 DEF Ledger!Void, Invoked, Applied
      <4> QED
        BY <4>3 DEF Ledger!LedgerNext, Life
    <3>8. CASE /\ Life[o] = "requested" /\ Life'[o] = "refused" /\ o \notin Applied
      <4>1. Ledger!Become({o}, {"requested"}, "refused")
        BY <3>4, <3>8
      <4>2. Ledger!Refuse(o)
        BY <3>5, <3>8, <4>1 DEF Ledger!Refuse, Invoked, Applied
      <4> QED
        BY <4>2 DEF Ledger!LedgerNext
    <3>9. CASE Life[o] = "admitted" /\ Life'[o] = "uncertain"
      <4>1. Ledger!Become({o}, {"admitted"}, "uncertain")
        BY <3>4, <3>9
      <4>2. Ledger!Lose(o)
        BY <3>5, <4>1 DEF Ledger!Lose, Invoked, Applied
      <4> QED
        BY <4>2 DEF Ledger!LedgerNext
    <3>10. CASE /\ Life[o] \in {"admitted", "uncertain"} /\ Life'[o] = "confirmed"
                /\ o \in Applied
      <4>1. Ledger!Become({o}, {"admitted", "uncertain"}, "confirmed")
        BY <3>4, <3>10
      <4>2. Ledger!Confirm(o)
        BY <3>5, <3>10, <4>1 DEF Ledger!Confirm, Invoked, Applied
      <4> QED
        BY <4>2 DEF Ledger!LedgerNext
    <3>11. CASE /\ Life[o] = "admitted" /\ Life'[o] = "refused"
                /\ o \in Invoked /\ o \notin Applied
      <4>1. Ledger!Become({o}, {"admitted"}, "refused")
        BY <3>4, <3>11
      <4>2. Ledger!Refuse(o)
        BY <3>5, <3>11, <4>1 DEF Ledger!Refuse, Invoked, Applied
      <4> QED
        BY <4>2 DEF Ledger!LedgerNext
    <3> QED
      BY <2>1, <2>6, <3>2, <3>6, <3>7, <3>8, <3>9, <3>10, <3>11 DEF LifeMoves
  <2>7. ops' = ops => Life' = Life
    BY DEF Life, LifeOf, Writes
  <2> QED
    BY <2>3, <2>4, <2>5, <2>6, <2>7, Scope
<1> QED
  BY <1>1, <1>2, DestinationStep

\* Every step of a run is a step of the ledger of its writes, or changes nothing
\* of it: the intent comes before the effect, the effect is invoked once, and
\* no outcome is stored that the destination would deny.
THEOREM ImplementsLedger == Spec => WritesFollowLedger
BY LedgerInitially, LedgerStep, ReceiptInvariant, PTL
   DEF Spec, WritesFollowLedger, Ledger!LedgerSpec
=============================================================================
