-------------------------- MODULE SchedulingProofs --------------------------
(***************************************************************************)
(* What is proved of Scheduling, for every set of runs and workers, every  *)
(* batch limit, and any number of crashes and lost calls.                  *)
(*                                                                         *)
(* Temporal's identities are what makes it work: a run has at most one     *)
(* workflow, and the number of its starts can be read off the workflow.    *)
(* What a pump holds needs no more than this: after the start of a         *)
(* workflow the pump is at "ack", and its request has a workflow.          *)
(*                                                                         *)
(* That no accepted run is forgotten rests on the lists of the intents: a  *)
(* run is queued once, and a pump drops or marks only what it found there. *)
(* The second half proves it, after lemmas on sequences without repetition.*)
(***************************************************************************)
EXTENDS Scheduling, FiniteSetTheorems, SequenceTheorems, TLAPS

\* A workflow, once started, is never started again.
OneStart ==
    /\ workflow \in [Runs -> {"none", "open", "closed"}]
    /\ starts \in [Runs -> Nat]
    /\ \A r \in Runs : starts[r] = IF workflow[r] = "none" THEN 0 ELSE 1

\* The pumps are records, and nothing else is needed of their batches.
PumpRecords ==
    /\ pump = [w \in Workers |-> pump[w]]
    /\ \A w \in Workers :
          pump[w] = [pc |-> pump[w].pc, batch |-> pump[w].batch]

Accepted(r) == r \in Runs => workflow[r] # "none"

\* Before an acknowledgement there was an acceptance.
AcceptedFirst ==
    /\ \A w \in Workers : pump[w].pc = "ack" => Accepted(Head(pump[w].batch))
    /\ \A r \in acked : Accepted(r)

SchedulingInv == OneStart /\ PumpRecords /\ AcceptedFirst

\* Starting a workflow, or attaching to it, leaves the run accepted, keeps
\* those that are accepted so, and counts its starts.
LEMMA StartAccepts ==
    ASSUME NEW r, OneStart, StartWorkflow(r)
    PROVE  /\ OneStart'
           /\ r \in Runs => workflow'[r] # "none"
           /\ \A x \in Runs : workflow[x] # "none" => workflow'[x] # "none"
<1>1. CASE workflow[r] = "none"
  <2>1. /\ workflow' = [workflow EXCEPT ![r] = "open"]
        /\ starts' = [starts EXCEPT ![r] = @ + 1]
    BY <1>1 DEF StartWorkflow
  <2>2. workflow' \in [Runs -> {"none", "open", "closed"}]
    BY <2>1 DEF OneStart
  <2>3. starts' \in [Runs -> Nat]
    <3>1. r \in Runs => starts[r] + 1 \in Nat
      BY DEF OneStart
    <3> QED
      BY <2>1, <3>1 DEF OneStart
  <2>4. \A x \in Runs : x # r => workflow'[x] = workflow[x] /\ starts'[x] = starts[x]
    BY <2>1 DEF OneStart
  <2>5. r \in Runs => workflow'[r] = "open" /\ starts'[r] = 1
    BY <1>1, <2>1 DEF OneStart
  <2> QED
    BY <2>2, <2>3, <2>4, <2>5 DEF OneStart
<1>2. CASE workflow[r] # "none"
  BY <1>2 DEF StartWorkflow, OneStart, temporal
<1> QED
  BY <1>1, <1>2

\* NextRequest and Goto touch one pump, which stays a record.
LEMMA NextKeepsPumps ==
    ASSUME NEW w \in Workers, PumpRecords, NextRequest(w)
    PROVE  /\ PumpRecords'
           /\ pump'[w].pc # "ack"
           /\ \A v \in Workers : v # w => pump'[v] = pump[v]
<1> DEFINE rest == Tail(pump[w].batch)
           next == [pc |-> IF rest = <<>> THEN "sleep" ELSE "attempt", batch |-> rest]
<1>1. pump' = [pump EXCEPT ![w] = next]
  BY DEF NextRequest
<1>2. pump'[w] = next /\ \A v \in Workers : v # w => pump'[v] = pump[v]
  BY <1>1 DEF PumpRecords
<1>3. next = [pc |-> next.pc, batch |-> next.batch] /\ next.pc # "ack"
  OBVIOUS
<1>4. pump' = [v \in Workers |-> pump'[v]]
  BY <1>1 DEF PumpRecords
<1> HIDE DEF next
<1> QED
  BY <1>2, <1>3, <1>4 DEF PumpRecords

LEMMA GotoKeepsPumps ==
    ASSUME NEW w \in Workers, NEW pc, PumpRecords, Goto(w, pc)
    PROVE  /\ PumpRecords'
           /\ pump'[w].pc = pc
           /\ pump'[w].batch = pump[w].batch
           /\ \A v \in Workers : v # w => pump'[v] = pump[v]
<1>1. pump' = [pump EXCEPT ![w] = [pump[w] EXCEPT !.pc = pc]]
  BY DEF Goto
<1>2. pump[w] = [pc |-> pump[w].pc, batch |-> pump[w].batch]
  BY DEF PumpRecords
<1>3. [pump[w] EXCEPT !.pc = pc] = [pc |-> pc, batch |-> pump[w].batch]
  BY <1>2
<1>4. pump' = [pump EXCEPT ![w] = [pc |-> pc, batch |-> pump[w].batch]]
  BY <1>1, <1>3
<1>5. /\ pump'[w] = [pc |-> pc, batch |-> pump[w].batch]
      /\ \A v \in Workers : v # w => pump'[v] = pump[v]
  BY <1>4 DEF PumpRecords
<1>6. pump' = [v \in Workers |-> pump'[v]]
  BY <1>4 DEF PumpRecords
<1> QED
  BY <1>5, <1>6 DEF PumpRecords

LEMMA SchedulingInit == Init => SchedulingInv
  BY DEF Init, SchedulingInv, OneStart, PumpRecords, AcceptedFirst, Accepted, Asleep

\* The invariant is kept by every step: those that leave the pumps and the
\* acknowledgements alone, and the steps of a pump one by one.
LEMMA SchedulingStep == SchedulingInv /\ [Next]_vars => SchedulingInv'
<1> SUFFICES ASSUME SchedulingInv, [Next]_vars PROVE SchedulingInv'
  OBVIOUS
<1> USE DEF SchedulingInv
<1>1. CASE UNCHANGED vars
  BY <1>1 DEF vars, store, temporal, bounds, OneStart, PumpRecords, AcceptedFirst, Accepted
<1>2. ASSUME NEW r \in Runs, Submit(r) \/ Cancel(r) \/ Execute(r)
      PROVE  SchedulingInv'
  BY <1>2 DEF Submit, Cancel, Execute, temporal, bounds,
              OneStart, PumpRecords, AcceptedFirst, Accepted
<1>3. ASSUME NEW r \in Runs, StartDirectly(r) PROVE SchedulingInv'
  <2>1. StartWorkflow(r) /\ UNCHANGED <<pump, acked>>
    BY <1>3 DEF StartDirectly, store
  <2>2. /\ OneStart'
        /\ \A x \in Runs : workflow[x] # "none" => workflow'[x] # "none"
    BY <2>1, StartAccepts
  <2> QED
    BY <2>1, <2>2 DEF PumpRecords, AcceptedFirst, Accepted
<1>4. ASSUME NEW r \in Runs, Close(r) PROVE SchedulingInv'
  <2>1. OneStart' /\ \A x \in Runs : workflow[x] # "none" => workflow'[x] # "none"
    BY <1>4 DEF Close, OneStart
  <2> QED
    BY <1>4, <2>1 DEF Close, store, PumpRecords, AcceptedFirst, Accepted
<1>5. ASSUME NEW w \in Workers, Scan(w) PROVE SchedulingInv'
  <2>1. PICK batch : pump' = [pump EXCEPT ![w] = [pc |-> "attempt", batch |-> batch]]
    BY <1>5 DEF Scan
  <2>2. UNCHANGED <<workflow, starts, acked>>
    BY <1>5 DEF Scan, store, temporal
  <2>3. /\ pump'[w] = [pc |-> "attempt", batch |-> batch]
        /\ pump' = [v \in Workers |-> pump'[v]]
        /\ \A v \in Workers : v # w => pump'[v] = pump[v]
    BY <2>1 DEF PumpRecords
  <2> QED
    BY <2>2, <2>3 DEF OneStart, PumpRecords, AcceptedFirst, Accepted
<1>6. ASSUME NEW w \in Workers, Attempt(w) PROVE SchedulingInv'
  <2>1. UNCHANGED <<workflow, starts, acked>>
    BY <1>6 DEF Attempt, temporal
  <2>2. NextRequest(w) \/ Goto(w, "start")
    BY <1>6 DEF Attempt
  <2>3. /\ PumpRecords'
        /\ pump'[w].pc # "ack"
        /\ \A v \in Workers : v # w => pump'[v] = pump[v]
    BY <2>2, NextKeepsPumps, GotoKeepsPumps
  <2> QED
    BY <2>1, <2>3 DEF OneStart, AcceptedFirst, Accepted
<1>7. ASSUME NEW w \in Workers, Start(w) PROVE SchedulingInv'
  <2>1. PICK r : r = Head(pump[w].batch)
    OBVIOUS
  <2>2. StartWorkflow(r) /\ Goto(w, "ack") /\ UNCHANGED acked
    BY <1>7, <2>1 DEF Start, store
  <2>3. /\ OneStart'
        /\ r \in Runs => workflow'[r] # "none"
        /\ \A x \in Runs : workflow[x] # "none" => workflow'[x] # "none"
    BY <2>2, StartAccepts
  <2>4. /\ PumpRecords'
        /\ Head(pump'[w].batch) = r
        /\ \A v \in Workers : v # w => pump'[v] = pump[v]
    BY <2>1, <2>2, GotoKeepsPumps
  <2> QED
    BY <2>2, <2>3, <2>4 DEF AcceptedFirst, Accepted
<1>8. ASSUME NEW w \in Workers, StartFails(w) PROVE SchedulingInv'
  <2>1. PICK r : r = Head(pump[w].batch)
    OBVIOUS
  <2>2. /\ StartWorkflow(r) \/ UNCHANGED temporal
        /\ NextRequest(w)
        /\ UNCHANGED acked
    BY <1>8, <2>1 DEF StartFails, store
  <2>3. /\ OneStart'
        /\ \A x \in Runs : workflow[x] # "none" => workflow'[x] # "none"
    <3>1. CASE StartWorkflow(r)
      BY <3>1, StartAccepts
    <3>2. CASE UNCHANGED temporal
      BY <3>2 DEF temporal, OneStart
    <3> QED
      BY <2>2, <3>1, <3>2
  <2>4. /\ PumpRecords'
        /\ pump'[w].pc # "ack"
        /\ \A v \in Workers : v # w => pump'[v] = pump[v]
    BY <2>2, NextKeepsPumps
  <2> QED
    BY <2>2, <2>3, <2>4 DEF AcceptedFirst, Accepted
<1>9. ASSUME NEW w \in Workers, Acknowledge(w) PROVE SchedulingInv'
  <2>1. /\ pump[w].pc = "ack"
        /\ acked' = acked \cup {Head(pump[w].batch)}
        /\ NextRequest(w)
        /\ UNCHANGED <<workflow, starts>>
    BY <1>9 DEF Acknowledge, temporal
  <2>2. /\ PumpRecords'
        /\ pump'[w].pc # "ack"
        /\ \A v \in Workers : v # w => pump'[v] = pump[v]
    BY <2>1, NextKeepsPumps
  <2> QED
    BY <2>1, <2>2 DEF OneStart, AcceptedFirst, Accepted
<1>10. ASSUME NEW w \in Workers, Crash(w) PROVE SchedulingInv'
  <2>1. pump' = [pump EXCEPT ![w] = Asleep] /\ UNCHANGED <<workflow, starts, acked>>
    BY <1>10 DEF Crash, store, temporal
  <2>2. /\ pump'[w] = Asleep
        /\ pump' = [v \in Workers |-> pump'[v]]
        /\ \A v \in Workers : v # w => pump'[v] = pump[v]
    BY <2>1 DEF PumpRecords
  <2> QED
    BY <2>1, <2>2 DEF OneStart, PumpRecords, AcceptedFirst, Accepted, Asleep
<1> QED
  BY <1>1, <1>2, <1>3, <1>4, <1>5, <1>6, <1>7, <1>8, <1>9, <1>10 DEF Next, Publish

THEOREM SchedulingInvariant == Spec => []SchedulingInv
  BY SchedulingInit, SchedulingStep, PTL DEF Spec

\* "retrying publication must not replay execution": however many pumps race,
\* crash or lose replies, at most one workflow of a run is ever started.
THEOREM PublishedOnce == Spec => []ExecutedOnce
<1>1. SchedulingInv => ExecutedOnce
  BY DEF SchedulingInv, OneStart, ExecutedOnce
<1> QED
  BY <1>1, SchedulingInvariant, PTL

\* A request leaves the list of the pending ones only after Temporal accepted
\* the run.
THEOREM AcknowledgedAfterAcceptance == Spec => []AckedWasAccepted
<1>1. SchedulingInv => AckedWasAccepted
  BY DEF SchedulingInv, OneStart, AcceptedFirst, Accepted, AckedWasAccepted
<1> QED
  BY <1>1, SchedulingInvariant, PTL

(***************************************************************************)
(* The requests.  A list holds a request once, so that taking it out is    *)
(* what the store does, and the pending ones can be counted.               *)
(***************************************************************************)
Distinct(s) == \A i, j \in DOMAIN s : s[i] = s[j] => i = j

\* Taking a request out of a list leaves the others, once each.
LEMMA WithoutOne ==
    ASSUME NEW s \in Seq(Runs), Distinct(s), NEW r
    PROVE  /\ Without(s, r) \in Seq(Runs)
           /\ Distinct(Without(s, r))
           /\ Elements(Without(s, r)) = Elements(s) \ {r}
<1>1. CASE r \notin Elements(s)
  BY <1>1 DEF Without
<1>2. CASE r \in Elements(s)
  <2> DEFINE i == CHOOSE i \in DOMAIN s : s[i] = r
             n == Len(s)
             front == SubSeq(s, 1, i - 1)
             back == SubSeq(s, i + 1, n)
             rest == front \o back
  <2>1. i \in 1..n /\ s[i] = r /\ n \in Nat
    BY <1>2 DEF Elements
  <2>2. Without(s, r) = rest
    BY <1>2 DEF Without
  <2> HIDE DEF i
  <2>3. /\ front \in Seq(Runs) /\ Len(front) = i - 1
        /\ \A k \in 1..(i - 1) : front[k] = s[k]
    BY <2>1
  <2>4. /\ back \in Seq(Runs) /\ Len(back) = n - i
        /\ \A k \in 1..(n - i) : back[k] = s[k + i]
    BY <2>1
  <2> HIDE DEF front, back
  <2>5. /\ rest \in Seq(Runs) /\ Len(rest) = n - 1
        /\ \A k \in 1..(n - 1) : rest[k] = IF k < i THEN s[k] ELSE s[k + 1]
    <3>1. rest \in Seq(Runs) /\ Len(rest) = n - 1
      <4>1. rest \in Seq(Runs) /\ Len(rest) = Len(front) + Len(back)
        BY <2>3, <2>4, ConcatProperties
      <4>2. (i - 1) + (n - i) = n - 1
        BY <2>1
      <4> QED
        BY <2>3, <2>4, <4>1, <4>2
    <3>2. ASSUME NEW k \in 1..(n - 1)
          PROVE  rest[k] = IF k < i THEN s[k] ELSE s[k + 1]
      <4>1. CASE k < i
        BY <2>1, <2>3, <2>4, <4>1
      <4>2. CASE ~(k < i)
        <5>1. k \in (Len(front) + 1)..(Len(front) + Len(back))
          BY <2>1, <2>3, <2>4, <4>2
        <5>3. rest[k] = back[k - Len(front)]
          BY <2>3, <2>4, <5>1, ConcatProperties
        <5>4. rest[k] = back[k - (i - 1)]
          BY <2>3, <5>3
        <5>2. back[k - (i - 1)] = s[(k - (i - 1)) + i] /\ (k - (i - 1)) + i = k + 1
          BY <2>1, <2>4, <4>2
        <5> QED
          BY <4>2, <5>2, <5>4
      <4> QED
        BY <4>1, <4>2
    <3> QED
      BY <3>1, <3>2
  <2> HIDE DEF rest
  <2>6. ASSUME NEW k \in 1..(n - 1), NEW l \in 1..(n - 1), rest[k] = rest[l]
        PROVE  k = l
    <3>1. \A a, b \in 1..n : s[a] = s[b] => a = b
      BY <2>1 DEF Distinct
    <3>2. PICK a \in 1..n : rest[k] = s[a] /\ a # i /\ k = IF a < i THEN a ELSE a - 1
      <4>1. CASE k < i
        <5>1. k \in 1..n /\ k # i
          BY <2>1, <4>1
        <5> QED
          BY <2>5, <4>1, <5>1
      <4>2. CASE ~(k < i)
        <5>1. k + 1 \in 1..n /\ k + 1 # i /\ ~(k + 1 < i) /\ k = (k + 1) - 1
          BY <2>1, <4>2
        <5> QED
          BY <2>5, <4>2, <5>1
      <4> QED
        BY <4>1, <4>2
    <3>3. PICK b \in 1..n : rest[l] = s[b] /\ b # i /\ l = IF b < i THEN b ELSE b - 1
      <4>1. CASE l < i
        <5>1. l \in 1..n /\ l # i
          BY <2>1, <4>1
        <5> QED
          BY <2>5, <4>1, <5>1
      <4>2. CASE ~(l < i)
        <5>1. l + 1 \in 1..n /\ l + 1 # i /\ ~(l + 1 < i) /\ l = (l + 1) - 1
          BY <2>1, <4>2
        <5> QED
          BY <2>5, <4>2, <5>1
      <4> QED
        BY <4>1, <4>2
    <3>4. a = b
      BY <2>6, <3>1, <3>2, <3>3
    <3> QED
      BY <3>2, <3>3, <3>4
  <2>7. ASSUME NEW k \in 1..(n - 1) PROVE rest[k] \in Elements(s) \ {r}
    <3>1. \E a \in 1..n : rest[k] = s[a] /\ a # i
      <4>1. CASE k < i
        <5>1. k \in 1..n /\ k # i
          BY <2>1, <4>1
        <5> QED
          BY <2>5, <4>1, <5>1
      <4>2. CASE ~(k < i)
        <5>1. k + 1 \in 1..n /\ k + 1 # i
          BY <2>1, <4>2
        <5> QED
          BY <2>5, <4>2, <5>1
      <4> QED
        BY <4>1, <4>2
    <3>2. PICK a \in 1..n : rest[k] = s[a] /\ a # i
      BY <3>1
    <3>3. \A b \in 1..n : s[a] = s[b] => a = b
      BY <2>1 DEF Distinct
    <3>4. s[a] # r
      BY <2>1, <3>2, <3>3
    <3>5. s[a] \in Elements(s)
      BY <2>1 DEF Elements
    <3> QED
      BY <3>2, <3>4, <3>5
  <2>8. ASSUME NEW x \in Elements(s) \ {r}
        PROVE  \E k \in 1..(n - 1) : rest[k] = x
    <3>1. PICK j \in 1..n : s[j] = x
      BY <2>1 DEF Elements
    <3>2. CASE j < i
      BY <2>1, <2>5, <3>1, <3>2
    <3>3. CASE j > i
      <4>1. j - 1 \in 1..(n - 1) /\ ~(j - 1 < i) /\ (j - 1) + 1 = j
        BY <2>1, <3>3
      <4> QED
        BY <2>5, <3>1, <4>1
    <3>4. j # i
      BY <2>1, <3>1
    <3> QED
      BY <2>1, <3>2, <3>3, <3>4
  <2>9. DOMAIN rest = 1..(n - 1)
    BY <2>5
  <2>10. Distinct(rest)
    BY <2>6, <2>9 DEF Distinct
  <2>11. Elements(rest) = Elements(s) \ {r}
    BY <2>7, <2>8, <2>9 DEF Elements
  <2> QED
    BY <2>2, <2>5, <2>10, <2>11
<1> QED
  BY <1>1, <1>2

\* A new request goes to the end of a list.
LEMMA WithOneMore ==
    ASSUME NEW s \in Seq(Runs), Distinct(s), NEW r \in Runs, r \notin Elements(s)
    PROVE  /\ Append(s, r) \in Seq(Runs)
           /\ Distinct(Append(s, r))
           /\ Elements(Append(s, r)) = Elements(s) \cup {r}
<1> DEFINE more == Append(s, r)
<1>1. /\ more \in Seq(Runs) /\ Len(s) \in Nat /\ DOMAIN s = 1..Len(s)
      /\ DOMAIN more = 1..(Len(s) + 1)
      /\ \A i \in 1..Len(s) : more[i] = s[i]
      /\ more[Len(s) + 1] = r
  OBVIOUS
<1> HIDE DEF more
<1>2. \A i \in DOMAIN more : i \in DOMAIN s \/ i = Len(s) + 1
  BY <1>1
<1>3. \A i \in DOMAIN s : s[i] # r
  BY DEF Elements
<1>4. Distinct(more)
  <2> SUFFICES ASSUME NEW i \in DOMAIN more, NEW j \in DOMAIN more, more[i] = more[j]
               PROVE  i = j
    BY DEF Distinct
  <2>1. CASE i \in DOMAIN s /\ j \in DOMAIN s
    BY <1>1, <2>1 DEF Distinct
  <2>2. CASE i \notin DOMAIN s \/ j \notin DOMAIN s
    BY <1>1, <1>2, <1>3, <2>2
  <2> QED
    BY <2>1, <2>2
<1>5. Elements(more) = Elements(s) \cup {r}
  BY <1>1, <1>2 DEF Elements
<1> QED
  BY <1>1, <1>4, <1>5 DEF more

\* The elements of a list are as many as it is long.
LEMMA CountDistinct ==
    ASSUME NEW s \in Seq(Runs), Distinct(s)
    PROVE  IsFiniteSet(Elements(s)) /\ Cardinality(Elements(s)) = Len(s)
<1>1. Len(s) \in Nat /\ DOMAIN s = 1..Len(s)
  OBVIOUS
<1>2. IsFiniteSet(1..Len(s)) /\ Cardinality(1..Len(s)) = Len(s)
  <2>1. \A a, b \in Int : /\ IsFiniteSet(a..b)
                          /\ Cardinality(a..b) = IF a > b THEN 0 ELSE b - a + 1
    BY FS_Interval
  <2>2. IsFiniteSet(1..Len(s))
        /\ Cardinality(1..Len(s)) = IF 1 > Len(s) THEN 0 ELSE Len(s) - 1 + 1
    BY <1>1, <2>1
  <2> QED
    BY <1>1, <2>2
<1>3. s \in Bijection(1..Len(s), Elements(s))
  BY <1>1 DEF Bijection, Injection, Surjection, IsInjective, Elements, Distinct
<1>4. ExistsBijection(1..Len(s), Elements(s))
  BY <1>3 DEF ExistsBijection
<1> QED
  BY <1>2, <1>4, FS_Bijection

(***************************************************************************)
(* What the store and the pumps know of the requests.  A pump works from a *)
(* batch that it read some time ago, so that all it knows is that the runs *)
(* in it were submitted: another pump may have acknowledged them since.    *)
(***************************************************************************)
Lists ==
    /\ untried \in Seq(Runs) /\ Distinct(untried)
    /\ tried \in Seq(Runs) /\ Distinct(tried)
    /\ Elements(untried) \cap Elements(tried) = {}

Intents ==
    /\ run \in [Runs -> {"absent", "live", "ended"}]
    /\ acked \subseteq Runs
    /\ \A r \in Runs : IF run[r] = "absent" THEN r \notin Pending /\ r \notin acked
                       ELSE r \in Pending <=> r \notin acked

Batched(p) ==
    /\ p \in Pump
    /\ p.pc # "sleep" => p.batch # <<>>
    /\ \A i \in DOMAIN p.batch : run[p.batch[i]] # "absent"

Pumps ==
    /\ pump \in [Workers -> Pump]
    /\ \A w \in Workers : Batched(pump[w])

Bounded == crashes \in 0..MaxCrashes /\ failures \in 0..MaxFailures

RequestInv == Lists /\ Intents /\ Pumps /\ Bounded

\* The request a pump is at was submitted.
LEMMA AtHead ==
    ASSUME NEW w \in Workers, Intents, Pumps, pump[w].pc # "sleep"
    PROVE  /\ Head(pump[w].batch) \in Runs
           /\ run[Head(pump[w].batch)] # "absent"
<1>1. pump[w].batch \in Seq(Runs) /\ pump[w].batch # <<>>
  BY DEF Pumps, Batched, Pump
<1>2. 1 \in DOMAIN pump[w].batch /\ Head(pump[w].batch) = pump[w].batch[1]
  BY <1>1
<1> QED
  BY <1>1, <1>2 DEF Pumps, Batched

\* NextRequest drops the first request of a batch and keeps the others.
LEMMA NextBatch ==
    ASSUME NEW w \in Workers, Pumps, pump[w].pc # "sleep", NextRequest(w), run' = run
    PROVE  Pumps'
<1> DEFINE batch == pump[w].batch
           rest == Tail(batch)
           next == [pc |-> IF rest = <<>> THEN "sleep" ELSE "attempt", batch |-> rest]
<1>1. batch \in Seq(Runs) /\ batch # <<>> /\ \A i \in DOMAIN batch : run[batch[i]] # "absent"
  BY DEF Pumps, Batched, Pump
<1> HIDE DEF batch
<1>2. /\ rest \in Seq(Runs)
      /\ \A i \in DOMAIN rest : i + 1 \in DOMAIN batch /\ rest[i] = batch[i + 1]
  BY <1>1
<1> HIDE DEF rest
<1>3. next \in Pump /\ (next.pc # "sleep" => next.batch # <<>>)
  BY <1>2 DEF Pump
<1>4. \A i \in DOMAIN next.batch : run'[next.batch[i]] # "absent"
  BY <1>1, <1>2
<1>5. pump' = [pump EXCEPT ![w] = next]
  BY DEF NextRequest, next, rest, batch
<1> HIDE DEF next
<1>6. pump' \in [Workers -> Pump]
  BY <1>3, <1>5 DEF Pumps
<1>7. \A v \in Workers : pump'[v] = IF v = w THEN next ELSE pump[v]
  BY <1>5 DEF Pumps
<1> QED
  BY <1>3, <1>4, <1>6, <1>7 DEF Pumps, Batched

LEMMA GotoBatch ==
    ASSUME NEW w \in Workers, NEW pc \in {"start", "ack"}, Pumps, pump[w].pc # "sleep",
           Goto(w, pc), run' = run
    PROVE  Pumps'
<1>1. pump[w] \in Pump
  BY DEF Pumps
<1>2. pump' = [pump EXCEPT ![w] = [pump[w] EXCEPT !.pc = pc]]
  BY DEF Goto
<1> DEFINE next == [pump[w] EXCEPT !.pc = pc]
<1>3. next \in Pump /\ next.batch = pump[w].batch
  BY <1>1 DEF Pump
<1> HIDE DEF next
<1>4. pump' \in [Workers -> Pump]
  BY <1>2, <1>3 DEF Pumps, next
<1>5. \A v \in Workers : pump'[v] = IF v = w THEN next ELSE pump[v]
  BY <1>2 DEF Pumps, next
<1> QED
  BY <1>3, <1>4, <1>5 DEF Pumps, Batched

\* A scan takes at least one request, and all of them are of live runs.
LEMMA ScannedBatch ==
    ASSUME Lists, Intents, Listed # {}, NEW batch \in Batches
    PROVE  /\ batch \in Seq(Runs) /\ batch # <<>>
           /\ \A i \in DOMAIN batch : run[batch[i]] = "live"
<1>1. IsFiniteSet(Listed)
  <2>1. IsFiniteSet(Pending)
    BY CountDistinct, FS_Union DEF Lists, Pending
  <2> QED
    BY <2>1, FS_Subset DEF Listed
<1>2. Cardinality(Listed) \in Nat /\ Cardinality(Listed) # 0
  BY <1>1, FS_CardinalityType, FS_EmptySet
<1>3. BatchSize \in Nat /\ BatchSize # 0
  BY <1>2, SchedulingBoundsAssumption DEF BatchSize
<1>4. batch \in [1..BatchSize -> Listed]
  BY DEF Batches
<1>5. \A r \in Listed : r \in Runs /\ run[r] = "live"
  BY DEF Listed, Pending, Elements, Lists
<1> HIDE DEF Batches
<1>6. batch \in Seq(Listed) /\ DOMAIN batch = 1..BatchSize /\ Len(batch) = BatchSize
  BY <1>3, <1>4
<1>7. batch # <<>>
  BY <1>3, <1>6
<1>8. batch \in [1..BatchSize -> Runs]
  BY <1>4, <1>5
<1> QED
  BY <1>3, <1>4, <1>5, <1>7, <1>8

LEMMA RequestInit == Init => RequestInv
<1> SUFFICES ASSUME Init PROVE RequestInv
  OBVIOUS
<1> USE DEF Init
<1>1. <<>> \in Seq(Runs) /\ DOMAIN <<>> = {}
  OBVIOUS
<1>2. Lists
  BY <1>1 DEF Lists, Distinct, Elements
<1>3. Intents
  BY <1>1 DEF Intents, Pending, Elements
<1>4. Asleep \in Pump /\ Asleep.pc = "sleep" /\ Asleep.batch = <<>>
  BY <1>1 DEF Asleep, Pump
<1>5. Pumps
  BY <1>1, <1>4 DEF Pumps, Batched
<1>6. Bounded
  BY SchedulingBoundsAssumption DEF Bounded
<1> QED
  BY <1>2, <1>3, <1>5, <1>6 DEF RequestInv

\* An attempt moves a request and never adds or drops one, not even when the
\* request was acknowledged in the meantime.
LEMMA AttemptKeepsLists ==
    ASSUME Lists, NEW r \in Runs, RecordAttempt(r)
    PROVE  Lists' /\ Pending' = Pending
<1>1. untried' = Without(untried, r)
  BY DEF RecordAttempt
<1>2. /\ untried' \in Seq(Runs) /\ Distinct(untried')
      /\ Elements(untried') = Elements(untried) \ {r}
  BY <1>1, WithoutOne DEF Lists
<1>3. CASE r \in Pending
  <2> DEFINE others == Without(tried, r)
  <2>1. others \in Seq(Runs) /\ Distinct(others) /\ Elements(others) = Elements(tried) \ {r}
    BY WithoutOne DEF Lists
  <2>2. tried' = Append(others, r)
    BY <1>3 DEF RecordAttempt
  <2> HIDE DEF others
  <2>3. /\ tried' \in Seq(Runs) /\ Distinct(tried')
        /\ Elements(tried') = Elements(others) \cup {r}
    BY <2>1, <2>2, WithOneMore
  <2>4. Elements(untried') \cap Elements(tried') = {}
    BY <1>2, <2>1, <2>3 DEF Lists
  <2>5. Elements(untried') \cup Elements(tried') = Elements(untried) \cup Elements(tried)
    BY <1>2, <1>3, <2>1, <2>3 DEF Pending
  <2> QED
    BY <1>2, <2>3, <2>4, <2>5 DEF Lists, Pending
<1>4. CASE r \notin Pending
  <2>1. tried' = tried
    BY <1>4 DEF RecordAttempt
  <2>2. untried' = untried
    BY <1>1, <1>4 DEF Pending, Without
  <2> QED
    BY <2>1, <2>2 DEF Lists, Pending
<1> QED
  BY <1>3, <1>4

\* Only Submit and Acknowledge change which requests are pending, and both
\* change the other side of NeverForgotten with it.
LEMMA RequestStep == RequestInv /\ [Next]_vars => RequestInv'
<1> SUFFICES ASSUME RequestInv, [Next]_vars PROVE RequestInv'
  OBVIOUS
<1> USE DEF RequestInv
<1>1. CASE UNCHANGED vars
  BY <1>1 DEF vars, store, bounds, Lists, Intents, Pumps, Bounded, Batched, Pending
<1>2. ASSUME NEW r \in Runs, Submit(r) PROVE RequestInv'
  <2>1. /\ run[r] = "absent"
        /\ run' = [run EXCEPT ![r] = "live"]
        /\ untried' = Append(untried, r)
        /\ UNCHANGED <<tried, acked, pump, crashes, failures>>
    BY <1>2 DEF Submit, bounds
  <2>2. r \notin Pending /\ r \notin acked
    BY <2>1 DEF Intents
  <2>3. /\ untried' \in Seq(Runs) /\ Distinct(untried')
        /\ Elements(untried') = Elements(untried) \cup {r}
    BY <2>1, <2>2, WithOneMore DEF Lists, Pending
  <2>4. Lists' /\ Pending' = Pending \cup {r}
    BY <2>1, <2>2, <2>3 DEF Lists, Pending
  <2>5. \A x \in Runs : run'[x] = IF x = r THEN "live" ELSE run[x]
    BY <2>1 DEF Intents
  <2>6. run' \in [Runs -> {"absent", "live", "ended"}]
    BY <2>1 DEF Intents
  <2>7. Intents'
    BY <2>1, <2>2, <2>4, <2>5, <2>6 DEF Intents
  <2>8. Pumps'
    <3>1. \A w \in Workers : \A i \in DOMAIN pump[w].batch : pump[w].batch[i] \in Runs
      BY DEF Pumps, Pump
    <3> QED
      BY <2>1, <2>5, <3>1 DEF Pumps, Batched
  <2> QED
    BY <2>1, <2>4, <2>7, <2>8 DEF Bounded
<1>3. ASSUME NEW r \in Runs, Cancel(r) \/ Execute(r) PROVE RequestInv'
  <2>1. /\ run[r] = "live"
        /\ run' = [run EXCEPT ![r] = "ended"]
        /\ UNCHANGED <<untried, tried, acked, pump, crashes, failures>>
    BY <1>3 DEF Cancel, Execute, bounds
  <2>2. \A x \in Runs : run'[x] = IF x = r THEN "ended" ELSE run[x]
    BY <2>1 DEF Intents
  <2>3. run' \in [Runs -> {"absent", "live", "ended"}]
    BY <2>1 DEF Intents
  <2>4. Lists' /\ Pending' = Pending
    BY <2>1 DEF Lists, Pending
  <2>5. Intents'
    BY <2>1, <2>2, <2>3, <2>4 DEF Intents
  <2>6. Pumps'
    <3>1. \A w \in Workers : \A i \in DOMAIN pump[w].batch : pump[w].batch[i] \in Runs
      BY DEF Pumps, Pump
    <3> QED
      BY <2>1, <2>2, <3>1 DEF Pumps, Batched
  <2> QED
    BY <2>1, <2>4, <2>5, <2>6 DEF Bounded
<1>4. ASSUME NEW r \in Runs, StartDirectly(r) \/ Close(r) PROVE RequestInv'
  BY <1>4 DEF StartDirectly, Close, store, bounds, Lists, Intents, Pumps, Bounded,
              Batched, Pending
<1>5. ASSUME NEW w \in Workers, Scan(w) PROVE RequestInv'
  <2>1. Listed # {} /\ UNCHANGED <<run, untried, tried, acked, crashes, failures>>
    BY <1>5 DEF Scan, store, bounds
  <2>2. PICK batch \in Batches : pump' = [pump EXCEPT ![w] = [pc |-> "attempt", batch |-> batch]]
    BY <1>5 DEF Scan
  <2> DEFINE next == [pc |-> "attempt", batch |-> batch]
  <2>3. /\ batch \in Seq(Runs) /\ batch # <<>>
        /\ \A i \in DOMAIN batch : run[batch[i]] = "live"
    BY <2>1, ScannedBatch
  <2>4. /\ next \in Pump /\ next.batch # <<>>
        /\ \A i \in DOMAIN next.batch : run'[next.batch[i]] # "absent"
    BY <2>1, <2>3 DEF Pump
  <2> HIDE DEF next
  <2>5. pump' \in [Workers -> Pump]
    BY <2>2, <2>4 DEF Pumps, next
  <2>6. \A v \in Workers : pump'[v] = IF v = w THEN next ELSE pump[v]
    BY <2>2 DEF Pumps, next
  <2>7. Pumps'
    BY <2>1, <2>4, <2>5, <2>6 DEF Pumps, Batched
  <2> QED
    BY <2>1, <2>7 DEF Lists, Intents, Pending, Bounded
<1>6. ASSUME NEW w \in Workers, Attempt(w) PROVE RequestInv'
  <2>1. PICK r : r = Head(pump[w].batch)
    OBVIOUS
  <2>2. /\ pump[w].pc = "attempt"
        /\ RecordAttempt(r)
        /\ NextRequest(w) \/ Goto(w, "start")
        /\ UNCHANGED <<run, acked, crashes, failures>>
    BY <1>6, <2>1 DEF Attempt, bounds
  <2>3. r \in Runs
    BY <2>1, <2>2, AtHead
  <2>4. Lists' /\ Pending' = Pending
    BY <2>2, <2>3, AttemptKeepsLists
  <2>5. Pumps'
    BY <2>2, NextBatch, GotoBatch
  <2> QED
    BY <2>2, <2>4, <2>5 DEF Intents, Bounded
<1>7. ASSUME NEW w \in Workers, Start(w) PROVE RequestInv'
  <2>1. pump[w].pc = "start" /\ Goto(w, "ack") /\ UNCHANGED <<store, bounds>>
    BY <1>7 DEF Start
  <2>2. Pumps'
    BY <2>1, GotoBatch DEF store
  <2> QED
    BY <2>1, <2>2 DEF store, bounds, Lists, Intents, Pending, Bounded
<1>8. ASSUME NEW w \in Workers, StartFails(w) PROVE RequestInv'
  <2>1. /\ pump[w].pc = "start" /\ NextRequest(w)
        /\ failures < MaxFailures /\ failures' = failures + 1
        /\ UNCHANGED <<store, crashes>>
    BY <1>8 DEF StartFails
  <2>2. Pumps'
    BY <2>1, NextBatch DEF store
  <2>3. Bounded'
    BY <2>1, SchedulingBoundsAssumption DEF Bounded
  <2> QED
    BY <2>1, <2>2, <2>3 DEF store, Lists, Intents, Pending
<1>9. ASSUME NEW w \in Workers, Acknowledge(w) PROVE RequestInv'
  <2>1. PICK r : r = Head(pump[w].batch)
    OBVIOUS
  <2>2. /\ pump[w].pc = "ack"
        /\ acked' = acked \cup {r}
        /\ untried' = Without(untried, r)
        /\ tried' = Without(tried, r)
        /\ NextRequest(w)
        /\ UNCHANGED <<run, crashes, failures>>
    BY <1>9, <2>1 DEF Acknowledge, bounds
  <2>3. r \in Runs /\ run[r] # "absent"
    BY <2>1, <2>2, AtHead
  <2>4. /\ untried' \in Seq(Runs) /\ Distinct(untried')
        /\ Elements(untried') = Elements(untried) \ {r}
    BY <2>2, WithoutOne DEF Lists
  <2>5. /\ tried' \in Seq(Runs) /\ Distinct(tried')
        /\ Elements(tried') = Elements(tried) \ {r}
    BY <2>2, WithoutOne DEF Lists
  <2>6. Lists' /\ Pending' = Pending \ {r}
    BY <2>4, <2>5 DEF Lists, Pending
  <2>7. Intents'
    BY <2>2, <2>3, <2>6 DEF Intents
  <2>8. Pumps'
    BY <2>2, NextBatch
  <2> QED
    BY <2>2, <2>6, <2>7, <2>8 DEF Bounded
<1>10. ASSUME NEW w \in Workers, Crash(w) PROVE RequestInv'
  <2>1. /\ crashes < MaxCrashes /\ crashes' = crashes + 1
        /\ pump' = [pump EXCEPT ![w] = Asleep]
        /\ UNCHANGED <<store, failures>>
    BY <1>10 DEF Crash
  <2>2. Asleep \in Pump /\ Asleep.pc = "sleep" /\ DOMAIN Asleep.batch = {}
    BY DEF Asleep, Pump
  <2>3. pump' \in [Workers -> Pump]
    BY <2>1, <2>2 DEF Pumps
  <2>4. \A v \in Workers : pump'[v] = IF v = w THEN Asleep ELSE pump[v]
    BY <2>1 DEF Pumps
  <2>5. Pumps'
    BY <2>1, <2>2, <2>3, <2>4 DEF Pumps, Batched, store
  <2>6. Bounded'
    BY <2>1, SchedulingBoundsAssumption DEF Bounded
  <2> QED
    BY <2>1, <2>5, <2>6 DEF store, Lists, Intents, Pending
<1> QED
  BY <1>1, <1>2, <1>3, <1>4, <1>5, <1>6, <1>7, <1>8, <1>9, <1>10 DEF Next, Publish

LEMMA RequestInvariant == Spec => []RequestInv
  BY RequestInit, RequestStep, PTL DEF Spec

\* The lists of the store, Temporal's state and the pumps keep their types,
\* and no request is in the lists twice, in whatever order the pumps of many
\* workers attempt and acknowledge it.
THEOREM SchedulingTyping == Spec => []TypeOK
<1>1. RequestInv /\ OneStart => TypeOK
  <2> SUFFICES ASSUME RequestInv, OneStart PROVE TypeOK
    OBVIOUS
  <2>1. Lists
    BY DEF RequestInv
  <2>2. /\ IsFiniteSet(Elements(untried)) /\ Cardinality(Elements(untried)) = Len(untried)
        /\ IsFiniteSet(Elements(tried)) /\ Cardinality(Elements(tried)) = Len(tried)
    BY <2>1, CountDistinct DEF Lists
  <2>3. Cardinality(Elements(untried) \cap Elements(tried)) = 0
    BY <2>1, FS_EmptySet DEF Lists
  <2>4. Len(untried) \in Nat /\ Len(tried) \in Nat
    BY <2>1 DEF Lists
  <2>5. Cardinality(Elements(untried) \cup Elements(tried)) =
            Cardinality(Elements(untried)) + Cardinality(Elements(tried))
          - Cardinality(Elements(untried) \cap Elements(tried))
    BY <2>2, FS_Union
  <2>6. Cardinality(Pending) = Len(untried) + Len(tried)
    BY <2>2, <2>3, <2>4, <2>5 DEF Pending
  <2> QED
    BY <2>1, <2>6 DEF RequestInv, Lists, Intents, Pumps, Bounded, OneStart, TypeOK
<1>2. SchedulingInv => OneStart
  BY DEF SchedulingInv
<1> QED
  BY <1>1, <1>2, SchedulingInvariant, RequestInvariant, PTL

\* A submitted request is pending until it is acknowledged, and never after:
\* no race of pumps loses it, and no late attempt brings it back.
THEOREM NoRequestIsForgotten == Spec => []NeverForgotten
<1>1. RequestInv => NeverForgotten
  BY DEF RequestInv, Intents, NeverForgotten
<1> QED
  BY <1>1, RequestInvariant, PTL
=============================================================================
