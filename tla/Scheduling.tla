----------------------------- MODULE Scheduling -----------------------------
(***************************************************************************)
(* Durable scheduling intent (hudson-core/src/scheduling.rs), the pump of  *)
(* each Temporal worker that publishes it (hudson-temporal/scheduling.rs), *)
(* and the workflow that then executes the run (client.rs, lib.rs).        *)
(*                                                                         *)
(* The intent is committed with the run; a pump reads the pending intents, *)
(* starts the workflow with the stable identity of the run, and records    *)
(* Temporal's acceptance.  Any number of pumps work at once, a reply of    *)
(* Temporal can be lost, and a pump can die anywhere in between.  All the  *)
(* runs here have one scheduling target; of last_attempt only the order it *)
(* puts the requests in is kept.                                           *)
(***************************************************************************)
EXTENDS Naturals, Sequences, FiniteSets

CONSTANTS
    Runs,          \* submissions; a retried request_key is the same run
    Invalid,       \* those whose pinned goal or budget this host refuses
    Workers,
    BatchLimit,    \* requests that one scan takes
    MaxCrashes,    \* bound of the model: deaths of workers
    MaxFailures    \* bound of the model: lost calls to Temporal

ASSUME InvalidAssumption == Invalid \subseteq Runs
ASSUME SchedulingBoundsAssumption ==
    BatchLimit \in Nat \ {0} /\ MaxCrashes \in Nat /\ MaxFailures \in Nat

VARIABLES
    run,        \* the stored runs
    untried,    \* pending requests with last_attempt = 0, by created_at
    tried,      \* the other pending requests, by last_attempt
    acked,      \* the acknowledged requests
    workflow,   \* Temporal: the workflow of each run
    starts,     \* Temporal: how often a workflow of the run was started
    pump,       \* the local state of each worker's pump
    crashes,
    failures

store == <<run, untried, tried, acked>>
temporal == <<workflow, starts>>
bounds == <<crashes, failures>>
vars == <<store, temporal, pump, bounds>>

Pump == [pc : {"sleep", "attempt", "start", "ack"}, batch : Seq(Runs)]
Asleep == [pc |-> "sleep", batch |-> <<>>]

Elements(s) == {s[i] : i \in DOMAIN s}

\* A request is in a list once at most.
Without(s, r) ==
    IF r \notin Elements(s) THEN s
    ELSE LET i == CHOOSE i \in DOMAIN s : s[i] = r
         IN SubSeq(s, 1, i - 1) \o SubSeq(s, i + 1, Len(s))

Pending == Elements(untried) \cup Elements(tried)

Init ==
    /\ run = [r \in Runs |-> "absent"]
    /\ untried = <<>>
    /\ tried = <<>>
    /\ acked = {}
    /\ workflow = [r \in Runs |-> "none"]
    /\ starts = [r \in Runs |-> 0]
    /\ pump = [w \in Workers |-> Asleep]
    /\ crashes = 0
    /\ failures = 0

(***************************************************************************)
(* Admission and control.                                                  *)
(***************************************************************************)
\* Runtime::submit_scheduled: the run and its request in one transaction.
Submit(r) ==
    /\ run[r] = "absent"
    /\ run' = [run EXCEPT ![r] = "live"]
    /\ untried' = Append(untried, r)
    /\ UNCHANGED <<tried, acked, temporal, pump, bounds>>

Cancel(r) ==
    /\ run[r] = "live"
    /\ run' = [run EXCEPT ![r] = "ended"]
    /\ UNCHANGED <<untried, tried, acked, temporal, pump, bounds>>

(***************************************************************************)
(* Temporal.                                                               *)
(***************************************************************************)
\* Mutant: a closed workflow may be started again (no RejectDuplicate).
StartAnyClosed(r) ==
    IF workflow[r] # "open"
    THEN /\ workflow' = [workflow EXCEPT ![r] = "open"]
         /\ starts' = [starts EXCEPT ![r] = @ + 1]
    ELSE UNCHANGED temporal

\* ExecutionClient::start: an open workflow is attached to (UseExisting) and a
\* closed one is left closed (RejectDuplicate); both count as accepted.
StartWorkflow(r) ==
    IF workflow[r] = "none"
    THEN /\ workflow' = [workflow EXCEPT ![r] = "open"]
         /\ starts' = [starts EXCEPT ![r] = @ + 1]
    ELSE UNCHANGED temporal

\* The foreground command starts what it submitted, or resumes, by itself, and
\* leaves the acknowledgement to the pump.
StartDirectly(r) ==
    /\ run[r] # "absent"
    /\ r \notin Invalid
    /\ StartWorkflow(r)
    /\ UNCHANGED <<store, pump, bounds>>

\* RunWorkflow: its ticks bring the run to its end, then it returns.
Execute(r) ==
    /\ workflow[r] = "open"
    /\ run[r] = "live"
    /\ run' = [run EXCEPT ![r] = "ended"]
    /\ UNCHANGED <<untried, tried, acked, temporal, pump, bounds>>

Close(r) ==
    /\ workflow[r] = "open"
    /\ run[r] = "ended"
    /\ workflow' = [workflow EXCEPT ![r] = "closed"]
    /\ UNCHANGED <<store, starts, pump, bounds>>

(***************************************************************************)
(* SchedulingPump::publish_pending.                                        *)
(***************************************************************************)
\* Store::pending_schedules: terminal runs are passed over, and the first ones by
\* last_attempt and created_at are taken, in this order.
Listed == {r \in Pending : run[r] = "live"}
Earlier(x, y) ==
    LET queue == untried \o tried
    IN \E i, j \in DOMAIN queue : i < j /\ queue[i] = x /\ queue[j] = y

BatchSize ==
    IF Cardinality(Listed) < BatchLimit THEN Cardinality(Listed) ELSE BatchLimit

Batches ==
    {batch \in [1..BatchSize -> Listed] :
        /\ \A i, j \in 1..BatchSize : i < j => Earlier(batch[i], batch[j])
        /\ \A i \in 1..BatchSize : \A r \in Listed \ Elements(batch) : Earlier(batch[i], r)}

Scan(w) ==
    /\ pump[w].pc = "sleep"
    /\ Listed # {}
    /\ \E batch \in Batches : pump' = [pump EXCEPT ![w] = [pc |-> "attempt", batch |-> batch]]
    /\ UNCHANGED <<store, temporal, bounds>>

\* An error defers a request and never the rest of the batch.
NextRequest(w) ==
    LET rest == Tail(pump[w].batch) IN
    pump' = [pump EXCEPT ![w] =
               [pc |-> IF rest = <<>> THEN "sleep" ELSE "attempt", batch |-> rest]]

Goto(w, pc) == pump' = [pump EXCEPT ![w].pc = pc]

\* Mutants: an attempt does not move a request behind the untouched ones; it
\* puts it there whatever the lists hold.
KeepPlace(r) == UNCHANGED <<untried, tried>>
MoveAnyway(r) ==
    /\ untried' = Without(untried, r)
    /\ tried' = Append(tried, r)

\* Store::record_schedule_attempt.
RecordAttempt(r) ==
    /\ untried' = Without(untried, r)
    /\ tried' = IF r \in Pending THEN Append(Without(tried, r), r) ELSE tried

\* The attempt is recorded before the request is validated.
Attempt(w) ==
    LET r == Head(pump[w].batch) IN
    /\ pump[w].pc = "attempt"
    /\ RecordAttempt(r)
    /\ IF r \in Invalid THEN NextRequest(w) ELSE Goto(w, "start")
    /\ UNCHANGED <<run, acked, temporal, bounds>>

Start(w) ==
    /\ pump[w].pc = "start"
    /\ StartWorkflow(Head(pump[w].batch))
    /\ Goto(w, "ack")
    /\ UNCHANGED <<store, bounds>>

\* Mutant: a request whose call failed is acknowledged like the others.
StartAssumed(w) ==
    /\ pump[w].pc = "start"
    /\ failures < MaxFailures
    /\ failures' = failures + 1
    /\ UNCHANGED temporal
    /\ Goto(w, "ack")
    /\ UNCHANGED <<store, crashes>>

\* The call is lost on its way, or its reply is.
StartFails(w) ==
    /\ pump[w].pc = "start"
    /\ failures < MaxFailures
    /\ failures' = failures + 1
    /\ StartWorkflow(Head(pump[w].batch)) \/ UNCHANGED temporal
    /\ NextRequest(w)
    /\ UNCHANGED <<store, crashes>>

\* Store::acknowledge_schedule.
Acknowledge(w) ==
    LET r == Head(pump[w].batch) IN
    /\ pump[w].pc = "ack"
    /\ acked' = acked \cup {r}
    /\ untried' = Without(untried, r)
    /\ tried' = Without(tried, r)
    /\ NextRequest(w)
    /\ UNCHANGED <<run, temporal, bounds>>

Crash(w) ==
    /\ pump[w] # Asleep
    /\ crashes < MaxCrashes
    /\ crashes' = crashes + 1
    /\ pump' = [pump EXCEPT ![w] = Asleep]
    /\ UNCHANGED <<store, temporal, failures>>

Publish(w) == Scan(w) \/ Attempt(w) \/ Start(w) \/ Acknowledge(w)

Next ==
    \/ \E r \in Runs : Submit(r) \/ Cancel(r) \/ StartDirectly(r) \/ Execute(r) \/ Close(r)
    \/ \E w \in Workers : Publish(w) \/ StartFails(w) \/ Crash(w)

Spec == Init /\ [][Next]_vars

\* Each worker scans every five seconds, for as long as it lives.
FairSpec == Spec /\ \A w \in Workers : WF_vars(Publish(w))

(***************************************************************************)
(* Properties.                                                             *)
(***************************************************************************)
\* The stored requests, Temporal's state and the pumps keep their types, and
\* the two lists hold no request twice.
TypeOK ==
    /\ run \in [Runs -> {"absent", "live", "ended"}]
    /\ untried \in Seq(Runs)
    /\ tried \in Seq(Runs)
    /\ Cardinality(Pending) = Len(untried) + Len(tried)
    /\ acked \subseteq Runs
    /\ workflow \in [Runs -> {"none", "open", "closed"}]
    /\ starts \in [Runs -> Nat]
    /\ pump \in [Workers -> Pump]
    /\ crashes \in 0..MaxCrashes
    /\ failures \in 0..MaxFailures

\* "retrying publication must not replay execution": whatever pumps race, die,
\* lose a reply or come late, one workflow of a run is ever started.
ExecutedOnce == \A r \in Runs : starts[r] <= 1

\* "Remote schedulers acknowledge only after accepting the stable run
\* identity": an acknowledged request was accepted.
AckedWasAccepted == \A r \in Runs : r \in acked => starts[r] > 0

\* A request that was submitted is either pending or acknowledged, never both
\* and never neither, although pumps attempt it after its acknowledgement.
NeverForgotten ==
    \A r \in Runs : run[r] # "absent" => (r \in Pending <=> r \notin acked)

\* "Failed requests remain pending without preventing other requests from
\* starting": every valid request is acknowledged or its run ends, although
\* invalid requests fill the batch and calls fail.
EventuallyPublished ==
    \A r \in Runs \ Invalid : run[r] = "live" ~> r \in acked \/ run[r] = "ended"
=============================================================================
