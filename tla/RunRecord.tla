------------------------------ MODULE RunRecord ------------------------------
(***************************************************************************)
(* What a run leaves on record and what is read back from it: the memory   *)
(* its agent recalls and retains (memory.rs), the conversation that is     *)
(* archived to fit the context budget (context.rs, runtime.rs), and the    *)
(* events a client follows (storage/memory.rs, hudson-cli/follow.rs).      *)
(*                                                                         *)
(* A tick is several store transactions and reads: it prepares the memory  *)
(* of the run, reads the run, prepares the next transition outside the     *)
(* store, and commits it if the run is still as it was read.  Several      *)
(* drivers tick the same run and stop anywhere; meanwhile the actor        *)
(* retains, corrects and deletes memories.  RunExecution has the           *)
(* operations of a run: here a model call and the tools it asks for are    *)
(* one answer, and a verification is part of completing.                   *)
(***************************************************************************)
EXTENDS Conversation, FiniteSets

CONSTANTS
    Runs,
    Followed,       \* the run a client follows
    Longest,        \* bound of the model: exchanges of each run
    Sizes,          \* sizes of the results of an exchange
    Drivers,
    Keys,           \* operations that retain a memory
    RecallLimit,    \* recall_limit of the memory of the agents
    Share,          \* memory records the prompt has room for
    MaxRecords,     \* bound of the model: memory records
    PageSize,       \* events of a page
    MaxRetries,     \* max_retries of the follower
    MaxRestarts     \* bound of the model: times the client is started again

ASSUME RunRecordAssumption ==
    /\ IsFiniteSet(Runs)
    /\ Followed \in Runs
    /\ Longest \in [Runs -> Nat]
    /\ Sizes \subseteq Nat \ {0}
    /\ PageSize \in Nat \ {0}
    /\ {RecallLimit, Share, MaxRecords, MaxRetries, MaxRestarts} \subseteq Nat

VARIABLES
    memories,   \* records, in the order they were made
    snapshots,  \* memory_snapshots: run -> set of records
    run,        \* runs of the store
    artifacts,  \* context_artifacts: run -> set of artifacts
    events,     \* event types of each run
    driver,     \* what each driver does
    restarts,   \* times the client was started again
    stale,      \* records that were gone when each run was submitted
    asked,      \* evidence in the model requests of each run
    client,     \* the process that follows
    screen      \* the events it has printed

recordVars == <<memories, snapshots, run, artifacts, events>>
historyVars == <<stale, asked>>
clientVars == <<client, screen, restarts>>
vars == <<recordVars, driver, historyVars, clientVars>>

NoPlan == [kind |-> "none"]
Free == [pc |-> "idle", run |-> "none", recalled |-> {}, revision |-> 0, plan |-> NoPlan]
Starting(after) ==
    [pc |-> "status", after |-> after, page |-> <<>>, status |-> "none", attempt |-> 0]
Done == {"completed", "failed", "cancelled"}

Init ==
    /\ memories = <<>>
    /\ snapshots = [r \in {} |-> {}]
    /\ run = [r \in Runs |->
                [status |-> "absent", revision |-> 0, next |-> "start", told |-> <<>>,
                 history |-> <<>>, archive |-> NoArchive]]
    /\ artifacts = [r \in Runs |-> {}]
    /\ events = [r \in Runs |-> <<>>]
    /\ driver = [d \in Drivers |-> Free]
    /\ stale = [r \in Runs |-> {}]
    /\ asked = [r \in Runs |-> {}]
    /\ client = [Starting(0) EXCEPT !.pc = "off"]
    /\ screen = <<>>
    /\ restarts = 0

(***************************************************************************)
(* Memory.                                                                 *)
(***************************************************************************)
Records == DOMAIN memories
Live(i) == ~memories[i].deleted /\ memories[i].supersededBy = 0
\* Mutant: an erased record frees its key.
UsedByLive(key) == \E i \in Records : Live(i) /\ memories[i].key = key

Used(key) == \E i \in Records : memories[i].key = key
Record(key, old) == [key |-> key, supersedes |-> old, supersededBy |-> 0, deleted |-> FALSE]

\* retain_memory, called by a memory tool under the key of its operation.  A key
\* that was used answers with its record, or conflicts when the record was
\* erased since, and changes nothing.
Retain(key, old) ==
    /\ ~Used(key)
    /\ Len(memories) < MaxRecords
    /\ \/ /\ old = 0
          /\ memories' = Append(memories, Record(key, 0))
       \/ /\ old \in Records
          /\ Live(old)
          /\ memories' = Append([memories EXCEPT ![old].supersededBy = Len(memories) + 1],
                                Record(key, old))
    /\ UNCHANGED <<snapshots, run, artifacts, events, driver, historyVars, clientVars>>

\* delete_memory erases a record, whether it was superseded or not.
Delete(i) ==
    /\ i \in Records
    /\ ~memories[i].deleted
    /\ memories' = [memories EXCEPT ![i].deleted = TRUE]
    /\ UNCHANGED <<snapshots, run, artifacts, events, driver, historyVars, clientVars>>

\* The tools that register_tools makes of one scope, called by some run of its
\* actor; recall_memory changes nothing.
MemoryTool ==
    \/ \E key \in Keys : \E old \in {0} \cup Records : Retain(key, old)
    \/ \E i \in Records : Delete(i)

\* recall_memory: which of the live records are relevant is left open.
Recalls == {found \in SUBSET {i \in Records : Live(i)} : Cardinality(found) <= RecallLimit}

\* The strongest whole records that fit a quarter of the prompt.
Kept(found) ==
    {kept \in SUBSET found : Cardinality(kept) = (IF Cardinality(found) <= Share
                                                  THEN Cardinality(found) ELSE Share)}

\* retain_completed: the output of a completed run, once.
Remembering(r) ==
    IF Used(r) THEN memories ELSE Append(memories, Record(r, 0))

(***************************************************************************)
(* Runs.                                                                   *)
(***************************************************************************)
Terminal(r) == run[r].status \in Done
Started(r) == run[r].status # "absent"
Log(r, type) == events' = [events EXCEPT ![r] = Append(@, type)]

Submit(r) ==
    /\ ~Started(r)
    /\ run' = [run EXCEPT ![r].status = "running"]
    /\ Log(r, "run_created")
    /\ stale' = [stale EXCEPT ![r] = {i \in Records : ~Live(i)}]
    /\ UNCHANGED <<memories, snapshots, artifacts, driver, asked, clientVars>>

\* The model answers with its final output, or with a batch of tool calls whose
\* results follow.
ModelAnswers(r) ==
    /\ run[r].status = "running"
    /\ run[r].next = "calling"
    /\ \/ run' = [run EXCEPT ![r].next = "final"]
       \/ /\ Len(run[r].told) < Longest[r]
          /\ \E size \in Sizes :
                run' = [run EXCEPT ![r].next = "results",
                                   ![r].told = Append(@, [n |-> Len(@) + 1, size |-> size])]
    /\ UNCHANGED <<memories, snapshots, artifacts, events, driver, historyVars, clientVars>>

Cancel(r) ==
    /\ Started(r)
    /\ ~Terminal(r)
    /\ run' = [run EXCEPT ![r].status = "cancelled", ![r].revision = @ + 1]
    /\ Log(r, "run_finished")
    /\ UNCHANGED <<memories, snapshots, artifacts, driver, historyVars, clientVars>>

(***************************************************************************)
(* A tick.                                                                 *)
(***************************************************************************)
Doing(d, pc) == driver[d].pc = pc
Mine(d) == driver[d].run

\* prepare_run_memory up to its transaction: there is no snapshot yet, and a
\* run that has made no step recalls.
StartTick(d, r) ==
    /\ Doing(d, "idle")
    /\ Started(r)
    /\ ~Terminal(r)
    /\ run[r].next # "calling"
    /\ \/ /\ r \in DOMAIN snapshots
          /\ driver' = [driver EXCEPT ![d] = [Free EXCEPT !.pc = "ready", !.run = r]]
       \/ /\ r \notin DOMAIN snapshots
          /\ \E found \in (IF run[r].next = "start" THEN Recalls ELSE {{}}) :
                driver' = [driver EXCEPT ![d] = [Free EXCEPT !.pc = "recalled", !.run = r,
                                                             !.recalled = found]]
    /\ UNCHANGED <<recordVars, historyVars, clientVars>>

\* Mutant: the last snapshot stays.
TakeSnapshotAgain(d) ==
    LET r == Mine(d)
    IN /\ Doing(d, "recalled")
       /\ \E kept \in Kept(driver[d].recalled) :
             snapshots' = [x \in DOMAIN snapshots \cup {r} |->
                              IF x = r THEN kept ELSE snapshots[x]]
       /\ driver' = [driver EXCEPT ![d].pc = "ready", ![d].recalled = {}]
       /\ UNCHANGED <<memories, run, artifacts, events, historyVars, clientVars>>

\* Its transaction: the first snapshot stays.
TakeSnapshot(d) ==
    LET r == Mine(d)
    IN /\ Doing(d, "recalled")
       /\ \/ r \in DOMAIN snapshots /\ UNCHANGED snapshots
          \/ /\ r \notin DOMAIN snapshots
             /\ \E kept \in Kept(driver[d].recalled) :
                   snapshots' = [x \in DOMAIN snapshots \cup {r} |->
                                    IF x = r THEN kept ELSE snapshots[x]]
       /\ driver' = [driver EXCEPT ![d].pc = "ready", ![d].recalled = {}]
       /\ UNCHANGED <<memories, run, artifacts, events, historyVars, clientVars>>

\* The new exchange, when the next input holds results.
News(r) ==
    IF run[r].next = "results" THEN <<run[r].told[Len(run[r].told)]>> ELSE <<>>

\* context::advance on the run as it was read.
Plan(r) ==
    LET new == [i \in DOMAIN News(r) |-> Offloaded(News(r)[i])]
        evidence == Cardinality(snapshots[r])
        counts == Enough(evidence, run[r].archive, run[r].history, new)
        shortened == Shortened(run[r].archive, run[r].history, new, Fewest(counts))
    IN IF run[r].next = "final" THEN [kind |-> "complete"]
       ELSE IF counts = {} THEN [kind |-> "fail"]
       ELSE [kind |-> "ask",
             evidence |-> snapshots[r],
             history |-> shortened.history,
             archive |-> shortened.archive,
             artifacts |-> (UNION {Outputs(x) : x \in ToSet(News(r))})
                           \cup Between(run[r].archive, run[r].history, Fewest(counts))]

\* The tick reads the run, its evidence and its policy, and prepares.
Prepare(d) ==
    LET r == Mine(d)
    IN /\ Doing(d, "ready")
       /\ IF Terminal(r) \/ run[r].next = "calling"
          THEN driver' = [driver EXCEPT ![d] = Free]
          ELSE driver' = [driver EXCEPT ![d].pc = "prepared",
                                        ![d].revision = run[r].revision,
                                        ![d].plan = Plan(r)]
       /\ UNCHANGED <<recordVars, historyVars, clientVars>>

\* Mutant: any run that has not ended may be committed to.
NotEnded(d) == ~Terminal(Mine(d))

\* The run is as it was read.
Current(d) == run[Mine(d)].revision = driver[d].revision

\* A model request: the artifacts and the transition are stored together.
CommitRequest(d) ==
    LET r == Mine(d)
        plan == driver[d].plan
    IN /\ plan.kind = "ask"
       /\ run' = [run EXCEPT ![r].history = plan.history, ![r].archive = plan.archive,
                             ![r].next = "calling", ![r].revision = @ + 1]
       /\ artifacts' = [artifacts EXCEPT ![r] = @ \cup plan.artifacts]
       /\ asked' = [asked EXCEPT ![r] = @ \cup {plan.evidence}]
       /\ Log(r, "operation_requested")
       /\ UNCHANGED memories

\* Completion: the output and what is retained of it are stored together.
CommitOutput(d) ==
    LET r == Mine(d)
    IN /\ driver[d].plan.kind = "complete"
       /\ run' = [run EXCEPT ![r].status = "completed", ![r].revision = @ + 1]
       /\ memories' = Remembering(r)
       /\ Log(r, "run_finished")
       /\ UNCHANGED <<artifacts, asked>>

\* The conversation cannot be made to fit.
CommitFailure(d) ==
    LET r == Mine(d)
    IN /\ driver[d].plan.kind = "fail"
       /\ run' = [run EXCEPT ![r].status = "failed", ![r].revision = @ + 1]
       /\ Log(r, "run_finished")
       /\ UNCHANGED <<memories, artifacts, asked>>

\* A stale transition is refused, and publishes nothing.
Commit(d) ==
    /\ Doing(d, "prepared")
    /\ \/ Current(d) /\ (CommitRequest(d) \/ CommitOutput(d) \/ CommitFailure(d))
       \/ ~Current(d) /\ UNCHANGED <<memories, run, artifacts, events, asked>>
    /\ driver' = [driver EXCEPT ![d] = Free]
    /\ UNCHANGED <<snapshots, stale, clientVars>>

\* The process of a driver dies.
DriverDies(d) ==
    /\ ~Doing(d, "idle")
    /\ driver' = [driver EXCEPT ![d] = Free]
    /\ UNCHANGED <<recordVars, historyVars, clientVars>>

(***************************************************************************)
(* Following a run.  The status is read before the events, so that a       *)
(* terminal status comes with the last of them.                            *)
(***************************************************************************)
At(pc) == client.pc = pc
LastPrinted == IF screen = <<>> THEN 0 ELSE Last(screen)

\* The client is started, or started again after it was killed or gave up, with
\* the cursor of the last record it printed.
Follow ==
    /\ Started(Followed)
    /\ \/ At("off") /\ UNCHANGED restarts
       \/ At("stopped") /\ restarts < MaxRestarts /\ restarts' = restarts + 1
    /\ client' = Starting(LastPrinted)
    /\ UNCHANGED <<recordVars, driver, historyVars, screen>>

ReadStatus ==
    /\ At("status")
    /\ client' = [client EXCEPT !.pc = "drain", !.status = run[Followed].status, !.attempt = 0]
    /\ UNCHANGED <<recordVars, driver, historyVars, screen, restarts>>

\* Mutant: a page one event too long.
LongPage(after) ==
    LET last == IF Len(events[Followed]) <= after + PageSize
                THEN Len(events[Followed]) ELSE after + PageSize + 1
    IN [i \in 1..(last - after) |-> after + i]

\* event_page: the events after the cursor, at most a page of them.
EventPage(after) ==
    LET last == IF Len(events[Followed]) < after + PageSize
                THEN Len(events[Followed]) ELSE after + PageSize
    IN [i \in 1..(last - after) |-> after + i]

ReadPage ==
    /\ At("drain")
    /\ client.page = <<>>
    /\ client' = [client EXCEPT !.page = EventPage(client.after), !.attempt = 0,
                                !.pc = IF EventPage(client.after) = <<>> THEN "report" ELSE "drain"]
    /\ UNCHANGED <<recordVars, driver, historyVars, screen, restarts>>

\* One event is printed, and the cursor moves.
PrintEvent ==
    /\ At("drain")
    /\ client.page # <<>>
    /\ screen' = Append(screen, Head(client.page))
    /\ client' = [client EXCEPT !.after = Head(client.page), !.page = Tail(@)]
    /\ UNCHANGED <<recordVars, driver, historyVars, restarts>>

\* Mutant: the client ends by the status after the events, not the one before.
ReportLate ==
    /\ At("report")
    /\ client' = [client EXCEPT !.pc = IF Terminal(Followed) THEN "done" ELSE "status"]
    /\ UNCHANGED <<recordVars, driver, historyVars, screen, restarts>>

\* The status is printed; a terminal one ends the client.
Report ==
    /\ At("report")
    /\ client' = [client EXCEPT
                    !.pc = IF client.status \in Done THEN "done" ELSE "status"]
    /\ UNCHANGED <<recordVars, driver, historyVars, screen, restarts>>

\* A request fails in a way that is tried again, until the client gives up.
FetchFails ==
    /\ At("status") \/ (At("drain") /\ client.page = <<>>)
    /\ IF client.attempt < MaxRetries
       THEN client' = [client EXCEPT !.attempt = @ + 1]
       ELSE client' = [client EXCEPT !.pc = "stopped"]
    /\ UNCHANGED <<recordVars, driver, historyVars, screen, restarts>>

\* The client is killed, or its output fails.
ClientDies ==
    /\ client.pc \in {"status", "drain", "report"}
    /\ client' = [client EXCEPT !.pc = "stopped"]
    /\ UNCHANGED <<recordVars, driver, historyVars, screen, restarts>>

Next ==
    \/ MemoryTool
    \/ \E r \in Runs :
          \/ Submit(r) \/ ModelAnswers(r) \/ Cancel(r)
          \/ \E d \in Drivers : StartTick(d, r)
    \/ \E d \in Drivers : TakeSnapshot(d) \/ Prepare(d) \/ Commit(d) \/ DriverDies(d)
    \/ Follow \/ ReadStatus \/ ReadPage \/ PrintEvent \/ Report
    \/ FetchFails \/ ClientDies

Spec == Init /\ [][Next]_vars

(***************************************************************************)
(* Properties.                                                             *)
(***************************************************************************)

\* Every variable has its type.
TypeOK ==
    /\ \A i \in Records :
          /\ memories[i].key \in Keys \cup Runs
          /\ memories[i].supersedes \in 0..(i - 1)
          /\ memories[i].supersededBy = 0 \/ memories[i].supersededBy \in Records
    /\ Len(memories) <= MaxRecords + Cardinality(Runs)
    /\ \A r \in DOMAIN snapshots :
          snapshots[r] \subseteq Records /\ Cardinality(snapshots[r]) <= Share
    /\ \A r \in Runs :
          /\ run[r].status \in {"absent", "running"} \cup Done
          /\ run[r].next \in {"start", "calling", "results", "final"}
          /\ Len(run[r].told) <= Longest[r]
          /\ Len(run[r].history) <= Len(run[r].told)
    /\ \A d \in Drivers : driver[d].pc \in {"idle", "recalled", "ready", "prepared"}
    /\ client.pc \in {"off", "status", "drain", "report", "done", "stopped"}
    /\ Len(client.page) <= PageSize
    /\ client.attempt \in 0..MaxRetries
    /\ restarts \in 0..MaxRestarts

\* Every model request of a run carries the same evidence, whichever driver made
\* it, and however the memories changed meanwhile.
SameEvidence == \A r \in Runs : \A one, other \in asked[r] : one = other

\* Nothing the tools of a run returned is lost by keeping its prompt small: the
\* exchanges the model sees and the chain of its archive are the whole
\* conversation in order, up to the results not yet taken over, and every link
\* and every result taken out of it is in the store.
Taken(r) ==
    LET all == [i \in DOMAIN run[r].told |-> Offloaded(run[r].told[i])]
    IN IF run[r].next = "results" THEN Front(all) ELSE all
Recoverable ==
    \A r \in Runs :
        LET all == Taken(r)
            archived == Len(all) - Len(run[r].history)
        IN /\ archived >= 0
           /\ run[r].history = SubSeq(all, archived + 1, Len(all))
           /\ run[r].archive = Archived(NoArchive, SubSeq(all, 1, archived))
           /\ Between(NoArchive, all, archived) \subseteq artifacts[r]
           /\ \A i \in DOMAIN all : Outputs(run[r].told[i]) \subseteq artifacts[r]

\* What an actor deleted or corrected stays so: no repeated call makes a second
\* record under the key of the first, no two records correct the same one, and
\* a run that is submitted afterwards is not shown it.
ForgottenStaysForgotten ==
    /\ \A i, j \in Records : i # j =>
          /\ memories[i].key # memories[j].key
          /\ memories[i].supersedes # 0 => memories[i].supersedes # memories[j].supersedes
    /\ \A r \in DOMAIN snapshots : snapshots[r] \cap stale[r] = {}

\* A client that follows a run prints each of its events once and in order,
\* across pages, failed requests and new starts; and when it ends by itself, the
\* run is over and all of them are printed.
FollowerSeesAll ==
    /\ screen = [i \in 1..Len(screen) |-> i]
    /\ Len(screen) <= Len(events[Followed])
    /\ At("done") => Terminal(Followed) /\ Len(screen) = Len(events[Followed])
=============================================================================
