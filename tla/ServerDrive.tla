---------------------------- MODULE ServerDrive ----------------------------
(***************************************************************************)
(* The local driver of the HTTP server (hudson-server/src/routes.rs): how  *)
(* submissions, replies, approvals and resumes turn into background loops  *)
(* that tick a run until it stops.                                         *)
(*                                                                         *)
(* A handler first commits its change to the store and then calls          *)
(* App::drive, in two steps that other threads interleave with.  "active"  *)
(* holds the runs that have a loop, with a flag that asks it to go once    *)
(* more; the loops of all the runs share one driver, behind a mutex.       *)
(*                                                                         *)
(* What a tick does to a run is the subject of RunExecution; here it is    *)
(* any of the statuses it can leave the run and one of its children in.    *)
(***************************************************************************)
EXTENDS Naturals, FiniteSets

CONSTANTS
    Runs,
    NoRun,
    Parent,        \* the run whose tool delegated a run, NoRun for a root
    DependsOn,     \* the siblings that must complete before a run starts
    Tasks,         \* blocking threads
    NoTask,
    MaxRequests,   \* bound of the model: requests of clients
    MaxEffort,     \* bound of the model: ticks that leave a run Running
    MaxFaults      \* bound of the model: failed ticks and server restarts

\* The tree of agents has two levels here.
ASSUME TreeAssumption ==
    /\ NoRun \notin Runs
    /\ Parent \in [Runs -> Runs \cup {NoRun}]
    /\ \A r \in Runs : Parent[r] # NoRun => Parent[Parent[r]] = NoRun
    /\ DependsOn \in [Runs -> SUBSET Runs]
    /\ \A r \in Runs : \A s \in DependsOn[r] : Parent[s] = Parent[r]
ASSUME TasksAssumption == NoTask \notin Tasks
ASSUME DriveBoundsAssumption ==
    MaxRequests \in Nat /\ MaxEffort \in Nat /\ MaxFaults \in Nat

VARIABLES
    status,     \* the stored status of each run
    busy,       \* the run has a Running operation whose executor is not here
    effort,     \* how many more ticks can leave the run Running
    calls,      \* the calls of App::drive under way for each run
    active,     \* App.active: no loop, a loop, or a loop asked to go again
    task,       \* the blocking threads
    driver,     \* the thread that holds App.driver
    owed,       \* history: the run was not ticked since a request accepted it
    requests,
    faults

stored == <<status, busy, effort>>
vars == <<stored, calls, active, task, driver, owed, requests, faults>>

Statuses == {"absent", "queued", "running", "waiting", "cancelling", "ended"}
Places == {"none", "lock", "tick", "view", "look", "release", "remove"}
Thread == [run : Runs \cup {NoRun}, pc : Places]
NoThread == [run |-> NoRun, pc |-> "none"]

Roots == {r \in Runs : Parent[r] = NoRun}
Children(r) == {c \in Runs : Parent[c] = r}

Goto(t, pc) == task' = [task EXCEPT ![t].pc = pc]

Init ==
    /\ status = [r \in Runs |-> "absent"]
    /\ busy = [r \in Runs |-> FALSE]
    /\ effort = [r \in Runs |-> MaxEffort]
    /\ calls = [r \in Runs |-> 0]
    /\ active = [r \in Runs |-> "no"]
    /\ task = [t \in Tasks |-> NoThread]
    /\ driver = NoTask
    /\ owed = [r \in Runs |-> FALSE]
    /\ requests = 0
    /\ faults = 0

(***************************************************************************)
(* The handlers: the change is committed, the call of App::drive is next.  *)
(***************************************************************************)
Accept(r) ==
    /\ requests < MaxRequests
    /\ requests' = requests + 1
    /\ calls' = [calls EXCEPT ![r] = @ + 1]
    /\ owed' = [owed EXCEPT ![r] = TRUE]
    /\ UNCHANGED <<busy, effort, active, task, driver, faults>>

Submit(r) ==
    /\ r \in Roots
    /\ status[r] = "absent"
    /\ status' = [status EXCEPT ![r] = "queued"]
    /\ Accept(r)

Resume(r) ==
    /\ status[r] # "absent"
    /\ UNCHANGED status
    /\ Accept(r)

\* An approval, a denial or an answer of the user.
Decide(r) ==
    /\ status[r] = "waiting"
    /\ status' = [status EXCEPT ![r] = "running"]
    /\ Accept(r)

\* Runtime::cancel settles the run and its children itself, except those with
\* an active operation, and the handler does not call App::drive.
Cancel(r) ==
    LET live == {s \in {r} \cup Children(r) :
                    status[s] \in {"queued", "running", "waiting"}}
        held == {s \in live : busy[s] \/ \E t \in Tasks : task[t].pc = "tick"}
    IN
    /\ requests < MaxRequests
    /\ requests' = requests + 1
    /\ live # {}
    /\ \E unresolved \in SUBSET held :
          /\ {s \in live : busy[s]} \subseteq unresolved
          /\ status' = [s \in Runs |-> IF s \in unresolved THEN "cancelling"
                                       ELSE IF s \in live THEN "ended"
                                       ELSE status[s]]
    /\ UNCHANGED <<busy, effort, calls, active, task, driver, owed, faults>>

(***************************************************************************)
(* App::drive: a run has one loop; a call that finds it sets its flag.     *)
(***************************************************************************)
Spawn(r) ==
    /\ active' = [active EXCEPT ![r] = "yes"]
    /\ \E t \in Tasks :
          /\ task[t] = NoThread
          /\ task' = [task EXCEPT ![t] = [run |-> r, pc |-> "lock"]]

\* Mutant: a call does not look for a loop of the run.
DriveAnew(r) ==
    /\ calls[r] > 0
    /\ calls' = [calls EXCEPT ![r] = @ - 1]
    /\ Spawn(r)
    /\ UNCHANGED <<stored, driver, owed, requests, faults>>

Drive(r) ==
    /\ calls[r] > 0
    /\ calls' = [calls EXCEPT ![r] = @ - 1]
    /\ \/ /\ active[r] = "no"
          /\ Spawn(r)
       \/ /\ active[r] # "no"
          /\ active' = [active EXCEPT ![r] = "wake"]
          /\ UNCHANGED task
    /\ UNCHANGED <<stored, driver, owed, requests, faults>>

(***************************************************************************)
(* The loop.                                                               *)
(***************************************************************************)
Acquire(t) ==
    /\ task[t].pc = "lock"
    /\ driver = NoTask
    /\ driver' = t
    /\ Goto(t, "tick")
    /\ UNCHANGED <<stored, calls, active, owed, requests, faults>>

\* Store::dependencies_ready.
Blocked(r) == \E s \in DependsOn[r] : status[s] # "ended"

CanProgress(r) ==
    /\ ~busy[r]
    /\ status[r] \in {"running", "queued"}
    /\ status[r] = "queued" => ~Blocked(r)

\* The statuses a tick can leave a run in.
Ticked(r) ==
    IF CanProgress(r)
    THEN {"waiting", "ended"} \cup (IF effort[r] > 0 THEN {"running"} ELSE {})
    ELSE IF status[r] = "cancelling" /\ ~busy[r] THEN {"cancelling", "ended"}
    ELSE {status[r]}

\* The statuses the delegation or join tool of the parent can leave a child
\* in: subagents::drive ticks it until it waits or ends, and gives up at once
\* when it is queued behind its dependencies.
Delegated(c) ==
    IF status[c] = "absent"
    THEN IF Blocked(c) THEN {"queued"} ELSE {"waiting", "ended"}
    ELSE IF CanProgress(c) THEN {"waiting", "ended"} ELSE {status[c]}

\* Mutant: the last step of the budget can be taken twice.
WorkBeyond(t) ==
    LET r == task[t].run IN
    /\ task[t].pc = "tick"
    /\ CanProgress(r)
    /\ status' = [status EXCEPT ![r] = "running"]
    /\ effort' = [effort EXCEPT ![r] = @ - 1]
    /\ owed' = [owed EXCEPT ![r] = FALSE]
    /\ Goto(t, "view")
    /\ UNCHANGED <<busy, calls, active, driver, requests, faults>>

Work(t) ==
    LET r == task[t].run IN
    /\ task[t].pc = "tick"
    /\ \E next \in Ticked(r) :
          /\ effort' = [effort EXCEPT ![r] = IF CanProgress(r) /\ next = "running"
                                             THEN @ - 1 ELSE @]
          /\ \/ status' = [status EXCEPT ![r] = next]
             \/ /\ CanProgress(r)
                /\ \E c \in Children(r) : \E child \in Delegated(c) :
                      status' = [status EXCEPT ![r] = next, ![c] = child]
    /\ owed' = [owed EXCEPT ![r] = FALSE]
    /\ Goto(t, "view")
    /\ UNCHANGED <<busy, calls, active, driver, requests, faults>>

\* A tick that returns an error ends the loop.
WorkFails(t) ==
    /\ task[t].pc = "tick"
    /\ faults < MaxFaults
    /\ faults' = faults + 1
    /\ owed' = [owed EXCEPT ![task[t].run] = FALSE]
    /\ Goto(t, "release")
    /\ UNCHANGED <<stored, calls, active, driver, requests>>

\* The view that tick returns is read when its work is committed.
View(t) ==
    /\ task[t].pc = "view"
    /\ Goto(t, IF status[task[t].run] \in {"ended", "waiting", "cancelling"}
               THEN "release" ELSE "look")
    /\ UNCHANGED <<stored, calls, active, driver, owed, requests, faults>>

\* An operation that another executor may own is never replayed.
Look(t) ==
    /\ task[t].pc = "look"
    /\ Goto(t, IF busy[task[t].run] THEN "release" ELSE "tick")
    /\ UNCHANGED <<stored, calls, active, driver, owed, requests, faults>>

Release(t) ==
    /\ task[t].pc = "release"
    /\ driver' = NoTask
    /\ Goto(t, "remove")
    /\ UNCHANGED <<stored, calls, active, owed, requests, faults>>

\* Mutants: the flag is dropped with the entry; the entry stays.
RemoveAsleep(t) ==
    /\ task[t].pc = "remove"
    /\ active' = [active EXCEPT ![task[t].run] = "no"]
    /\ task' = [task EXCEPT ![t] = NoThread]
    /\ UNCHANGED <<stored, calls, driver, owed, requests, faults>>
RemoveNothing(t) ==
    LET r == task[t].run IN
    /\ task[t].pc = "remove"
    /\ active' = [active EXCEPT ![r] = "yes"]
    /\ task' = [task EXCEPT ![t] = NoThread]
    /\ calls' = [calls EXCEPT ![r] = IF active[r] = "wake" THEN @ + 1 ELSE @]
    /\ UNCHANGED <<stored, driver, owed, requests, faults>>

\* The entry and its flag are taken together; a set flag drives again.
Remove(t) ==
    LET r == task[t].run IN
    /\ task[t].pc = "remove"
    /\ active' = [active EXCEPT ![r] = "no"]
    /\ task' = [task EXCEPT ![t] = NoThread]
    /\ calls' = [calls EXCEPT ![r] = IF active[r] = "wake" THEN @ + 1 ELSE @]
    /\ UNCHANGED <<stored, driver, owed, requests, faults>>

(***************************************************************************)
(* The server stops and starts again over a durable store.  What it had in *)
(* memory is gone, and so are the promises it made: interrupted runs are   *)
(* resumed explicitly.  The tick it was in may leave a Running operation.  *)
(***************************************************************************)
Restart ==
    /\ faults < MaxFaults
    /\ faults' = faults + 1
    /\ \E left \in SUBSET {r \in Runs : CanProgress(r)
                             /\ \E t \in Tasks : task[t] = [run |-> r, pc |-> "tick"]} :
          /\ busy' = [r \in Runs |-> busy[r] \/ r \in left]
          /\ status' = [r \in Runs |-> IF r \in left THEN "running" ELSE status[r]]
    /\ calls' = [r \in Runs |-> 0]
    /\ active' = [r \in Runs |-> "no"]
    /\ task' = [t \in Tasks |-> NoThread]
    /\ driver' = NoTask
    /\ owed' = [r \in Runs |-> FALSE]
    /\ UNCHANGED <<effort, requests>>

\* The recovery commands of the worker settle the operation and let the run
\* continue; nobody drives it.
Recover(r) ==
    /\ busy[r]
    /\ busy' = [busy EXCEPT ![r] = FALSE]
    /\ UNCHANGED <<status, effort, calls, active, task, driver, owed, requests, faults>>

Loop(t) == Acquire(t) \/ Work(t) \/ View(t) \/ Look(t) \/ Release(t) \/ Remove(t)

Next ==
    \/ \E r \in Runs :
          Submit(r) \/ Resume(r) \/ Decide(r) \/ Cancel(r) \/ Drive(r) \/ Recover(r)
    \/ \E t \in Tasks : Loop(t) \/ WorkFails(t)
    \/ Restart

Spec == Init /\ [][Next]_vars

\* Threads run, and a thread gets the mutex when nobody holds it for good.
Fairness ==
    /\ \A r \in Runs : WF_vars(Drive(r))
    /\ \A t \in Tasks : SF_vars(Acquire(t)) /\ WF_vars(Loop(t))

FairSpec == Spec /\ Fairness

(***************************************************************************)
(* Properties.                                                             *)
(***************************************************************************)
\* The stored and the volatile state keep their types.
TypeOK ==
    /\ status \in [Runs -> Statuses]
    /\ busy \in [Runs -> BOOLEAN]
    /\ effort \in [Runs -> 0..MaxEffort]
    /\ calls \in [Runs -> 0..2 * MaxRequests]
    /\ active \in [Runs -> {"no", "yes", "wake"}]
    /\ task \in [Tasks -> Thread]
    /\ driver \in Tasks \cup {NoTask}
    /\ owed \in [Runs -> BOOLEAN]
    /\ requests \in 0..MaxRequests
    /\ faults \in 0..MaxFaults

\* "Duplicate submissions/resumes never enqueue another copy of an active
\* run": a run has exactly one loop while it is active and none otherwise, so
\* two executors of this server never tick one run.
OneLoopPerRun ==
    \A r \in Runs : Cardinality({t \in Tasks : task[t].run = r})
                        = IF active[r] = "no" THEN 0 ELSE 1

\* No wake-up is lost: as long as nothing failed, a run that can go on (a root
\* that was submitted, or any run that a decision set Running) has a loop
\* that will see it, or a call of App::drive on its way, wherever the decision
\* fell between the last look of a loop and the removal of its entry.
Attended ==
    faults = 0 =>
        \A r \in Runs :
            status[r] = "running" \/ (status[r] = "queued" /\ r \in Roots) =>
                \/ calls[r] > 0
                \/ active[r] = "wake"
                \/ \E t \in Tasks :
                      task[t].run = r /\ task[t].pc \in {"lock", "tick", "view", "look"}

\* "Approval, reply, and resume schedule work": a run whose continuation was
\* accepted is eventually ticked, whatever the other runs do.
ResumeHonoured == \A r \in Runs : owed[r] ~> ~owed[r]
=============================================================================
