------------------------- MODULE ServerDriveProofs -------------------------
(***************************************************************************)
(* What is proved of ServerDrive, for every tree of runs with two levels,  *)
(* every set of threads, and any number of requests, ticks and faults.     *)
(*                                                                         *)
(* The entry of a run in App.active and the thread that serves it come and *)
(* go together (Threads); a call of App::drive and a wake-up both stem     *)
(* from a request, which bounds their number (Accounted).  That no wake-up *)
(* is lost (Attended) needs one thing more: without a fault no operation   *)
(* is left Running by an executor that is gone (NothingLeft).              *)
(***************************************************************************)
EXTENDS ServerDrive, FiniteSetTheorems, TLAPS

\* The ranges that need no other invariant.
Ranges ==
    /\ status \in [Runs -> Statuses]
    /\ busy \in [Runs -> BOOLEAN]
    /\ effort \in [Runs -> 0..MaxEffort]
    /\ calls \in [Runs -> Nat]
    /\ active \in [Runs -> {"no", "yes", "wake"}]
    /\ task \in [Tasks -> Thread]
    /\ driver \in Tasks \cup {NoTask}
    /\ owed \in [Runs -> BOOLEAN]
    /\ requests \in 0..MaxRequests
    /\ faults \in 0..MaxFaults

\* A run has an entry in App.active when, and as long as, a thread serves it,
\* and no second thread does.
Threads ==
    /\ \A t \in Tasks : task[t].pc = "none" <=> task[t].run = NoRun
    /\ \A r \in Runs : active[r] = "no" <=> \A t \in Tasks : task[t].run # r
    /\ \A t, u \in Tasks : task[t].run = task[u].run /\ task[t].run # NoRun => t = u

\* The calls under way for a run and its wake-up were requested.
Accounted ==
    \A r \in Runs : calls[r] + (IF active[r] = "wake" THEN 1 ELSE 0) <= requests

\* Without a fault no operation lacks its executor.
NothingLeft == faults = 0 => \A r \in Runs : busy[r] = FALSE

DriveInv == Ranges /\ Threads /\ Accounted /\ NothingLeft /\ Attended

\* At most one thread ticks: it holds the mutex of the driver.
OneTicks ==
    \A t \in Tasks : task[t].pc \in {"tick", "view", "look", "release"} => driver = t

(***************************************************************************)
(* The steps.                                                              *)
(***************************************************************************)
\* A step of the loop of a thread that serves a run moves this thread alone.
LEMMA Moves ==
    ASSUME Ranges, Threads, NEW t \in Tasks, task[t].pc # "none",
           NEW pc \in Places \ {"none"}, Goto(t, pc)
    PROVE  /\ task[t].run \in Runs
           /\ task'[t] = [run |-> task[t].run, pc |-> pc]
           /\ \A u \in Tasks : u # t => task'[u] = task[u]
           /\ \A u \in Tasks : task'[u].run = task[u].run
           /\ task' \in [Tasks -> Thread]
<1>1. task[t].run \in Runs
  BY DEF Ranges, Threads, Thread
<1>2. task[t] = [run |-> task[t].run, pc |-> task[t].pc]
  BY DEF Ranges, Thread
<1>3. task'[t] = [run |-> task[t].run, pc |-> pc]
  BY <1>2 DEF Goto, Ranges, Thread
<1>4. \A u \in Tasks : u # t => task'[u] = task[u]
  BY DEF Goto, Ranges
<1>5. task' \in [Tasks -> Thread]
  BY <1>1, <1>3, <1>4 DEF Goto, Ranges, Thread
<1> QED
  BY <1>1, <1>3, <1>4, <1>5

\* Moving a thread that goes on serving its run keeps Threads.
LEMMA MovesKeepThreads ==
    ASSUME Ranges, Threads, NEW t \in Tasks, task[t].pc # "none",
           NEW pc \in Places \ {"none"}, Goto(t, pc), active' = active
    PROVE  Threads'
<1>1. /\ task'[t] = [run |-> task[t].run, pc |-> pc]
      /\ \A u \in Tasks : u # t => task'[u] = task[u]
      /\ \A u \in Tasks : task'[u].run = task[u].run
  BY Moves, Zenon
<1>2. \A u \in Tasks : task'[u].pc = "none" <=> task'[u].run = NoRun
  BY <1>1 DEF Threads
<1> QED
  BY <1>1, <1>2 DEF Threads

\* The thread App::drive starts is a free one.
LEMMA Spawned ==
    ASSUME Ranges, Threads, NEW r \in Runs, active[r] = "no", Spawn(r)
    PROVE  \E t \in Tasks :
               /\ task[t] = NoThread
               /\ task'[t] = [run |-> r, pc |-> "lock"]
               /\ \A u \in Tasks : u # t => task'[u] = task[u]
               /\ task' \in [Tasks -> Thread]
               /\ active'[r] = "yes"
               /\ \A x \in Runs : x # r => active'[x] = active[x]
               /\ active' \in [Runs -> {"no", "yes", "wake"}]
<1>1. PICK t \in Tasks : /\ task[t] = NoThread
                         /\ task' = [task EXCEPT ![t] = [run |-> r, pc |-> "lock"]]
  BY DEF Spawn
<1>2. active' = [active EXCEPT ![r] = "yes"]
  BY DEF Spawn
<1>3. [run |-> r, pc |-> "lock"] \in Thread
  BY DEF Thread, Places
<1>4. task'[t] = [run |-> r, pc |-> "lock"] /\ \A u \in Tasks : u # t => task'[u] = task[u]
  BY <1>1 DEF Ranges
<1>5. task' \in [Tasks -> Thread]
  BY <1>1, <1>3 DEF Ranges
<1> QED
  BY <1>1, <1>2, <1>4, <1>5 DEF Ranges

\* The loops that a call of App::drive leaves.
LEMMA DriveKeepsThreads ==
    ASSUME Ranges, Threads, NEW r \in Runs, Drive(r)
    PROVE  Threads' /\ task' \in [Tasks -> Thread]
                    /\ active' \in [Runs -> {"no", "yes", "wake"}]
<1>1. CASE active[r] # "no"
  <2>1. task' = task /\ active' = [active EXCEPT ![r] = "wake"]
    BY <1>1 DEF Drive
  <2>2. \A x \in Runs : active'[x] = IF x = r THEN "wake" ELSE active[x]
    BY <2>1 DEF Ranges
  <2> QED
    BY <1>1, <2>1, <2>2 DEF Threads, Ranges
<1>2. CASE active[r] = "no"
  <2>1. Spawn(r)
    BY <1>2 DEF Drive
  <2>2. PICK t \in Tasks :
               /\ task[t] = NoThread
               /\ task'[t] = [run |-> r, pc |-> "lock"]
               /\ \A u \in Tasks : u # t => task'[u] = task[u]
               /\ task' \in [Tasks -> Thread]
               /\ active'[r] = "yes"
               /\ \A x \in Runs : x # r => active'[x] = active[x]
               /\ active' \in [Runs -> {"no", "yes", "wake"}]
    BY <1>2, <2>1, Spawned
  <2>3. r # NoRun /\ task[t].run = NoRun /\ task'[t].run = r /\ task'[t].pc = "lock"
    BY <2>2, TreeAssumption DEF NoThread
  <2>4. \A u \in Tasks : task[u].run # r
    BY <1>2 DEF Threads
  <2>5. \A u \in Tasks : task'[u].pc = "none" <=> task'[u].run = NoRun
    BY <2>2, <2>3 DEF Threads
  <2>6. \A x \in Runs : active'[x] = "no" <=> \A u \in Tasks : task'[u].run # x
    <3> SUFFICES ASSUME NEW x \in Runs
                 PROVE  active'[x] = "no" <=> \A u \in Tasks : task'[u].run # x
      OBVIOUS
    <3>1. CASE x = r
      BY <2>2, <2>3, <3>1
    <3>2. CASE x # r
      <4>1. task[t].run # x /\ task'[t].run # x
        BY <2>3, <3>2, TreeAssumption
      <4> QED
        BY <2>2, <3>2, <4>1 DEF Threads
    <3> QED
      BY <3>1, <3>2
  <2>7. \A u, v \in Tasks : task'[u].run = task'[v].run /\ task'[u].run # NoRun => u = v
    BY <2>2, <2>3, <2>4 DEF Threads
  <2> QED
    BY <2>2, <2>5, <2>6, <2>7 DEF Threads
<1> QED
  BY <1>1, <1>2

\* A loop that ends leaves no entry.
LEMMA RemoveKeepsThreads ==
    ASSUME Ranges, Threads, NEW t \in Tasks, Remove(t)
    PROVE  /\ Threads'
           /\ task' \in [Tasks -> Thread]
           /\ active' \in [Runs -> {"no", "yes", "wake"}]
           /\ task[t].run \in Runs
           /\ \A u \in Tasks : u # t => task'[u] = task[u] /\ task[u].run # task[t].run
           /\ \A x \in Runs : active'[x] = IF x = task[t].run THEN "no" ELSE active[x]
<1>1. task[t].pc = "remove" /\ task' = [task EXCEPT ![t] = NoThread]
      /\ active' = [active EXCEPT ![task[t].run] = "no"]
  BY DEF Remove
<1>2. task[t].run \in Runs
  BY <1>1 DEF Ranges, Threads, Thread
<1>3. NoThread \in Thread /\ NoThread.run = NoRun /\ NoThread.pc = "none"
  BY DEF NoThread, Thread, Places
<1>4. \A x \in Runs : active'[x] = IF x = task[t].run THEN "no" ELSE active[x]
  BY <1>1 DEF Ranges
<1>5. task'[t] = NoThread /\ \A u \in Tasks : u # t => task'[u] = task[u]
  BY <1>1 DEF Ranges
<1>6. \A u \in Tasks : u # t => task[u].run # task[t].run
  BY <1>2, TreeAssumption DEF Threads
<1>7. task' \in [Tasks -> Thread] /\ active' \in [Runs -> {"no", "yes", "wake"}]
  BY <1>1, <1>3 DEF Ranges
<1>8. \A u \in Tasks : task'[u].pc = "none" <=> task'[u].run = NoRun
  BY <1>3, <1>5 DEF Threads
<1>9. ASSUME NEW x \in Runs
      PROVE  active'[x] = "no" <=> \A u \in Tasks : task'[u].run # x
  <2>0. task'[t].run # x
    BY <1>3, <1>5, TreeAssumption
  <2>1. CASE x = task[t].run
    BY <1>4, <1>5, <1>6, <2>0, <2>1
  <2>2. CASE x # task[t].run
    BY <1>4, <1>5, <2>0, <2>2 DEF Threads
  <2> QED
    BY <2>1, <2>2
<1>10. \A u, v \in Tasks : task'[u].run = task'[v].run /\ task'[u].run # NoRun => u = v
  BY <1>3, <1>5 DEF Threads
<1>11. Threads'
  BY <1>8, <1>9, <1>10 DEF Threads
<1> QED
  BY <1>2, <1>4, <1>5, <1>6, <1>7, <1>11

(***************************************************************************)
(* The ranges and the threads, action by action.                           *)
(***************************************************************************)
\* The places of a loop: its actions move one thread that serves a run.
LEMMA LoopMoves ==
    ASSUME NEW t \in Tasks, \/ Acquire(t) \/ Work(t) \/ View(t) \/ Look(t) \/ Release(t)
                            \/ WorkFails(t)
    PROVE  /\ task[t].pc \in {"lock", "tick", "view", "look", "release"}
           /\ \E pc \in {"tick", "view", "look", "release", "remove"} : Goto(t, pc)
           /\ active' = active /\ calls' = calls /\ requests' = requests /\ busy' = busy
BY DEF Acquire, Work, View, Look, Release, WorkFails, stored

LEMMA ThreadsStep ==
    ASSUME Ranges, Threads, [Next]_vars
    PROVE  /\ Threads'
           /\ task' \in [Tasks -> Thread]
           /\ active' \in [Runs -> {"no", "yes", "wake"}]
<1>1. CASE task' = task /\ active' = active
  BY <1>1 DEF Threads, Ranges
<1>2. ASSUME NEW r \in Runs, Drive(r)
      PROVE  /\ Threads'
             /\ task' \in [Tasks -> Thread]
             /\ active' \in [Runs -> {"no", "yes", "wake"}]
  BY <1>2, DriveKeepsThreads
<1>3. ASSUME NEW t \in Tasks, \/ Acquire(t) \/ Work(t) \/ View(t) \/ Look(t) \/ Release(t)
                              \/ WorkFails(t)
      PROVE  /\ Threads'
             /\ task' \in [Tasks -> Thread]
             /\ active' \in [Runs -> {"no", "yes", "wake"}]
  <2>1. active' = active /\ task[t].pc # "none"
    BY <1>3, LoopMoves
  <2>2. PICK pc \in {"tick", "view", "look", "release", "remove"} : Goto(t, pc)
    BY <1>3, LoopMoves
  <2>3. pc \in Places \ {"none"}
    BY DEF Places
  <2>4. Threads'
    BY <2>1, <2>2, <2>3, MovesKeepThreads
  <2>5. task' \in [Tasks -> Thread]
    BY <2>1, <2>2, <2>3, Moves, Zenon
  <2> QED
    BY <2>1, <2>4, <2>5 DEF Ranges
<1>4. ASSUME NEW t \in Tasks, Remove(t)
      PROVE  /\ Threads'
             /\ task' \in [Tasks -> Thread]
             /\ active' \in [Runs -> {"no", "yes", "wake"}]
  BY <1>4, RemoveKeepsThreads, Zenon
<1>5. CASE Restart
  <2>1. task' = [t \in Tasks |-> NoThread] /\ active' = [r \in Runs |-> "no"]
    BY <1>5 DEF Restart
  <2>2. NoThread \in Thread /\ NoThread.run = NoRun /\ NoThread.pc = "none"
    BY DEF NoThread, Thread, Places
  <2>3. task' \in [Tasks -> Thread] /\ active' \in [Runs -> {"no", "yes", "wake"}]
    BY <2>1, <2>2
  <2>4. /\ \A t \in Tasks : task'[t].run = NoRun /\ task'[t].pc = "none"
        /\ \A r \in Runs : active'[r] = "no"
    BY <2>1, <2>2
  <2>5. Threads'
    BY <2>4, TreeAssumption DEF Threads
  <2> QED
    BY <2>3, <2>5
<1>6. ASSUME NEW r \in Runs, Submit(r) \/ Resume(r) \/ Decide(r) \/ Cancel(r) \/ Recover(r)
      PROVE  task' = task /\ active' = active
  BY <1>6 DEF Submit, Resume, Decide, Cancel, Recover, Accept
<1>7. CASE UNCHANGED vars
  BY <1>1, <1>7 DEF vars
<1> QED
  BY <1>1, <1>2, <1>3, <1>4, <1>5, <1>6, <1>7 DEF Next, Loop

\* The calls a request or a removal adds, and the ones App::drive takes.
LEMMA AccountedStep ==
    ASSUME Ranges, Threads, Accounted, [Next]_vars
    PROVE  Accounted' /\ calls' \in [Runs -> Nat] /\ requests' \in 0..MaxRequests
<1> DEFINE Wake(r) == IF active[r] = "wake" THEN 1 ELSE 0
<1>0. /\ calls = [r \in Runs |-> calls[r]] /\ \A r \in Runs : calls[r] \in Nat
      /\ requests \in 0..MaxRequests /\ MaxRequests \in Nat
      /\ \A r \in Runs : calls[r] + Wake(r) <= requests
      /\ active \in [Runs -> {"no", "yes", "wake"}]
  BY DriveBoundsAssumption DEF Ranges, Accounted
<1>1. CASE calls' = calls /\ active' = active /\ requests' = requests
  BY <1>0, <1>1 DEF Accounted
<1>2. ASSUME NEW r \in Runs, Accept(r)
      PROVE  Accounted' /\ calls' \in [Runs -> Nat] /\ requests' \in 0..MaxRequests
  <2>1. /\ requests < MaxRequests /\ requests' = requests + 1 /\ active' = active
        /\ calls' = [calls EXCEPT ![r] = @ + 1]
    BY <1>2 DEF Accept
  <2>2. \A x \in Runs : calls'[x] = IF x = r THEN calls[x] + 1 ELSE calls[x]
    BY <1>0, <2>1
  <2>3. calls' \in [Runs -> Nat]
    BY <1>0, <2>1
  <2> QED
    BY <1>0, <2>1, <2>2, <2>3 DEF Accounted
<1>3. ASSUME NEW r \in Runs, Cancel(r)
      PROVE  Accounted' /\ calls' \in [Runs -> Nat] /\ requests' \in 0..MaxRequests
  <2>1. /\ requests < MaxRequests /\ requests' = requests + 1 /\ active' = active
        /\ calls' = calls
    BY <1>3 DEF Cancel
  <2> QED
    BY <1>0, <2>1 DEF Accounted
<1>4. ASSUME NEW r \in Runs, Drive(r)
      PROVE  Accounted' /\ calls' \in [Runs -> Nat] /\ requests' \in 0..MaxRequests
  <2>1. /\ calls[r] > 0 /\ calls' = [calls EXCEPT ![r] = @ - 1] /\ requests' = requests
        /\ \/ active' = [active EXCEPT ![r] = "yes"]
           \/ active' = [active EXCEPT ![r] = "wake"]
    BY <1>4 DEF Drive, Spawn
  <2>2. \A x \in Runs : calls'[x] = IF x = r THEN calls[x] - 1 ELSE calls[x]
    BY <1>0, <2>1
  <2>3. calls[r] - 1 \in Nat
    BY <1>0, <2>1
  <2>4. calls' \in [Runs -> Nat]
    BY <1>0, <2>1, <2>3
  <2>5. \A x \in Runs : x # r => active'[x] = active[x]
    BY <1>0, <2>1
  <2>6. \A x \in Runs : calls'[x] + (IF active'[x] = "wake" THEN 1 ELSE 0) <= requests
    BY <1>0, <2>2, <2>3, <2>5
  <2> QED
    BY <1>0, <2>1, <2>4, <2>6 DEF Accounted
<1>5. ASSUME NEW t \in Tasks, Remove(t)
      PROVE  Accounted' /\ calls' \in [Runs -> Nat] /\ requests' \in 0..MaxRequests
  <2> DEFINE r == task[t].run
  <2>1. /\ r \in Runs
        /\ \A x \in Runs : active'[x] = IF x = r THEN "no" ELSE active[x]
    BY <1>5, RemoveKeepsThreads, Zenon
  <2>2. /\ requests' = requests
        /\ calls' = [calls EXCEPT ![r] = IF active[r] = "wake" THEN @ + 1 ELSE @]
    BY <1>5 DEF Remove
  <2>3. \A x \in Runs : calls'[x] = IF x = r /\ active[x] = "wake" THEN calls[x] + 1
                                    ELSE calls[x]
    BY <1>0, <2>2
  <2>4. calls' \in [Runs -> Nat]
    BY <1>0, <2>1, <2>2
  <2>5. \A x \in Runs : calls'[x] + (IF active'[x] = "wake" THEN 1 ELSE 0) <= requests
    BY <1>0, <2>1, <2>3
  <2> QED
    BY <1>0, <2>2, <2>4, <2>5 DEF Accounted
<1>6. CASE Restart
  <2>1. /\ calls' = [r \in Runs |-> 0] /\ active' = [r \in Runs |-> "no"]
        /\ requests' = requests
    BY <1>6 DEF Restart
  <2> QED
    BY <1>0, <2>1 DEF Accounted
<1>7. ASSUME NEW r \in Runs, Submit(r) \/ Resume(r) \/ Decide(r)
      PROVE  Accept(r)
  BY <1>7 DEF Submit, Resume, Decide
<1>8. ASSUME NEW r \in Runs, Recover(r)
      PROVE  calls' = calls /\ active' = active /\ requests' = requests
  BY <1>8 DEF Recover
<1>9. ASSUME NEW t \in Tasks, \/ Acquire(t) \/ Work(t) \/ View(t) \/ Look(t) \/ Release(t)
                              \/ WorkFails(t)
      PROVE  calls' = calls /\ active' = active /\ requests' = requests
  BY <1>9, LoopMoves
<1>10. CASE UNCHANGED vars
  BY <1>1, <1>10 DEF vars
<1> QED
  BY <1>1, <1>2, <1>3, <1>4, <1>5, <1>6, <1>7, <1>8, <1>9, <1>10 DEF Next, Loop

\* What a tick leaves of the run and of one of its children.
LEMMA Worked ==
    ASSUME Ranges, Threads, NEW t \in Tasks, Work(t)
    PROVE  /\ status' \in [Runs -> Statuses]
           /\ effort' \in [Runs -> 0..MaxEffort]
           /\ \A x \in Runs :
                 \/ x = task[t].run \/ status'[x] = status[x]
                 \/ x \notin Roots /\ status'[x] # "running"
<1> DEFINE r == task[t].run
<1>1. r \in Runs
  <2>1. task[t].pc = "tick"
    BY DEF Work
  <2> QED
    BY <2>1 DEF Ranges, Threads, Thread
<1>2. PICK next \in Ticked(r) :
          /\ effort' = [effort EXCEPT ![r] = IF CanProgress(r) /\ next = "running"
                                             THEN @ - 1 ELSE @]
          /\ \/ status' = [status EXCEPT ![r] = next]
             \/ \E c \in Children(r) : \E child \in Delegated(c) :
                   status' = [status EXCEPT ![r] = next, ![c] = child]
  BY DEF Work
<1>3. status[r] \in Statuses /\ effort[r] \in 0..MaxEffort
  BY <1>1 DEF Ranges
<1>4. next \in Statuses
  BY <1>3 DEF Ticked, Statuses
<1>5. CanProgress(r) /\ next = "running" => effort[r] > 0
  BY DEF Ticked
<1>6. effort' \in [Runs -> 0..MaxEffort]
  <2>1. CASE CanProgress(r) /\ next = "running"
    <3>1. effort[r] - 1 \in 0..MaxEffort
      BY <1>3, <1>5, <2>1, DriveBoundsAssumption
    <3>2. effort' = [effort EXCEPT ![r] = effort[r] - 1]
      BY <1>2, <2>1
    <3> HIDE DEF r
    <3> QED
      BY <3>1, <3>2 DEF Ranges
  <2>2. CASE ~(CanProgress(r) /\ next = "running")
    <3>1. effort' = [effort EXCEPT ![r] = effort[r]]
      BY <1>2, <2>2
    <3> QED
      BY <3>1 DEF Ranges
  <2> QED
    BY <2>1, <2>2
<1>7. CASE status' = [status EXCEPT ![r] = next]
  <2>1. status' \in [Runs -> Statuses]
    BY <1>4, <1>7 DEF Ranges
  <2>2. \A x \in Runs : x # r => status'[x] = status[x]
    BY <1>7 DEF Ranges
  <2> QED
    BY <1>6, <2>1, <2>2
<1>8. ASSUME NEW c \in Children(r), NEW child \in Delegated(c),
             status' = [status EXCEPT ![r] = next, ![c] = child]
      PROVE  /\ status' \in [Runs -> Statuses]
             /\ \A x \in Runs :
                 \/ x = r \/ status'[x] = status[x]
                 \/ x \notin Roots /\ status'[x] # "running"
  <2>1. c \in Runs /\ c \notin Roots
    BY <1>1, TreeAssumption DEF Children, Roots
  <2>2. child \in Statuses /\ (child = status[c] \/ child # "running")
    <3>1. status[c] \in Statuses
      BY <2>1 DEF Ranges
    <3> QED
      BY <3>1 DEF Delegated, Statuses
  <2>3. status' \in [Runs -> Statuses]
    BY <1>4, <1>8, <2>2 DEF Ranges
  <2>4. \A x \in Runs : x # r /\ x # c => status'[x] = status[x]
    BY <1>8 DEF Ranges
  <2>5. c # r => status'[c] = child
    BY <1>8, <2>1 DEF Ranges
  <2> QED
    BY <2>1, <2>2, <2>3, <2>4, <2>5
<1> QED
  BY <1>2, <1>6, <1>7, <1>8

LEMMA RangesStep ==
    ASSUME Ranges, Threads, Accounted, [Next]_vars
    PROVE  Ranges'
<1> DEFINE Rest == /\ status' \in [Runs -> Statuses]
                   /\ busy' \in [Runs -> BOOLEAN]
                   /\ effort' \in [Runs -> 0..MaxEffort]
                   /\ driver' \in Tasks \cup {NoTask}
                   /\ owed' \in [Runs -> BOOLEAN]
                   /\ faults' \in 0..MaxFaults
<1>0. SUFFICES Rest
  <2>1. calls' \in [Runs -> Nat] /\ requests' \in 0..MaxRequests
    BY AccountedStep
  <2>2. task' \in [Tasks -> Thread] /\ active' \in [Runs -> {"no", "yes", "wake"}]
    BY ThreadsStep
  <2> QED
    BY <2>1, <2>2 DEF Ranges
<1> USE DEF Ranges
<1>1. ASSUME NEW r \in Runs, Submit(r) \/ Resume(r) \/ Decide(r)
      PROVE  Rest
  <2>1. /\ owed' = [owed EXCEPT ![r] = TRUE]
        /\ UNCHANGED <<busy, effort, driver, faults>>
    BY <1>1 DEF Submit, Resume, Decide, Accept
  <2>2. \/ status' = [status EXCEPT ![r] = "queued"] \/ status' = status
        \/ status' = [status EXCEPT ![r] = "running"]
    BY <1>1 DEF Submit, Resume, Decide
  <2>3. status' \in [Runs -> Statuses]
    BY <2>2 DEF Statuses
  <2>4. owed' \in [Runs -> BOOLEAN]
    BY <2>1
  <2> QED
    BY <2>1, <2>3, <2>4
<1>2. ASSUME NEW r \in Runs, Cancel(r)
      PROVE  Rest
  <2>1. UNCHANGED <<busy, effort, driver, owed, faults>>
    BY <1>2 DEF Cancel
  <2> DEFINE live == {s \in {r} \cup Children(r) :
                         status[s] \in {"queued", "running", "waiting"}}
  <2>2. PICK unresolved :
           status' = [s \in Runs |-> IF s \in unresolved THEN "cancelling"
                                     ELSE IF s \in live THEN "ended" ELSE status[s]]
    BY <1>2 DEF Cancel
  <2> HIDE DEF live
  <2>3. status' \in [Runs -> Statuses]
    BY <2>2 DEF Statuses
  <2> QED
    BY <2>1, <2>3
<1>3. ASSUME NEW r \in Runs, Drive(r)
      PROVE  Rest
  BY <1>3 DEF Drive, stored
<1>4. ASSUME NEW t \in Tasks, Acquire(t) \/ View(t) \/ Look(t) \/ Release(t) \/ Remove(t)
      PROVE  Rest
  <2>1. UNCHANGED <<status, busy, effort, owed, faults>> /\ driver' \in {t, driver, NoTask}
    BY <1>4 DEF Acquire, View, Look, Release, Remove, stored
  <2> QED
    BY <2>1
<1>5. ASSUME NEW t \in Tasks, Work(t)
      PROVE  Rest
  <2>1. status' \in [Runs -> Statuses] /\ effort' \in [Runs -> 0..MaxEffort]
    BY <1>5, Worked, Zenon
  <2>2. /\ owed' = [owed EXCEPT ![task[t].run] = FALSE]
        /\ UNCHANGED <<busy, driver, faults>>
    BY <1>5 DEF Work
  <2>3. owed' \in [Runs -> BOOLEAN]
    BY <2>2
  <2> QED
    BY <2>1, <2>2, <2>3
<1>6. ASSUME NEW t \in Tasks, WorkFails(t)
      PROVE  Rest
  <2>1. /\ faults < MaxFaults /\ faults' = faults + 1
        /\ owed' = [owed EXCEPT ![task[t].run] = FALSE]
        /\ UNCHANGED <<status, busy, effort, driver>>
    BY <1>6 DEF WorkFails, stored
  <2>2. owed' \in [Runs -> BOOLEAN]
    BY <2>1
  <2> QED
    BY <2>1, <2>2, DriveBoundsAssumption
<1>7. CASE Restart
  <2>1. /\ faults < MaxFaults /\ faults' = faults + 1
        /\ driver' = NoTask /\ owed' = [r \in Runs |-> FALSE] /\ effort' = effort
    BY <1>7 DEF Restart
  <2>2. PICK left :
           /\ busy' = [r \in Runs |-> busy[r] \/ r \in left]
           /\ status' = [r \in Runs |-> IF r \in left THEN "running" ELSE status[r]]
    BY <1>7 DEF Restart
  <2>3. busy' \in [Runs -> BOOLEAN]
    BY <2>2, Zenon
  <2>4. status' \in [Runs -> Statuses]
    BY <2>2 DEF Statuses
  <2> QED
    BY <2>1, <2>3, <2>4, DriveBoundsAssumption
<1>8. ASSUME NEW r \in Runs, Recover(r)
      PROVE  Rest
  <2>1. busy' = [busy EXCEPT ![r] = FALSE] /\ UNCHANGED <<status, effort, driver, owed, faults>>
    BY <1>8 DEF Recover
  <2> QED
    BY <2>1
<1>9. CASE UNCHANGED vars
  BY <1>9 DEF vars, stored
<1> QED
  BY <1>1, <1>2, <1>3, <1>4, <1>5, <1>6, <1>7, <1>8, <1>9 DEF Next, Loop

(***************************************************************************)
(* No lost wake-up.                                                        *)
(***************************************************************************)
\* A run that someone still has to tick, and the ways it will be.
Wanted(r) == status[r] = "running" \/ (status[r] = "queued" /\ r \in Roots)
Served(t, r) == task[t].run = r /\ task[t].pc \in {"lock", "tick", "view", "look"}
Coming(r) == calls[r] > 0 \/ active[r] = "wake" \/ \E t \in Tasks : Served(t, r)

LEMMA NothingLeftStep ==
    ASSUME Ranges, NothingLeft, [Next]_vars
    PROVE  NothingLeft'
<1>1. CASE busy' = busy /\ faults' = faults
  BY <1>1 DEF NothingLeft
<1>2. faults' = faults + 1 => faults' # 0
  BY DEF Ranges
<1>3. ASSUME NEW r \in Runs, Recover(r)
      PROVE  NothingLeft'
  <2>1. busy' = [busy EXCEPT ![r] = FALSE] /\ faults' = faults
    BY <1>3 DEF Recover
  <2>2. busy' = [x \in Runs |-> IF x = r THEN FALSE ELSE busy[x]]
    BY <2>1 DEF Ranges
  <2> QED
    BY <2>1, <2>2 DEF NothingLeft
<1>4. CASE Restart
  BY <1>2, <1>4 DEF Restart, NothingLeft
<1>5. ASSUME NEW t \in Tasks, WorkFails(t)
      PROVE  NothingLeft'
  BY <1>2, <1>5 DEF WorkFails, NothingLeft
<1>6. ASSUME NEW r \in Runs, \/ Submit(r) \/ Resume(r) \/ Decide(r) \/ Cancel(r) \/ Drive(r)
      PROVE  busy' = busy /\ faults' = faults
  BY <1>6 DEF Submit, Resume, Decide, Accept, Cancel, Drive, stored
<1>7. ASSUME NEW t \in Tasks, Loop(t)
      PROVE  busy' = busy /\ faults' = faults
  BY <1>7 DEF Loop, Acquire, Work, View, Look, Release, Remove, stored
<1>8. CASE UNCHANGED vars
  BY <1>1, <1>8 DEF vars, stored
<1> QED
  BY <1>1, <1>3, <1>4, <1>5, <1>6, <1>7, <1>8 DEF Next

\* The handlers add a call for the run they make ready, and App::drive turns
\* it into a loop or a wake-up.
LEMMA HandlersAttend ==
    ASSUME Ranges, Threads, NEW r \in Runs,
           Submit(r) \/ Resume(r) \/ Decide(r) \/ Cancel(r) \/ Drive(r),
           NEW x \in Runs, Wanted(x) => Coming(x)
    PROVE  Wanted(x)' => Coming(x)'
<1>1. CASE Submit(r) \/ Resume(r) \/ Decide(r)
  <2>1. /\ calls' = [calls EXCEPT ![r] = @ + 1]
        /\ active' = active /\ task' = task
        /\ \/ status' = [status EXCEPT ![r] = "queued"] \/ status' = status
           \/ status' = [status EXCEPT ![r] = "running"]
    BY <1>1 DEF Submit, Resume, Decide, Accept
  <2>2. calls'[r] = calls[r] + 1 /\ calls[r] \in Nat
    BY <2>1 DEF Ranges
  <2>3. x # r => calls'[x] = calls[x] /\ status'[x] = status[x]
    BY <2>1 DEF Ranges
  <2> QED
    BY <2>1, <2>2, <2>3 DEF Wanted, Coming, Served
<1>2. CASE Cancel(r)
  <2> DEFINE live == {s \in {r} \cup Children(r) :
                         status[s] \in {"queued", "running", "waiting"}}
  <2>1. calls' = calls /\ active' = active /\ task' = task
    BY <1>2 DEF Cancel
  <2>2. PICK unresolved :
           status' = [s \in Runs |-> IF s \in unresolved THEN "cancelling"
                                     ELSE IF s \in live THEN "ended" ELSE status[s]]
    BY <1>2 DEF Cancel
  <2> HIDE DEF live
  <2>3. Wanted(x)' => Wanted(x)
    BY <2>2 DEF Wanted
  <2>4. Coming(x) => Coming(x)'
    BY <2>1 DEF Coming, Served
  <2> QED
    BY <2>3, <2>4
<1>3. CASE Drive(r)
  <2>1. status' = status /\ calls' = [calls EXCEPT ![r] = @ - 1]
    BY <1>3 DEF Drive, stored
  <2>2. Wanted(x)' => Wanted(x)
    BY <2>1 DEF Wanted
  <2>3. CASE active[r] # "no"
    <3>1. active' = [active EXCEPT ![r] = "wake"] /\ task' = task
      BY <1>3, <2>3 DEF Drive
    <3>2. \/ active'[x] = "wake"
          \/ active'[x] = active[x] /\ calls'[x] = calls[x]
      BY <2>1, <3>1 DEF Ranges
    <3>3. Coming(x) => Coming(x)'
      BY <3>1, <3>2 DEF Coming, Served
    <3> QED
      BY <2>2, <3>3
  <2>4. CASE active[r] = "no"
    <3>1. PICK t \in Tasks :
               /\ task[t] = NoThread
               /\ task'[t] = [run |-> r, pc |-> "lock"]
               /\ \A u \in Tasks : u # t => task'[u] = task[u]
               /\ task' \in [Tasks -> Thread]
               /\ active'[r] = "yes"
               /\ \A y \in Runs : y # r => active'[y] = active[y]
               /\ active' \in [Runs -> {"no", "yes", "wake"}]
      <4>1. Spawn(r)
        BY <1>3, <2>4 DEF Drive
      <4> QED
        BY <2>4, <4>1, Spawned
    <3>2. Served(t, r)'
      BY <3>1 DEF Served
    <3>3. x # r => (Coming(x) => Coming(x)')
      <4> SUFFICES ASSUME x # r, Coming(x)
                   PROVE  Coming(x)'
        OBVIOUS
      <4>1. calls'[x] = calls[x] /\ active'[x] = active[x]
        BY <2>1, <3>1 DEF Ranges
      <4>2. ~Served(t, x)
        BY <3>1 DEF Served, NoThread
      <4>3. \A u \in Tasks : Served(u, x) => Served(u, x)'
        BY <3>1, <4>2 DEF Served
      <4> QED
        BY <4>1, <4>3 DEF Coming
    <3> QED
      BY <2>2, <3>2, <3>3 DEF Coming
  <2> QED
    BY <2>3, <2>4
<1> QED
  BY <1>1, <1>2, <1>3

\* A loop leaves its run only when it is not wanted any more, and otherwise
\* stays with it; its removal turns a wake-up into a call.
LEMMA LoopAttends ==
    ASSUME Ranges, Threads, NEW t \in Tasks, Loop(t), \A r \in Runs : busy[r] = FALSE,
           NEW x \in Runs, Wanted(x) => Coming(x)
    PROVE  Wanted(x)' => Coming(x)'
<1> DEFINE r == task[t].run
<1>0. SUFFICES ASSUME Wanted(x)'
               PROVE  Coming(x)'
  OBVIOUS
<1>1. CASE Remove(t)
  <2>1. /\ r \in Runs
        /\ \A u \in Tasks : u # t => task'[u] = task[u]
        /\ \A y \in Runs : active'[y] = IF y = r THEN "no" ELSE active[y]
    BY <1>1, RemoveKeepsThreads, Zenon
  <2>2. /\ status' = status /\ task[t].pc = "remove"
        /\ calls' = [calls EXCEPT ![r] = IF active[r] = "wake" THEN @ + 1 ELSE @]
    BY <1>1 DEF Remove, stored
  <2>3. calls'[x] = IF x = r /\ active[x] = "wake" THEN calls[x] + 1 ELSE calls[x]
    BY <2>2 DEF Ranges
  <2>4. calls[x] \in Nat
    BY DEF Ranges
  <2>5. \A u \in Tasks : Served(u, x) => Served(u, x)'
    BY <2>1, <2>2 DEF Served
  <2>6. Coming(x)
    BY <1>0, <2>2 DEF Wanted
  <2> QED
    BY <2>1, <2>3, <2>4, <2>5, <2>6 DEF Coming
<1>2. CASE Acquire(t) \/ Work(t) \/ View(t) \/ Look(t) \/ Release(t)
  <2>1. /\ active' = active /\ calls' = calls
        /\ task[t].pc \in {"lock", "tick", "view", "look", "release"}
    BY <1>2, LoopMoves
  <2>2. PICK pc \in {"tick", "view", "look", "release", "remove"} : Goto(t, pc)
    BY <1>2, LoopMoves
  <2>3. pc \in Places \ {"none"} /\ task[t].pc # "none"
    BY <2>1 DEF Places
  <2>4. /\ r \in Runs /\ task'[t] = [run |-> r, pc |-> pc]
        /\ \A u \in Tasks : u # t => task'[u] = task[u]
    BY <2>2, <2>3, Moves, Zenon
  <2>5. \A u \in Tasks : u # t /\ Served(u, x) => Served(u, x)'
    BY <2>4 DEF Served
  <2>6. \/ Served(t, x)' \/ ~Served(t, x)
    <3> SUFFICES ASSUME Served(t, x)
                 PROVE  task'[t].pc \in {"lock", "tick", "view", "look"}
      BY <2>4 DEF Served
    <3>1. x = r /\ task[t].pc \in {"lock", "tick", "view", "look"}
      BY DEF Served
    <3>2. CASE Acquire(t)
      BY <3>2, <2>4 DEF Acquire, Goto, Ranges, Thread
    <3>3. CASE Work(t)
      BY <3>3, <2>4 DEF Work, Goto, Ranges, Thread
    <3>4. CASE View(t)
      <4>1. status' = status
        BY <3>4 DEF View, stored
      <4>2. status[r] \notin {"ended", "waiting", "cancelling"}
        BY <1>0, <3>1, <4>1 DEF Wanted
      <4>3. Goto(t, "look")
        BY <3>4, <4>2 DEF View
      <4> QED
        BY <4>3, <2>4 DEF Goto, Ranges, Thread
    <3>5. CASE Look(t)
      <4>1. Goto(t, "tick")
        BY <2>4, <3>5 DEF Look
      <4> QED
        BY <4>1, <2>4 DEF Goto, Ranges, Thread
    <3>6. CASE Release(t)
      BY <3>1, <3>6 DEF Release
    <3> QED
      BY <1>2, <3>2, <3>3, <3>4, <3>5, <3>6
  <2>7. Wanted(x) => Coming(x)'
    BY <2>1, <2>5, <2>6 DEF Coming
  <2>8. CASE Work(t)
    <3>1. \/ x = r \/ status'[x] = status[x]
          \/ x \notin Roots /\ status'[x] # "running"
      BY <2>8, Worked, Zenon
    <3>2. x = r => Served(t, x)'
      <4>1. Goto(t, "view")
        BY <2>8 DEF Work
      <4> QED
        BY <4>1, <2>4 DEF Served, Goto, Ranges, Thread
    <3>3. status'[x] = status[x] => Wanted(x)
      BY <1>0 DEF Wanted
    <3>4. status'[x] = "running" \/ x \in Roots
      BY <1>0 DEF Wanted
    <3> QED
      BY <2>7, <3>1, <3>2, <3>3, <3>4 DEF Coming
  <2>9. CASE Acquire(t) \/ View(t) \/ Look(t) \/ Release(t)
    <3>1. status' = status
      BY <2>9 DEF Acquire, View, Look, Release, stored
    <3> QED
      BY <1>0, <2>7, <3>1 DEF Wanted
  <2> QED
    BY <1>2, <2>8, <2>9
<1> QED
  BY <1>1, <1>2 DEF Loop

LEMMA AttendedStep ==
    ASSUME Ranges, Threads, NothingLeft, Attended, [Next]_vars
    PROVE  Attended'
<1>0. Attended <=> (faults = 0 => \A x \in Runs : Wanted(x) => Coming(x))
  BY DEF Attended, Wanted, Coming, Served
<1>1. Attended' <=> (faults' = 0 => \A x \in Runs : Wanted(x)' => Coming(x)')
  BY DEF Attended, Wanted, Coming, Served
<1>2. SUFFICES ASSUME faults' = 0, NEW x \in Runs
               PROVE  Wanted(x)' => Coming(x)'
  BY <1>1
<1>3. faults \in Nat
  BY DEF Ranges
<1>4. ~Restart /\ \A t \in Tasks : ~WorkFails(t)
  BY <1>2, <1>3 DEF Restart, WorkFails
<1>5. faults' = faults
  <2>1. ASSUME NEW r \in Runs, \/ Submit(r) \/ Resume(r) \/ Decide(r) \/ Cancel(r) \/ Drive(r)
                               \/ Recover(r)
        PROVE  faults' = faults
    BY <2>1 DEF Submit, Resume, Decide, Accept, Cancel, Drive, Recover
  <2>2. ASSUME NEW t \in Tasks, Loop(t)
        PROVE  faults' = faults
    BY <2>2 DEF Loop, Acquire, Work, View, Look, Release, Remove
  <2> QED
    BY <1>4, <2>1, <2>2 DEF Next, vars
<1>6. /\ \A r \in Runs : busy[r] = FALSE
      /\ Wanted(x) => Coming(x)
  BY <1>0, <1>2, <1>5 DEF NothingLeft
<1>7. ASSUME NEW r \in Runs, \/ Submit(r) \/ Resume(r) \/ Decide(r) \/ Cancel(r) \/ Drive(r)
      PROVE  Wanted(x)' => Coming(x)'
  BY <1>6, <1>7, HandlersAttend
<1>8. ASSUME NEW t \in Tasks, Loop(t)
      PROVE  Wanted(x)' => Coming(x)'
  BY <1>6, <1>8, LoopAttends
<1>9. ASSUME NEW r \in Runs, Recover(r)
      PROVE  FALSE
  BY <1>6, <1>9 DEF Recover
<1>10. CASE UNCHANGED vars
  <2>1. UNCHANGED <<status, calls, active, task>>
    BY <1>10 DEF vars, stored
  <2> QED
    BY <1>6, <2>1 DEF Wanted, Coming, Served
<1> QED
  BY <1>4, <1>7, <1>8, <1>9, <1>10 DEF Next

(***************************************************************************)
(* The theorems.                                                           *)
(***************************************************************************)
LEMMA DriveInitially == Init => DriveInv /\ OneTicks
<1> SUFFICES ASSUME Init
             PROVE  DriveInv /\ OneTicks
  OBVIOUS
<1>1. NoThread \in Thread /\ NoThread.run = NoRun /\ NoThread.pc = "none"
  BY DEF NoThread, Thread, Places
<1>2. \A t \in Tasks : task[t] = NoThread
  BY DEF Init
<1>3. Ranges
  BY <1>1, DriveBoundsAssumption DEF Init, Ranges, Statuses
<1>4. Threads
  BY <1>1, <1>2, TreeAssumption DEF Init, Threads
<1>5. Accounted /\ NothingLeft /\ Attended
  BY DEF Init, Accounted, NothingLeft, Attended
<1>6. OneTicks
  BY <1>1, <1>2 DEF OneTicks
<1> QED
  BY <1>3, <1>4, <1>5, <1>6 DEF DriveInv

LEMMA DriveInvariant == Spec => []DriveInv
<1>1. Init => DriveInv
  BY DriveInitially
<1>2. DriveInv /\ [Next]_vars => DriveInv'
  BY RangesStep, ThreadsStep, AccountedStep, NothingLeftStep, AttendedStep DEF DriveInv
<1> QED
  BY <1>1, <1>2, PTL DEF Spec

\* The stored and the volatile state keep their types; the calls of App::drive
\* under way for a run are bounded by the requests that made them.
THEOREM DriveTyping == Spec => []TypeOK
<1>1. DriveInv => TypeOK
  <2> SUFFICES ASSUME DriveInv
               PROVE  TypeOK
    OBVIOUS
  <2>1. calls = [r \in Runs |-> calls[r]]
    BY DEF DriveInv, Ranges
  <2>2. ASSUME NEW r \in Runs
        PROVE  calls[r] \in 0..2 * MaxRequests
    <3>1. /\ calls[r] \in Nat /\ requests \in 0..MaxRequests
          /\ calls[r] + (IF active[r] = "wake" THEN 1 ELSE 0) <= requests
      BY DEF DriveInv, Ranges, Accounted
    <3> QED
      BY <3>1, DriveBoundsAssumption
  <2>3. calls \in [Runs -> 0..2 * MaxRequests]
    BY <2>1, <2>2
  <2> QED
    BY <2>3 DEF DriveInv, Ranges, TypeOK
<1> QED
  BY <1>1, DriveInvariant, PTL

\* App::drive starts no second loop for a run that has one, and no entry of
\* App.active outlives its loop.
THEOREM OneLoop == Spec => []OneLoopPerRun
<1>1. DriveInv => OneLoopPerRun
  <2> SUFFICES ASSUME DriveInv, NEW r \in Runs
               PROVE  Cardinality({t \in Tasks : task[t].run = r})
                        = IF active[r] = "no" THEN 0 ELSE 1
    BY DEF OneLoopPerRun
  <2>1. Threads /\ r # NoRun
    BY TreeAssumption DEF DriveInv
  <2>2. CASE active[r] = "no"
    <3>1. {t \in Tasks : task[t].run = r} = {}
      BY <2>1, <2>2 DEF Threads
    <3> QED
      BY <2>2, <3>1, FS_EmptySet
  <2>3. CASE active[r] # "no"
    <3>1. PICK t \in Tasks : task[t].run = r
      BY <2>1, <2>3 DEF Threads
    <3>2. {u \in Tasks : task[u].run = r} = {t}
      BY <2>1, <3>1 DEF Threads
    <3> QED
      BY <2>3, <3>2, FS_Singleton
  <2> QED
    BY <2>2, <2>3
<1> QED
  BY <1>1, DriveInvariant, PTL

\* As long as nothing failed, a run that can go on has a loop that will see
\* it, or a call of App::drive or a wake-up on its way.
THEOREM NoLostWakeup == Spec => []Attended
<1>1. DriveInv => Attended
  BY DEF DriveInv
<1> QED
  BY <1>1, DriveInvariant, PTL

\* The loops of all the runs take turns: only the thread that holds App.driver
\* ticks, looks at what it left, or gives the driver back.
THEOREM TurnsAreTaken == Spec => []OneTicks
<1>1. Init => OneTicks
  BY DriveInitially
<1>2. DriveInv /\ OneTicks /\ [Next]_vars => OneTicks'
  <2> SUFFICES ASSUME Ranges, Threads, OneTicks, [Next]_vars
               PROVE  OneTicks'
    BY DEF DriveInv
  <2>1. CASE task' = task /\ driver' = driver
    BY <2>1 DEF OneTicks
  <2>2. ASSUME NEW r \in Runs, Drive(r)
        PROVE  OneTicks'
    <3>1. driver' = driver
      BY <2>2 DEF Drive
    <3>2. CASE active[r] # "no"
      BY <2>1, <2>2, <3>1, <3>2 DEF Drive
    <3>3. CASE active[r] = "no"
      <4>1. PICK t \in Tasks : /\ task'[t] = [run |-> r, pc |-> "lock"]
                               /\ \A u \in Tasks : u # t => task'[u] = task[u]
        BY <2>2, <3>3, Spawned, Zenon DEF Drive
      <4> QED
        BY <3>1, <4>1 DEF OneTicks
    <3> QED
      BY <3>2, <3>3
  <2>3. ASSUME NEW t \in Tasks, \/ Acquire(t) \/ Work(t) \/ View(t) \/ Look(t) \/ Release(t)
                                \/ WorkFails(t)
        PROVE  OneTicks'
    <3>1. task[t].pc \in {"lock", "tick", "view", "look", "release"}
      BY <2>3, LoopMoves
    <3>2. PICK pc \in {"tick", "view", "look", "release", "remove"} : Goto(t, pc)
      BY <2>3, LoopMoves
    <3>3. /\ task'[t] = [run |-> task[t].run, pc |-> pc]
          /\ \A u \in Tasks : u # t => task'[u] = task[u]
      <4>1. pc \in Places \ {"none"} /\ task[t].pc # "none"
        BY <3>1 DEF Places
      <4> QED
        BY <3>2, <4>1, Moves, Zenon
    <3>4. \A u \in Tasks : u # t =>
             (task'[u].pc \in {"tick", "view", "look", "release"} => driver = u)
      BY <3>3 DEF OneTicks
    <3>5. CASE Acquire(t)
      <4>1. driver = NoTask /\ driver' = t
        BY <3>5 DEF Acquire
      <4>2. \A u \in Tasks : u # t => ~(task'[u].pc \in {"tick", "view", "look", "release"})
        BY <3>4, <4>1, TasksAssumption
      <4> QED
        BY <4>1, <4>2 DEF OneTicks
    <3>6. CASE Release(t)
      <4>1. driver' = NoTask /\ Goto(t, "remove") /\ task[t].pc = "release"
        BY <3>6 DEF Release
      <4>2. task'[t].pc = "remove"
        BY <3>3, <4>1 DEF Goto, Ranges, Thread
      <4>3. driver = t
        BY <4>1 DEF OneTicks
      <4> QED
        BY <3>4, <4>2, <4>3 DEF OneTicks
    <3>7. CASE Work(t) \/ View(t) \/ Look(t) \/ WorkFails(t)
      <4>1. driver' = driver /\ task[t].pc \in {"tick", "view", "look"}
        BY <3>7 DEF Work, View, Look, WorkFails
      <4>2. driver = t
        BY <4>1 DEF OneTicks
      <4> QED
        BY <3>4, <4>1, <4>2 DEF OneTicks
    <3> QED
      BY <2>3, <3>5, <3>6, <3>7
  <2>4. ASSUME NEW t \in Tasks, Remove(t)
        PROVE  OneTicks'
    <3>1. driver' = driver /\ task' = [task EXCEPT ![t] = NoThread]
      BY <2>4 DEF Remove
    <3>2. task'[t].pc = "none" /\ \A u \in Tasks : u # t => task'[u] = task[u]
      BY <3>1 DEF Ranges, NoThread
    <3> QED
      BY <3>1, <3>2 DEF OneTicks
  <2>5. CASE Restart
    <3>1. \A t \in Tasks : task'[t].pc = "none"
      BY <2>5 DEF Restart, NoThread
    <3> QED
      BY <3>1 DEF OneTicks
  <2>6. ASSUME NEW r \in Runs, Submit(r) \/ Resume(r) \/ Decide(r) \/ Cancel(r) \/ Recover(r)
        PROVE  task' = task /\ driver' = driver
    BY <2>6 DEF Submit, Resume, Decide, Cancel, Recover, Accept
  <2>7. CASE UNCHANGED vars
    BY <2>1, <2>7 DEF vars
  <2> QED
    BY <2>1, <2>2, <2>3, <2>4, <2>5, <2>6, <2>7 DEF Next, Loop
<1> QED
  BY <1>1, <1>2, DriveInvariant, PTL DEF Spec
=============================================================================
