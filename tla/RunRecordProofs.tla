--------------------------- MODULE RunRecordProofs ---------------------------
(***************************************************************************)
(* What is proved of RunRecord, for any runs and drivers, any sizes of     *)
(* windows and pages, and any number of memories, deaths and new starts:   *)
(* every model request of a run carries the same evidence, a client that   *)
(* follows a run sees each of its events once and in order, what was       *)
(* forgotten or corrected is never recalled again, and what is archived of *)
(* a conversation can be read back.                                        *)
(*                                                                         *)
(* None is inductive.  The first needs that a driver which has passed      *)
(* the preparation of the memory finds a snapshot, and that its plan holds *)
(* that snapshot.  The second needs that a run which has ended logs        *)
(* nothing more, although drivers that read it before are still at work:   *)
(* ending it moved its revision on.  The third needs that a record which   *)
(* was corrected and its correction name each other, so that the search    *)
(* finds a record live only as long as the store does.  The fourth needs   *)
(* that a driver which prepared a request for the run as it is plans to    *)
(* archive the oldest exchanges and to store every link to them.           *)
(***************************************************************************)
EXTENDS RunRecord, SequenceTheorems, FiniteSetTheorems,
        WellFoundedInduction, TLAPS

(***************************************************************************)
(* The shape of the state the proofs depend on.                            *)
(***************************************************************************)
Fields(x) == DOMAIN x = {"pc", "run", "recalled", "revision", "plan"}

DriverRecords ==
    /\ driver = [d \in Drivers |-> driver[d]]
    /\ \A d \in Drivers :
          /\ Fields(driver[d])
          /\ driver[d].pc \in {"idle", "recalled", "ready", "prepared"}
          /\ driver[d].pc # "idle" => driver[d].run \in Runs

\* A driver past the preparation finds a snapshot, and plans with it.
UsesSnapshot(d) ==
    /\ driver[d].pc \in {"ready", "prepared"} => driver[d].run \in DOMAIN snapshots
    /\ driver[d].pc = "prepared" /\ driver[d].plan.kind = "ask"
          => driver[d].plan.evidence = snapshots[driver[d].run]

\* The evidence of a run that asked its model is its snapshot.
AskedSnapshot ==
    /\ asked = [r \in Runs |-> asked[r]]
    /\ \A r \in Runs : asked[r] # {} => r \in DOMAIN snapshots /\ asked[r] = {snapshots[r]}

EvidenceInv ==
    /\ DriverRecords
    /\ AskedSnapshot
    /\ \A d \in Drivers : UsesSnapshot(d)

\* A plan to ask carries the evidence of the run.
LEMMA PlanCarriesEvidence ==
    ASSUME NEW r, Plan(r).kind = "ask"
    PROVE  Plan(r).evidence = snapshots[r]
BY DEF Plan

LEMMA EvidenceInit == Init => EvidenceInv
BY DEF Init, EvidenceInv, AskedSnapshot, UsesSnapshot, DriverRecords, Fields, Free, NoPlan

\* A driver that becomes free, or whose program counter moves.
LEMMA DriverFree ==
    ASSUME NEW d \in Drivers, DriverRecords, driver' = [driver EXCEPT ![d] = Free]
    PROVE  /\ DriverRecords'
           /\ driver'[d].pc = "idle"
           /\ \A e \in Drivers : e # d => driver'[e] = driver[e]
<1>1. /\ driver' = [e \in Drivers |-> driver'[e]]
      /\ driver'[d] = Free
      /\ \A e \in Drivers : e # d => driver'[e] = driver[e]
  BY DEF DriverRecords
<1>2. Fields(Free) /\ Free.pc = "idle"
  BY DEF Fields, Free
<1> QED
  BY <1>1, <1>2 DEF DriverRecords

\* A driver whose record is replaced by another record.
LEMMA DriverMoves ==
    ASSUME NEW d \in Drivers, NEW next, DriverRecords, Fields(next),
           next.pc \in {"idle", "recalled", "ready", "prepared"},
           next.pc # "idle" => next.run \in Runs,
           driver' = [driver EXCEPT ![d] = next]
    PROVE  /\ DriverRecords'
           /\ driver'[d] = next
           /\ \A e \in Drivers : e # d => driver'[e] = driver[e]
<1>1. /\ driver' = [e \in Drivers |-> driver'[e]]
      /\ driver'[d] = next
      /\ \A e \in Drivers : e # d => driver'[e] = driver[e]
  BY DEF DriverRecords
<1> QED
  BY <1>1 DEF DriverRecords

\* Taking the snapshot leaves those there are, and makes one for the run.
LEMMA SnapshotKept ==
    ASSUME NEW d \in Drivers, TakeSnapshot(d)
    PROVE  /\ Mine(d) \in DOMAIN snapshots'
           /\ \A r \in DOMAIN snapshots : r \in DOMAIN snapshots' /\ snapshots'[r] = snapshots[r]
<1>1. CASE Mine(d) \in DOMAIN snapshots /\ UNCHANGED snapshots
  BY <1>1
<1>2. ASSUME Mine(d) \notin DOMAIN snapshots,
             NEW kept,
             snapshots' = [x \in DOMAIN snapshots \cup {Mine(d)} |->
                              IF x = Mine(d) THEN kept ELSE snapshots[x]]
      PROVE  /\ Mine(d) \in DOMAIN snapshots'
             /\ \A r \in DOMAIN snapshots :
                   r \in DOMAIN snapshots' /\ snapshots'[r] = snapshots[r]
  BY <1>2
<1> QED
  BY <1>1, <1>2 DEF TakeSnapshot

\* So a driver that moves disturbs neither the other drivers nor the evidence.
LEMMA OneDriverMoves ==
    ASSUME NEW d \in Drivers, EvidenceInv, DriverRecords', UsesSnapshot(d)', AskedSnapshot',
           \A e \in Drivers : e # d => driver'[e] = driver[e],
           \A r \in DOMAIN snapshots : r \in DOMAIN snapshots' /\ snapshots'[r] = snapshots[r]
    PROVE  EvidenceInv'
<1>1. ASSUME NEW e \in Drivers, e # d PROVE UsesSnapshot(e)'
  BY <1>1 DEF EvidenceInv, UsesSnapshot
<1> QED
  BY <1>1 DEF EvidenceInv

LEMMA SnapshotsGrow ==
    ASSUME AskedSnapshot, UNCHANGED asked,
           \A r \in DOMAIN snapshots : r \in DOMAIN snapshots' /\ snapshots'[r] = snapshots[r]
    PROVE  AskedSnapshot'
BY DEF AskedSnapshot

LEMMA EvidenceStep == EvidenceInv /\ [Next]_vars => EvidenceInv'
<1> SUFFICES ASSUME EvidenceInv, [Next]_vars PROVE EvidenceInv'
  OBVIOUS
<1>0. DriverRecords
  BY DEF EvidenceInv
<1>1. CASE UNCHANGED <<driver, snapshots, asked>>
  BY <1>1 DEF EvidenceInv, DriverRecords, Fields, UsesSnapshot, AskedSnapshot
<1>2. ASSUME NEW d \in Drivers, NEW r \in Runs, StartTick(d, r) PROVE EvidenceInv'
  <2>1. UNCHANGED <<snapshots, asked>>
    BY <1>2 DEF StartTick, recordVars, historyVars
  <2>2. CASE /\ r \in DOMAIN snapshots
             /\ driver' = [driver EXCEPT ![d] = [Free EXCEPT !.pc = "ready", !.run = r]]
    <3> DEFINE next == [Free EXCEPT !.pc = "ready", !.run = r]
    <3>1. Fields(next) /\ next.pc = "ready" /\ next.run = r
      BY DEF Free, Fields
    <3>2. driver' = [driver EXCEPT ![d] = next]
      BY <2>2
    <3> HIDE DEF next
    <3>3. /\ DriverRecords'
          /\ driver'[d] = next
          /\ \A e \in Drivers : e # d => driver'[e] = driver[e]
      BY <1>0, <3>1, <3>2, DriverMoves
    <3>4. UsesSnapshot(d)'
      BY <2>1, <2>2, <3>1, <3>3 DEF UsesSnapshot
    <3> QED
      BY <2>1, <3>3, <3>4, OneDriverMoves, SnapshotsGrow DEF EvidenceInv
  <2>3. ASSUME NEW found,
               driver' = [driver EXCEPT ![d] = [Free EXCEPT !.pc = "recalled", !.run = r,
                                                            !.recalled = found]]
        PROVE  EvidenceInv'
    <3> DEFINE next == [Free EXCEPT !.pc = "recalled", !.run = r, !.recalled = found]
    <3>1. Fields(next) /\ next.pc = "recalled" /\ next.run = r
      BY DEF Free, Fields
    <3>2. driver' = [driver EXCEPT ![d] = next]
      BY <2>3
    <3> HIDE DEF next
    <3>3. /\ DriverRecords'
          /\ driver'[d] = next
          /\ \A e \in Drivers : e # d => driver'[e] = driver[e]
      BY <1>0, <3>1, <3>2, DriverMoves
    <3>4. UsesSnapshot(d)'
      BY <3>1, <3>3 DEF UsesSnapshot
    <3> QED
      BY <2>1, <3>3, <3>4, OneDriverMoves, SnapshotsGrow DEF EvidenceInv
  <2> QED
    BY <1>2, <2>2, <2>3 DEF StartTick
<1>3. ASSUME NEW d \in Drivers, TakeSnapshot(d) PROVE EvidenceInv'
  <2> DEFINE next == [driver[d] EXCEPT !.pc = "ready", !.recalled = {}]
  <2>1. Doing(d, "recalled") /\ UNCHANGED asked /\ driver' = [driver EXCEPT ![d] = next]
    BY <1>3 DEF TakeSnapshot, historyVars
  <2>2. Fields(next) /\ next.pc = "ready" /\ next.run = Mine(d) /\ Mine(d) \in Runs
    BY <1>0, <2>1 DEF DriverRecords, Fields, Doing, Mine
  <2> HIDE DEF next
  <2>3. /\ DriverRecords'
        /\ driver'[d] = next
        /\ \A e \in Drivers : e # d => driver'[e] = driver[e]
    BY <1>0, <2>1, <2>2, DriverMoves
  <2>4. UsesSnapshot(d)'
    BY <1>3, <2>2, <2>3, SnapshotKept DEF UsesSnapshot
  <2> QED
    BY <1>3, <2>1, <2>3, <2>4, SnapshotKept, OneDriverMoves, SnapshotsGrow DEF EvidenceInv
<1>4. ASSUME NEW d \in Drivers, Prepare(d) PROVE EvidenceInv'
  <2>1. Doing(d, "ready") /\ UNCHANGED <<snapshots, asked>>
    BY <1>4 DEF Prepare, recordVars, historyVars
  <2>2. CASE driver' = [driver EXCEPT ![d] = Free]
    BY <1>0, <2>1, <2>2, DriverFree, OneDriverMoves, SnapshotsGrow DEF EvidenceInv, UsesSnapshot
  <2>3. CASE driver' = [driver EXCEPT ![d].pc = "prepared",
                                      ![d].revision = run[Mine(d)].revision,
                                      ![d].plan = Plan(Mine(d))]
    <3> DEFINE next == [driver[d] EXCEPT !.pc = "prepared",
                                         !.revision = run[Mine(d)].revision,
                                         !.plan = Plan(Mine(d))]
    <3>1. driver' = [driver EXCEPT ![d] = next]
      BY <1>0, <2>3 DEF DriverRecords
    <3>2. /\ Fields(next) /\ next.pc = "prepared" /\ next.run = Mine(d) /\ Mine(d) \in Runs
          /\ next.plan = Plan(Mine(d))
      BY <1>0, <2>1 DEF DriverRecords, Fields, Doing, Mine
    <3> HIDE DEF next
    <3>3. /\ DriverRecords'
          /\ driver'[d] = next
          /\ \A e \in Drivers : e # d => driver'[e] = driver[e]
      BY <1>0, <3>1, <3>2, DriverMoves
    <3>4. Mine(d) \in DOMAIN snapshots
      BY <2>1 DEF EvidenceInv, UsesSnapshot, Doing, Mine
    <3>5. UsesSnapshot(d)'
      BY <2>1, <3>2, <3>3, <3>4, PlanCarriesEvidence DEF UsesSnapshot
    <3> QED
      BY <2>1, <3>3, <3>5, OneDriverMoves, SnapshotsGrow DEF EvidenceInv
  <2> QED
    BY <1>4, <2>2, <2>3 DEF Prepare
<1>5. ASSUME NEW d \in Drivers, Commit(d) PROVE EvidenceInv'
  <2>1. Doing(d, "prepared") /\ UNCHANGED snapshots
    BY <1>5 DEF Commit
  <2>2. /\ DriverRecords'
        /\ driver'[d].pc = "idle"
        /\ \A e \in Drivers : e # d => driver'[e] = driver[e]
    BY <1>0, <1>5, DriverFree DEF Commit
  <2>3. CASE UNCHANGED asked
    BY <2>1, <2>2, <2>3, OneDriverMoves, SnapshotsGrow DEF EvidenceInv, UsesSnapshot
  <2>4. CASE CommitRequest(d)
    <3>1. /\ driver[d].plan.kind = "ask"
          /\ asked' = [asked EXCEPT ![Mine(d)] = @ \cup {driver[d].plan.evidence}]
      BY <2>4 DEF CommitRequest
    <3>2. /\ Mine(d) \in Runs /\ Mine(d) \in DOMAIN snapshots
          /\ driver[d].plan.evidence = snapshots[Mine(d)]
      BY <1>0, <2>1, <3>1 DEF EvidenceInv, UsesSnapshot, DriverRecords, Doing, Mine
    <3>3. /\ asked' = [r \in Runs |-> asked'[r]]
          /\ asked'[Mine(d)] = {snapshots[Mine(d)]}
          /\ \A r \in Runs : r # Mine(d) => asked'[r] = asked[r]
      BY <3>1, <3>2 DEF EvidenceInv, AskedSnapshot
    <3>4. AskedSnapshot'
      BY <2>1, <3>2, <3>3 DEF EvidenceInv, AskedSnapshot
    <3> QED
      BY <2>1, <2>2, <3>4, OneDriverMoves DEF EvidenceInv, UsesSnapshot
  <2> QED
    BY <1>5, <2>3, <2>4 DEF Commit, CommitOutput, CommitFailure
<1>6. ASSUME NEW d \in Drivers, DriverDies(d) PROVE EvidenceInv'
  <2>1. UNCHANGED <<snapshots, asked>> /\ driver' = [driver EXCEPT ![d] = Free]
    BY <1>6 DEF DriverDies, recordVars, historyVars
  <2> QED
    BY <1>0, <2>1, DriverFree, OneDriverMoves, SnapshotsGrow DEF EvidenceInv, UsesSnapshot
<1>7. ASSUME NEW key, NEW old, Retain(key, old) PROVE UNCHANGED <<driver, snapshots, asked>>
  BY <1>7 DEF Retain, historyVars
<1>8. ASSUME NEW i, Delete(i) PROVE UNCHANGED <<driver, snapshots, asked>>
  BY <1>8 DEF Delete, historyVars
<1>9. ASSUME NEW r \in Runs, Submit(r) \/ ModelAnswers(r) \/ Cancel(r)
      PROVE  UNCHANGED <<driver, snapshots, asked>>
  BY <1>9 DEF Submit, ModelAnswers, Cancel, historyVars
<1>10. ASSUME Follow \/ ReadStatus \/ ReadPage \/ PrintEvent \/ Report \/ FetchFails \/ ClientDies
       PROVE  UNCHANGED <<driver, snapshots, asked>>
  BY <1>10 DEF Follow, ReadStatus, ReadPage, PrintEvent, Report, FetchFails, ClientDies,
               recordVars, historyVars
<1>11. UNCHANGED vars => UNCHANGED <<driver, snapshots, asked>>
  BY DEF vars, recordVars, historyVars
<1> QED
  BY <1>1, <1>2, <1>3, <1>4, <1>5, <1>6, <1>7, <1>8, <1>9, <1>10, <1>11 DEF Next, MemoryTool

\* Every model request of a run carries the same evidence, however its drivers
\* race or die, and whatever is retained or deleted meanwhile.
THEOREM OneEvidence == Spec => []SameEvidence
<1>1. EvidenceInv => SameEvidence
  BY DEF EvidenceInv, AskedSnapshot, SameEvidence
<1> QED
  BY <1>1, EvidenceInit, EvidenceStep, PTL DEF Spec

(***************************************************************************)
(* The events of a run, and who follows them.                              *)
(***************************************************************************)
RunFields == {"status", "revision", "next", "told", "history", "archive"}

EventTypes == {"run_created", "operation_requested", "run_finished"}

RunRecords ==
    /\ run = [r \in Runs |-> run[r]]
    /\ \A r \in Runs : DOMAIN run[r] = RunFields /\ run[r].revision \in Nat
    /\ events \in [Runs -> Seq(EventTypes)]

\* A driver that prepared for the run as it is prepared for one that goes on.
PreparedGoesOn(d) ==
    driver[d].pc = "prepared" =>
        /\ driver[d].revision \in Nat
        /\ driver[d].revision <= run[driver[d].run].revision
        /\ driver[d].revision = run[driver[d].run].revision => ~Terminal(driver[d].run)

RecordInv ==
    /\ RunRecords
    /\ \A d \in Drivers : PreparedGoesOn(d)

\* What a step may do to a run: one that ended stays as it is, and ending one
\* moves its revision on.
RunGoesOn(r) ==
    /\ Terminal(r) => Terminal(r)' /\ events'[r] = events[r]
    /\ Len(events[r]) <= Len(events'[r])
    /\ run[r].revision <= run'[r].revision
    /\ run'[r].revision = run[r].revision => (Terminal(r)' <=> Terminal(r))

RunsGoOn == RunRecords' /\ \A r \in Runs : RunGoesOn(r)

LEMMA RecordInit == Init => RecordInv
<1> SUFFICES ASSUME Init PROVE RecordInv
  OBVIOUS
<1>1. RunRecords
  BY DEF Init, RunRecords, RunFields
<1>2. \A d \in Drivers : PreparedGoesOn(d)
  BY DEF Init, Free, PreparedGoesOn
<1> QED
  BY <1>1, <1>2 DEF RecordInv

\* Nothing happens to the runs and their events.
LEMMA RunsRest ==
    ASSUME RunRecords, UNCHANGED <<run, events>>
    PROVE  RunsGoOn
BY DEF RunRecords, RunsGoOn, RunGoesOn, Terminal

\* One run changes and logs an event, and it had not ended.
LEMMA RunLogs ==
    ASSUME NEW r \in Runs, NEW next, NEW type \in EventTypes, RunRecords, ~Terminal(r),
           run' = [run EXCEPT ![r] = next],
           DOMAIN next = RunFields,
           next.revision \in Nat,
           \/ next.revision = run[r].revision + 1
           \/ next.revision = run[r].revision /\ next.status \notin Done,
           Log(r, type)
    PROVE  RunsGoOn
<1>1. /\ run' = [x \in Runs |-> run'[x]]
      /\ run'[r] = next
      /\ \A x \in Runs : x # r => run'[x] = run[x]
  BY DEF RunRecords
<1>2. /\ events' \in [Runs -> Seq(EventTypes)]
      /\ Len(events'[r]) = Len(events[r]) + 1
      /\ \A x \in Runs : x # r => events'[x] = events[x]
  BY DEF RunRecords, Log
<1>3. Len(events[r]) \in Nat
  BY DEF RunRecords
<1>4. RunGoesOn(r)
  BY <1>1, <1>2, <1>3 DEF RunRecords, RunGoesOn, Terminal
<1>5. ASSUME NEW x \in Runs, x # r PROVE RunGoesOn(x)
  BY <1>1, <1>2, <1>5 DEF RunRecords, RunGoesOn, Terminal
<1> QED
  BY <1>1, <1>2, <1>4, <1>5 DEF RunRecords, RunsGoOn

\* The commit of a driver finds a run that goes on.
LEMMA CommitGoesOn ==
    ASSUME NEW d \in Drivers, EvidenceInv, RecordInv, Commit(d)
    PROVE  RunsGoOn
<1> DEFINE r == Mine(d)
<1>1. /\ RunRecords
      /\ Doing(d, "prepared")
      /\ r \in Runs
      /\ DOMAIN run[r] = RunFields
      /\ run[r].revision \in Nat
  BY DEF Commit, RecordInv, RunRecords, EvidenceInv, DriverRecords, Doing, Mine
<1>2. CASE UNCHANGED <<run, events>>
  BY <1>1, <1>2, RunsRest
<1>3. ASSUME Current(d) PROVE ~Terminal(r)
  BY <1>1, <1>3 DEF RecordInv, PreparedGoesOn, Current, Doing, Mine
<1>4. CASE Current(d) /\ CommitRequest(d)
  <2> DEFINE next == [run[r] EXCEPT !.history = driver[d].plan.history,
                                    !.archive = driver[d].plan.archive,
                                    !.next = "calling", !.revision = @ + 1]
  <2>1. run' = [run EXCEPT ![r] = next] /\ Log(r, "operation_requested")
    BY <1>4 DEF CommitRequest
  <2>2. /\ DOMAIN next = RunFields /\ next.revision = run[r].revision + 1
        /\ next.revision \in Nat
    BY <1>1 DEF RunFields
  <2> HIDE DEF next, r
  <2> QED
    BY <1>1, <1>3, <1>4, <2>1, <2>2, RunLogs DEF EventTypes
<1>5. CASE Current(d) /\ CommitOutput(d)
  <2> DEFINE next == [run[r] EXCEPT !.status = "completed", !.revision = @ + 1]
  <2>1. run' = [run EXCEPT ![r] = next] /\ Log(r, "run_finished")
    BY <1>5 DEF CommitOutput
  <2>2. /\ DOMAIN next = RunFields /\ next.revision = run[r].revision + 1
        /\ next.revision \in Nat
    BY <1>1 DEF RunFields
  <2> HIDE DEF next, r
  <2> QED
    BY <1>1, <1>3, <1>5, <2>1, <2>2, RunLogs DEF EventTypes
<1>6. CASE Current(d) /\ CommitFailure(d)
  <2> DEFINE next == [run[r] EXCEPT !.status = "failed", !.revision = @ + 1]
  <2>1. run' = [run EXCEPT ![r] = next] /\ Log(r, "run_finished")
    BY <1>6 DEF CommitFailure
  <2>2. /\ DOMAIN next = RunFields /\ next.revision = run[r].revision + 1
        /\ next.revision \in Nat
    BY <1>1 DEF RunFields
  <2> HIDE DEF next, r
  <2> QED
    BY <1>1, <1>3, <1>6, <2>1, <2>2, RunLogs DEF EventTypes
<1> QED
  BY <1>2, <1>4, <1>5, <1>6 DEF Commit

\* Every step lets the runs go on.
LEMMA StepGoesOn == EvidenceInv /\ RecordInv /\ [Next]_vars => RunsGoOn
<1> SUFFICES ASSUME EvidenceInv, RecordInv, [Next]_vars PROVE RunsGoOn
  OBVIOUS
<1>0. RunRecords
  BY DEF RecordInv
<1>1. CASE UNCHANGED <<run, events>>
  BY <1>0, <1>1, RunsRest
<1>2. ASSUME NEW r \in Runs, Submit(r) PROVE RunsGoOn
  <2> DEFINE next == [run[r] EXCEPT !.status = "running"]
  <2>1. run' = [run EXCEPT ![r] = next] /\ Log(r, "run_created") /\ ~Terminal(r)
    BY <1>2 DEF Submit, Started, Terminal, Done
  <2>2. /\ DOMAIN next = RunFields /\ next.revision = run[r].revision
        /\ next.revision \in Nat /\ next.status \notin Done
    BY <1>0 DEF RunRecords, RunFields, Done
  <2> HIDE DEF next
  <2> QED
    BY <1>0, <2>1, <2>2, RunLogs DEF EventTypes
<1>3. ASSUME NEW r \in Runs, ModelAnswers(r) PROVE RunsGoOn
  <2>1. ASSUME NEW next, run' = [run EXCEPT ![r] = next], UNCHANGED events,
               DOMAIN next = RunFields, next.status = run[r].status,
               next.revision = run[r].revision
        PROVE  RunsGoOn
    <3>1. /\ run' = [x \in Runs |-> run'[x]]
          /\ run'[r] = next
          /\ \A x \in Runs : x # r => run'[x] = run[x]
      BY <1>0, <2>1 DEF RunRecords
    <3> QED
      BY <1>0, <2>1, <3>1 DEF RunRecords, RunsGoOn, RunGoesOn, Terminal
  <2>2. CASE run' = [run EXCEPT ![r].next = "final"]
    <3> DEFINE next == [run[r] EXCEPT !.next = "final"]
    <3>1. /\ run' = [run EXCEPT ![r] = next] /\ UNCHANGED events
          /\ DOMAIN next = RunFields /\ next.status = run[r].status
          /\ next.revision = run[r].revision
      BY <1>0, <1>3, <2>2 DEF ModelAnswers, RunRecords, RunFields
    <3> HIDE DEF next
    <3> QED
      BY <2>1, <3>1
  <2>3. ASSUME NEW told,
               run' = [run EXCEPT ![r].next = "results", ![r].told = told]
        PROVE  RunsGoOn
    <3> DEFINE next == [run[r] EXCEPT !.next = "results", !.told = told]
    <3>1. /\ run' = [run EXCEPT ![r] = next] /\ UNCHANGED events
          /\ DOMAIN next = RunFields /\ next.status = run[r].status
          /\ next.revision = run[r].revision
      BY <1>0, <1>3, <2>3 DEF ModelAnswers, RunRecords, RunFields
    <3> HIDE DEF next
    <3> QED
      BY <2>1, <3>1
  <2>4. CASE \E size \in Sizes :
                run' = [run EXCEPT ![r].next = "results",
                                   ![r].told = Append(@, [n |-> Len(@) + 1, size |-> size])]
    BY <2>3, <2>4
  <2> QED
    BY <1>3, <2>2, <2>4 DEF ModelAnswers
<1>4. ASSUME NEW r \in Runs, Cancel(r) PROVE RunsGoOn
  <2> DEFINE next == [run[r] EXCEPT !.status = "cancelled", !.revision = @ + 1]
  <2>1. run' = [run EXCEPT ![r] = next] /\ Log(r, "run_finished") /\ ~Terminal(r)
    BY <1>4 DEF Cancel
  <2>2. /\ DOMAIN next = RunFields /\ next.revision = run[r].revision + 1
        /\ next.revision \in Nat
    BY <1>0 DEF RunRecords, RunFields
  <2> HIDE DEF next
  <2> QED
    BY <1>0, <2>1, <2>2, RunLogs DEF EventTypes
<1>5. ASSUME NEW d \in Drivers, NEW r \in Runs, StartTick(d, r)
      PROVE  UNCHANGED <<run, events>>
  BY <1>5 DEF StartTick, recordVars
<1>6. ASSUME NEW d \in Drivers, TakeSnapshot(d) \/ Prepare(d) \/ DriverDies(d)
      PROVE  UNCHANGED <<run, events>>
  BY <1>6 DEF TakeSnapshot, Prepare, DriverDies, recordVars
<1>7. ASSUME NEW key, NEW old, Retain(key, old) PROVE UNCHANGED <<run, events>>
  BY <1>7 DEF Retain
<1>8. ASSUME NEW i, Delete(i) PROVE UNCHANGED <<run, events>>
  BY <1>8 DEF Delete
<1>9. ASSUME Follow \/ ReadStatus \/ ReadPage \/ PrintEvent \/ Report \/ FetchFails \/ ClientDies
      PROVE  UNCHANGED <<run, events>>
  BY <1>9 DEF Follow, ReadStatus, ReadPage, PrintEvent, Report, FetchFails, ClientDies, recordVars
<1>10. UNCHANGED vars => UNCHANGED <<run, events>>
  BY DEF vars, recordVars
<1> QED
  BY <1>1, <1>2, <1>3, <1>4, <1>5, <1>6, <1>7, <1>8, <1>9, <1>10, CommitGoesOn DEF Next, MemoryTool

\* A driver that prepared keeps that knowledge while the runs go on.
LEMMA RecordStep == EvidenceInv /\ RecordInv /\ [Next]_vars => RecordInv'
<1> SUFFICES ASSUME EvidenceInv, RecordInv, [Next]_vars PROVE RecordInv'
  OBVIOUS
<1>1. RunsGoOn
  BY StepGoesOn
<1>2. ASSUME NEW d \in Drivers, PreparedGoesOn(d), driver'[d] = driver[d] PROVE PreparedGoesOn(d)'
  <2> SUFFICES ASSUME driver[d].pc = "prepared" PROVE PreparedGoesOn(d)'
    BY <1>2 DEF PreparedGoesOn
  <2>1. driver[d].run \in Runs
    BY DEF EvidenceInv, DriverRecords
  <2>2. RunGoesOn(driver[d].run) /\ run'[driver[d].run].revision \in Nat
    BY <1>1, <2>1 DEF RunsGoOn, RunRecords
  <2>3. run[driver[d].run].revision \in Nat
    BY <2>1 DEF RecordInv, RunRecords
  <2> QED
    BY <1>2, <2>1, <2>2, <2>3 DEF PreparedGoesOn, RunGoesOn, Terminal
<1>3. ASSUME NEW d \in Drivers, driver'[d].pc # "prepared" PROVE PreparedGoesOn(d)'
  BY <1>3 DEF PreparedGoesOn
<1>4. ASSUME NEW d \in Drivers, \A e \in Drivers : e # d => driver'[e] = driver[e],
             PreparedGoesOn(d)'
      PROVE  RecordInv'
  BY <1>1, <1>2, <1>4 DEF RecordInv, RunsGoOn
<1>5. CASE UNCHANGED driver
  BY <1>1, <1>2, <1>5 DEF RecordInv, RunsGoOn
<1>6. DriverRecords
  BY DEF EvidenceInv
<1>7. ASSUME NEW d \in Drivers, driver' = [driver EXCEPT ![d] = Free] PROVE RecordInv'
  BY <1>3, <1>4, <1>6, <1>7, DriverFree
<1>8. ASSUME NEW d \in Drivers, NEW r \in Runs, StartTick(d, r) PROVE RecordInv'
  <2>1. \A e \in Drivers : e # d => driver'[e] = driver[e]
    BY <1>6, <1>8 DEF StartTick, DriverRecords
  <2>2. driver'[d].pc # "prepared"
    BY <1>6, <1>8 DEF StartTick, DriverRecords, Free
  <2> QED
    BY <1>3, <1>4, <2>1, <2>2
<1>9. ASSUME NEW d \in Drivers, TakeSnapshot(d) PROVE RecordInv'
  <2>1. driver' = [driver EXCEPT ![d] = [driver[d] EXCEPT !.pc = "ready", !.recalled = {}]]
    BY <1>9 DEF TakeSnapshot
  <2>2. driver'[d].pc # "prepared" /\ \A e \in Drivers : e # d => driver'[e] = driver[e]
    BY <1>6, <2>1 DEF DriverRecords, Fields
  <2> QED
    BY <1>3, <1>4, <2>2
<1>10. ASSUME NEW d \in Drivers, Prepare(d) PROVE RecordInv'
  <2>1. UNCHANGED run /\ Mine(d) \in Runs
    BY <1>6, <1>10 DEF Prepare, recordVars, DriverRecords, Doing, Mine
  <2>2. CASE ~Terminal(Mine(d)) /\ driver' = [driver EXCEPT ![d].pc = "prepared",
                                      ![d].revision = run[Mine(d)].revision,
                                      ![d].plan = Plan(Mine(d))]
    <3>1. \A e \in Drivers : e # d => driver'[e] = driver[e]
      BY <1>6, <2>2 DEF DriverRecords
    <3>2. driver'[d].revision = run[Mine(d)].revision /\ driver'[d].run = Mine(d)
      BY <1>6, <2>2 DEF DriverRecords, Fields, Mine
    <3>3. PreparedGoesOn(d)'
      BY <2>1, <2>2, <3>2 DEF PreparedGoesOn, RecordInv, RunRecords, Terminal
    <3> QED
      BY <1>4, <3>1, <3>3
  <2> QED
    BY <1>7, <1>10, <2>2 DEF Prepare
<1>11. ASSUME NEW d \in Drivers, Commit(d) \/ DriverDies(d)
       PROVE  driver' = [driver EXCEPT ![d] = Free]
  BY <1>11 DEF Commit, DriverDies
<1>12. ASSUME NEW key, NEW old, Retain(key, old) PROVE UNCHANGED driver
  BY <1>12 DEF Retain
<1>13. ASSUME NEW i, Delete(i) PROVE UNCHANGED driver
  BY <1>13 DEF Delete
<1>14. ASSUME NEW r \in Runs, Submit(r) \/ ModelAnswers(r) \/ Cancel(r) PROVE UNCHANGED driver
  BY <1>14 DEF Submit, ModelAnswers, Cancel
<1>15. ASSUME Follow \/ ReadStatus \/ ReadPage \/ PrintEvent \/ Report \/ FetchFails \/ ClientDies
       PROVE  UNCHANGED driver
  BY <1>15 DEF Follow, ReadStatus, ReadPage, PrintEvent, Report, FetchFails, ClientDies
<1>16. UNCHANGED vars => UNCHANGED driver
  BY DEF vars
<1> QED
  BY <1>5, <1>7, <1>8, <1>9, <1>10, <1>11, <1>12, <1>13, <1>14, <1>15, <1>16 DEF Next, MemoryTool

(***************************************************************************)
(* The client.                                                             *)
(***************************************************************************)
ClientFields == {"pc", "after", "page", "status", "attempt"}

\* What is printed counts the events from 1, and the page goes on from there.
Printed ==
    /\ screen \in Seq(Nat)
    /\ \A i \in 1..Len(screen) : screen[i] = i

OnePage(page) ==
    /\ page \in Seq(Nat)
    /\ \A i \in 1..Len(page) : page[i] = Len(screen) + i
    /\ Len(screen) + Len(page) <= Len(events[Followed])

\* A terminal status was read before the events that are being printed.
Verdict ==
    /\ client.pc \in {"drain", "report"} /\ client.status \in Done => Terminal(Followed)
    /\ client.pc = "report" /\ client.status \in Done => Len(screen) = Len(events[Followed])
    /\ client.pc = "done" => Terminal(Followed) /\ Len(screen) = Len(events[Followed])

ClientInv ==
    /\ DOMAIN client = ClientFields
    /\ Printed
    /\ OnePage(client.page)
    /\ client.after = Len(screen)
    /\ Verdict

FollowInv == EvidenceInv /\ RecordInv /\ ClientInv

LEMMA ClientInit == Init => ClientInv
<1> SUFFICES ASSUME Init PROVE ClientInv
  OBVIOUS
<1>1. screen = <<>> /\ Len(screen) = 0 /\ Len(events[Followed]) = 0
  BY RunRecordAssumption DEF Init
<1>2. /\ DOMAIN client = ClientFields /\ client.page = <<>> /\ client.after = 0
      /\ client.pc = "off"
  BY DEF Init, Starting, ClientFields
<1> QED
  BY <1>1, <1>2 DEF ClientInv, Printed, OnePage, Verdict

\* A page goes on where the printed events end.
LEMMA PageGoesOn ==
    ASSUME Printed, Len(screen) <= Len(events[Followed]), Len(events[Followed]) \in Nat
    PROVE  /\ OnePage(EventPage(Len(screen)))
           /\ EventPage(Len(screen)) = <<>> => Len(screen) = Len(events[Followed])
<1> DEFINE after == Len(screen)
           last == IF Len(events[Followed]) < after + PageSize
                   THEN Len(events[Followed]) ELSE after + PageSize
           page == [i \in 1..(last - after) |-> after + i]
<1>1. EventPage(after) = page
  BY DEF EventPage
<1>2. /\ after \in Nat /\ last \in Nat /\ after <= last /\ last <= Len(events[Followed])
      /\ last = after => after = Len(events[Followed])
  BY RunRecordAssumption DEF Printed
<1> HIDE DEF last, after
<1>3. last - after \in Nat
  BY <1>2
<1>4. page \in Seq(Nat) /\ Len(page) = last - after
  BY <1>2, <1>3
<1>5. \A i \in 1..Len(page) : page[i] = after + i
  BY <1>4
<1>6. page = <<>> => last = after
  BY <1>2, <1>4
<1> HIDE DEF page
<1>7. after = Len(screen)
  BY DEF after
<1> QED
  BY <1>1, <1>2, <1>4, <1>5, <1>6, <1>7 DEF OnePage

\* The client rests while the runs go on.
LEMMA ClientRests ==
    ASSUME RunRecords, RunsGoOn, ClientInv, UNCHANGED <<client, screen>>
    PROVE  ClientInv'
<1>1. /\ Len(events[Followed]) \in Nat /\ Len(events'[Followed]) \in Nat
      /\ RunGoesOn(Followed)
  BY RunRecordAssumption DEF RunRecords, RunsGoOn
<1>2. OnePage(client.page)'
  BY <1>1 DEF ClientInv, OnePage, RunGoesOn, Printed
<1>3. Verdict'
  BY <1>1 DEF ClientInv, Verdict, RunGoesOn
<1> QED
  BY <1>2, <1>3 DEF ClientInv, Printed

\* The steps of the client, none of which changes a run.
ClientStep ==
    Follow \/ ReadStatus \/ ReadPage \/ PrintEvent \/ Report \/ FetchFails \/ ClientDies

LEMMA ClientMoves ==
    ASSUME RunRecords, ClientInv, ClientStep
    PROVE  ClientInv'
<1>0. /\ UNCHANGED <<run, events>>
      /\ Len(events[Followed]) \in Nat
      /\ Len(screen) \in Nat
      /\ Len(screen) <= Len(events[Followed])
  <2>1. UNCHANGED <<run, events>>
    BY DEF ClientStep, Follow, ReadStatus, ReadPage, PrintEvent, Report, FetchFails,
           ClientDies, recordVars
  <2> QED
    BY <2>1, RunRecordAssumption DEF RunRecords, ClientInv, Printed, OnePage
<1>1. CASE Follow
  <2>1. LastPrinted = Len(screen)
    BY DEF LastPrinted, Last, ClientInv, Printed
  <2>2. /\ UNCHANGED screen /\ DOMAIN client' = ClientFields /\ client'.page = <<>>
        /\ client'.after = Len(screen) /\ client'.pc = "status"
    BY <1>1, <2>1 DEF Follow, Starting, ClientFields
  <2> QED
    BY <1>0, <2>2 DEF ClientInv, Printed, OnePage, Verdict
<1>2. CASE ReadStatus
  <2>1. /\ UNCHANGED screen /\ DOMAIN client' = ClientFields /\ client'.page = client.page
        /\ client'.after = client.after /\ client'.pc = "drain"
        /\ client'.status = run[Followed].status
    BY <1>2 DEF ReadStatus, ClientInv, ClientFields
  <2> QED
    BY <1>0, <2>1 DEF ClientInv, Printed, OnePage, Verdict, Terminal
<1>3. CASE ReadPage
  <2> DEFINE page == EventPage(client.after)
  <2>1. /\ UNCHANGED screen /\ DOMAIN client' = ClientFields /\ client'.page = page
        /\ client'.after = client.after /\ client'.status = client.status
        /\ client'.pc = IF page = <<>> THEN "report" ELSE "drain"
        /\ client.pc = "drain"
    BY <1>3 DEF ReadPage, ClientInv, ClientFields, At
  <2>2. OnePage(page) /\ (page = <<>> => Len(screen) = Len(events[Followed]))
    BY <1>0, PageGoesOn DEF ClientInv
  <2> HIDE DEF page
  <2> QED
    BY <1>0, <2>1, <2>2 DEF ClientInv, Printed, OnePage, Verdict, Terminal
<1>4. CASE PrintEvent
  <2>1. /\ client.pc = "drain" /\ client.page # <<>>
        /\ screen' = Append(screen, Head(client.page))
        /\ DOMAIN client' = ClientFields /\ client'.page = Tail(client.page)
        /\ client'.after = Head(client.page) /\ client'.pc = "drain"
        /\ client'.status = client.status
    BY <1>4 DEF PrintEvent, ClientInv, ClientFields, At
  <2>2. client.page \in Seq(Nat) /\ Len(client.page) >= 1 /\ Head(client.page) = Len(screen) + 1
    BY <1>0, <2>1 DEF ClientInv, OnePage
  <2>3. Printed' /\ Len(screen') = Len(screen) + 1
    BY <1>0, <2>1, <2>2 DEF ClientInv, Printed
  <2>4. /\ Tail(client.page) \in Seq(Nat)
        /\ Len(Tail(client.page)) = Len(client.page) - 1
        /\ \A i \in 1..Len(Tail(client.page)) : Tail(client.page)[i] = client.page[i + 1]
    BY <2>2
  <2>5. OnePage(client.page)'
    <3> DEFINE tail == Tail(client.page)
    <3>1. Len(screen) + Len(client.page) <= Len(events[Followed]) /\ Len(client.page) \in Nat
      BY <2>2 DEF ClientInv, OnePage
    <3>2. \A i \in 1..Len(client.page) : client.page[i] = Len(screen) + i
      BY DEF ClientInv, OnePage
    <3> HIDE DEF tail
    <3>3. \A i \in 1..Len(tail) : tail[i] = Len(screen') + i
      <4> SUFFICES ASSUME NEW i \in 1..Len(tail) PROVE tail[i] = Len(screen') + i
        OBVIOUS
      <4>1. tail[i] = client.page[i + 1] /\ i + 1 \in 1..Len(client.page)
        BY <2>4, <3>1 DEF tail
      <4> QED
        BY <1>0, <2>3, <3>2, <4>1
    <3>4. Len(screen') + Len(tail) <= Len(events'[Followed]) /\ tail \in Seq(Nat)
      <4>1. tail \in Seq(Nat) /\ Len(tail) = Len(client.page) - 1
        BY <2>4 DEF tail
      <4>2. Len(screen') + Len(tail) = Len(screen) + Len(client.page)
        <5>1. ASSUME NEW m \in Nat, NEW n \in Nat PROVE (m + 1) + (n - 1) = m + n
          OBVIOUS
        <5>2. Len(screen') = Len(screen) + 1 /\ Len(screen) \in Nat /\ Len(client.page) \in Nat
          BY <1>0, <2>3, <3>1
        <5> QED
          BY <4>1, <5>1, <5>2
      <4>3. Len(events'[Followed]) = Len(events[Followed])
        BY <1>0
      <4> QED
        BY <3>1, <4>1, <4>2, <4>3
    <3>5. client'.page = tail
      BY <2>1 DEF tail
    <3> QED
      BY <3>3, <3>4, <3>5 DEF OnePage
  <2> QED
    BY <1>0, <2>1, <2>2, <2>3, <2>5 DEF ClientInv, Verdict, Terminal
<1>5. CASE Report
  <2>1. /\ UNCHANGED screen /\ DOMAIN client' = ClientFields /\ client'.page = client.page
        /\ client'.after = client.after /\ client.pc = "report"
        /\ client'.pc = IF client.status \in Done THEN "done" ELSE "status"
    BY <1>5 DEF Report, ClientInv, ClientFields, At
  <2> QED
    BY <1>0, <2>1 DEF ClientInv, Printed, OnePage, Verdict, Terminal
<1>6. CASE FetchFails \/ ClientDies
  <2>1. /\ UNCHANGED screen /\ DOMAIN client' = ClientFields /\ client'.page = client.page
        /\ client'.after = client.after
        /\ \/ client'.pc = client.pc /\ client'.status = client.status
           \/ client'.pc = "stopped"
    BY <1>6 DEF FetchFails, ClientDies, ClientInv, ClientFields, At
  <2> QED
    BY <1>0, <2>1 DEF ClientInv, Printed, OnePage, Verdict, Terminal
<1> QED
  BY <1>1, <1>2, <1>3, <1>4, <1>5, <1>6 DEF ClientStep

LEMMA ClientKept == EvidenceInv /\ RecordInv /\ ClientInv /\ [Next]_vars => ClientInv'
<1> SUFFICES ASSUME EvidenceInv, RecordInv, ClientInv, [Next]_vars PROVE ClientInv'
  OBVIOUS
<1>1. RunRecords /\ RunsGoOn
  BY StepGoesOn DEF RecordInv
<1>2. CASE UNCHANGED <<client, screen>>
  BY <1>1, <1>2, ClientRests
<1>3. CASE ClientStep
  BY <1>1, <1>3, ClientMoves
<1>4. ASSUME NEW d \in Drivers,
             TakeSnapshot(d) \/ Prepare(d) \/ Commit(d) \/ DriverDies(d)
      PROVE  UNCHANGED <<client, screen>>
  BY <1>4 DEF TakeSnapshot, Prepare, Commit, DriverDies, clientVars
<1>5. ASSUME NEW d \in Drivers, NEW r \in Runs, StartTick(d, r) PROVE UNCHANGED <<client, screen>>
  BY <1>5 DEF StartTick, clientVars
<1>6. ASSUME NEW key, NEW old, Retain(key, old) PROVE UNCHANGED <<client, screen>>
  BY <1>6 DEF Retain, clientVars
<1>7. ASSUME NEW i, Delete(i) PROVE UNCHANGED <<client, screen>>
  BY <1>7 DEF Delete, clientVars
<1>8. ASSUME NEW r \in Runs, Submit(r) \/ ModelAnswers(r) \/ Cancel(r)
      PROVE  UNCHANGED <<client, screen>>
  BY <1>8 DEF Submit, ModelAnswers, Cancel, clientVars
<1>9. UNCHANGED vars => UNCHANGED <<client, screen>>
  BY DEF vars, clientVars
<1> QED
  BY <1>2, <1>3, <1>4, <1>5, <1>6, <1>7, <1>8, <1>9 DEF Next, MemoryTool, ClientStep

\* A client that follows a run prints each event once and in order, across
\* pages, failed requests and new starts, and ends with all of them.
THEOREM EventsShownOnce == Spec => []FollowerSeesAll
<1>1. Init => FollowInv
  BY EvidenceInit, RecordInit, ClientInit DEF FollowInv
<1>2. FollowInv /\ [Next]_vars => FollowInv'
  BY EvidenceStep, RecordStep, ClientKept DEF FollowInv
<1>3. FollowInv => FollowerSeesAll
  <2> SUFFICES ASSUME FollowInv PROVE FollowerSeesAll
    OBVIOUS
  <2>1. Len(events[Followed]) \in Nat /\ ClientInv
    BY RunRecordAssumption DEF FollowInv, RecordInv, RunRecords
  <2>2. screen = [i \in 1..Len(screen) |-> i]
    <3>1. screen \in [1..Len(screen) -> Nat]
      BY <2>1 DEF ClientInv, Printed
    <3> QED
      BY <2>1, <3>1 DEF ClientInv, Printed
  <2>3. Len(screen) <= Len(events[Followed])
    BY <2>1 DEF ClientInv, Printed, OnePage
  <2> QED
    BY <2>1, <2>2, <2>3 DEF FollowerSeesAll, ClientInv, Verdict, At
<1> QED
  BY <1>1, <1>2, <1>3, PTL DEF Spec

(***************************************************************************)
(* What was deleted or corrected.  A record names the one it corrects, and *)
(* is named by it: the correction of a record that is no longer live would *)
(* give one record two names.                                              *)
(***************************************************************************)
MemoryRecords ==
    [key : Keys \cup Runs, supersedes : Nat, supersededBy : Nat, deleted : BOOLEAN]

Corrects(i) ==
    /\ memories[i].supersedes \in 0..(i - 1)
    /\ memories[i].supersedes # 0 => memories[memories[i].supersedes].supersededBy = i

MemoryInv ==
    /\ memories \in Seq(MemoryRecords)
    /\ \A i \in Records : Corrects(i)
    /\ \A i, j \in Records : memories[i].key = memories[j].key => i = j

Gone == {i \in Records : ~Live(i)}

LEMMA ErasedFields ==
    ASSUME NEW m \in MemoryRecords, NEW new, new = [m EXCEPT !.deleted = TRUE]
    PROVE  /\ new \in MemoryRecords
           /\ new.key = m.key
           /\ new.supersedes = m.supersedes
           /\ new.supersededBy = m.supersededBy
           /\ new.deleted = TRUE
BY DEF MemoryRecords

LEMMA CorrectedFields ==
    ASSUME NEW m \in MemoryRecords, NEW n \in Nat, NEW new, new = [m EXCEPT !.supersededBy = n]
    PROVE  /\ new \in MemoryRecords
           /\ new.key = m.key
           /\ new.supersedes = m.supersedes
           /\ new.supersededBy = n
           /\ new.deleted = m.deleted
BY DEF MemoryRecords

LEMMA MemoryFields ==
    \A m \in MemoryRecords :
        m.supersedes \in Nat /\ m.supersededBy \in Nat /\ m.deleted \in BOOLEAN
BY DEF MemoryRecords

LEMMA MemoryInit == Init => MemoryInv /\ Gone = {}
<1> SUFFICES ASSUME Init PROVE MemoryInv /\ Gone = {}
  OBVIOUS
<1>1. memories \in Seq(MemoryRecords) /\ DOMAIN memories = {}
  BY DEF Init
<1> QED
  BY <1>1 DEF MemoryInv, Gone, Records

\* A record more, which corrects nothing.
LEMMA RetainNew ==
    ASSUME NEW key \in Keys \cup Runs, MemoryInv, ~Used(key),
           memories' = Append(memories, Record(key, 0))
    PROVE  MemoryInv' /\ Gone \subseteq Gone'
<1>0. PICK n : n = Len(memories)
  OBVIOUS
<1>1. Record(key, 0) \in MemoryRecords
  BY DEF Record, MemoryRecords
<1>2. /\ memories' \in Seq(MemoryRecords) /\ n \in Nat
      /\ Records = 1..n /\ Records' = 1..(n + 1)
      /\ \A i \in 1..n : memories[i] \in MemoryRecords
      /\ \A i \in 1..n : memories'[i] = memories[i]
      /\ memories'[n + 1] = Record(key, 0)
  BY <1>0, <1>1 DEF MemoryInv, Records
<1>3. Record(key, 0).key = key /\ Record(key, 0).supersedes = 0
  BY DEF Record
<1>4. ASSUME NEW i \in 1..n PROVE Corrects(i)'
  <2>1. Corrects(i) /\ memories[i].supersedes \in Nat
    BY <1>2, MemoryFields DEF MemoryInv
  <2>2. memories[i].supersedes # 0 => memories[i].supersedes \in 1..n
    BY <1>2, <2>1 DEF Corrects
  <2> QED
    BY <1>2, <2>1, <2>2 DEF Corrects
<1>5. Corrects(n + 1)'
  <2>1. 0 \in 0..((n + 1) - 1)
    BY <1>2
  <2> QED
    BY <1>2, <1>3, <2>1 DEF Corrects
<1>6. \A i \in 1..n : memories[i].key # key
  BY <1>2 DEF Used
<1>7. \A i \in Records' : i \in 1..n \/ i = n + 1
  BY <1>2
<1>8. \A i, j \in Records' : memories'[i].key = memories'[j].key => i = j
  BY <1>2, <1>3, <1>6, <1>7 DEF MemoryInv
<1>9. ASSUME NEW i \in Gone PROVE i \in Gone'
  <2>1. i \in 1..n
    BY <1>2 DEF Gone
  <2>2. ~Live(i)
    BY DEF Gone
  <2>3. i \in Records'
    <3>1. i \in 1..(n + 1) /\ Records' = 1..(n + 1)
      BY <1>2, <2>1
    <3> QED
      BY <3>1
  <2>4. memories'[i] = memories[i]
    BY <1>2, <2>1
  <2> QED
    BY <2>2, <2>3, <2>4 DEF Gone, Live
<1> QED
  BY <1>2, <1>4, <1>5, <1>7, <1>8, <1>9 DEF MemoryInv

\* A record that stands for another one, which nothing corrected before.
LEMMA RetainCorrection ==
    ASSUME NEW key \in Keys, NEW old \in Records, MemoryInv, ~Used(key), Live(old),
           memories' = Append([memories EXCEPT ![old].supersededBy = Len(memories) + 1],
                              Record(key, old))
    PROVE  MemoryInv' /\ Gone \subseteq Gone'
<1>0. PICK n : n = Len(memories)
  OBVIOUS
<1> DEFINE corrected == [memories EXCEPT ![old].supersededBy = n + 1]
<1>1. /\ memories \in Seq(MemoryRecords) /\ n \in Nat /\ Records = 1..n
      /\ \A i \in 1..n : memories[i] \in MemoryRecords
  BY <1>0 DEF MemoryInv, Records
<1>2. corrected \in Seq(MemoryRecords) /\ Len(corrected) = n
  <2>1. [memories[old] EXCEPT !.supersededBy = n + 1] \in MemoryRecords
    <3>1. memories[old] \in MemoryRecords /\ n + 1 \in Nat
      BY <1>1
    <3> QED
      BY <3>1, CorrectedFields, Zenon
  <2> QED
    BY <1>0, <1>1, <2>1
<1>3. ASSUME NEW i \in 1..n
      PROVE  /\ corrected[i].key = memories[i].key
             /\ corrected[i].supersedes = memories[i].supersedes
             /\ corrected[i].deleted = memories[i].deleted
             /\ corrected[i].supersededBy = IF i = old THEN n + 1 ELSE memories[i].supersededBy
  <2>1. CASE i = old
    <3>1. corrected[i] = [memories[old] EXCEPT !.supersededBy = n + 1]
      BY <1>0, <1>1, <2>1
    <3> HIDE DEF corrected
    <3> QED
      BY <1>1, <2>1, <3>1, CorrectedFields
  <2>2. CASE i # old
    BY <1>0, <1>1, <2>2
  <2> QED
    BY <2>1, <2>2
<1> HIDE DEF corrected
<1>4. memories' = Append(corrected, Record(key, old))
  BY <1>0 DEF corrected
<1>5. Record(key, old) \in MemoryRecords
  BY <1>1 DEF Record, MemoryRecords
<1>6. /\ memories' \in Seq(MemoryRecords)
      /\ Records' = 1..(n + 1)
      /\ \A i \in 1..n : memories'[i] = corrected[i]
      /\ memories'[n + 1] = Record(key, old)
  <2>1. corrected \in Seq(MemoryRecords) /\ Len(corrected) = n /\ n \in Nat
    BY <1>1, <1>2
  <2>2. Len(memories') = n + 1
    BY <1>4, <2>1
  <2>3. memories' \in Seq(MemoryRecords)
    <3>1. ASSUME NEW record \in MemoryRecords
          PROVE  Append(corrected, record) \in Seq(MemoryRecords)
      BY <2>1
    <3> QED
      BY <1>4, <1>5, <3>1, Zenon
  <2>4. \A i \in 1..n : memories'[i] = corrected[i]
    BY <1>4, <2>1
  <2>5. memories'[n + 1] = Record(key, old)
    BY <1>4, <2>1
  <2>6. Records' = 1..(n + 1)
    BY <2>2 DEF Records
  <2> QED
    BY <2>3, <2>4, <2>5, <2>6
<1>7. Record(key, old).key = key /\ Record(key, old).supersedes = old
  BY DEF Record
<1>8. memories[old].supersededBy = 0 /\ ~memories[old].deleted
  BY DEF Live
<1>9. ASSUME NEW i \in 1..n PROVE Corrects(i)'
  <2>1. Corrects(i) /\ memories[i].supersedes \in Nat
    BY <1>1, MemoryFields DEF MemoryInv
  <2>2. CASE memories[i].supersedes = 0
    BY <1>3, <1>6, <2>1, <2>2 DEF Corrects
  <2>3. CASE memories[i].supersedes # 0
    <3>1. /\ memories[i].supersedes \in 1..n
          /\ memories[memories[i].supersedes].supersededBy = i
      BY <1>1, <2>1, <2>3 DEF Corrects
    <3>2. memories[i].supersedes # old
      BY <1>8, <3>1
    <3>3. /\ memories'[i].supersedes = memories[i].supersedes
          /\ memories'[memories[i].supersedes].supersededBy = i
      BY <1>3, <1>6, <3>1, <3>2
    <3> QED
      BY <2>1, <3>3 DEF Corrects
  <2> QED
    BY <2>2, <2>3
<1>10. Corrects(n + 1)'
  <2>1. old \in 1..n /\ memories'[old].supersededBy = n + 1
    BY <1>1, <1>3, <1>6
  <2> QED
    BY <1>1, <1>6, <1>7, <2>1 DEF Corrects
<1>11. \A i \in 1..n : memories'[i].key = memories[i].key /\ memories[i].key # key
  BY <1>1, <1>3, <1>6 DEF Used
<1>12. \A i \in Records' : i \in 1..n \/ i = n + 1
  BY <1>1, <1>6
<1>13. \A i, j \in Records' : memories'[i].key = memories'[j].key => i = j
  <2>1. memories'[n + 1].key = key
    BY <1>6, <1>7
  <2>2. \A i, j \in 1..n : memories'[i].key = memories'[j].key => i = j
    BY <1>1, <1>11 DEF MemoryInv
  <2>3. \A i \in 1..n : memories'[i].key # key
    BY <1>11
  <2> QED
    BY <1>12, <2>1, <2>2, <2>3
<1>14. ASSUME NEW i \in Gone PROVE i \in Gone'
  <2>1. i \in 1..n /\ i \in Records' /\ ~Live(i)
    BY <1>1, <1>6 DEF Gone
  <2>2. i # old
    BY <2>1
  <2>3. memories'[i].deleted = memories[i].deleted
        /\ memories'[i].supersededBy = memories[i].supersededBy
    BY <1>3, <1>6, <2>1, <2>2
  <2> QED
    BY <2>1, <2>3 DEF Gone, Live
<1> QED
  BY <1>6, <1>9, <1>10, <1>12, <1>13, <1>14 DEF MemoryInv

\* A record that is erased, and keeps its key.
LEMMA DeleteKeeps ==
    ASSUME NEW i \in Records, MemoryInv, memories' = [memories EXCEPT ![i].deleted = TRUE]
    PROVE  MemoryInv' /\ Gone \subseteq Gone'
<1>1. memories \in Seq(MemoryRecords) /\ \A x \in Records : memories[x] \in MemoryRecords
  BY DEF MemoryInv, Records
<1>2. [memories[i] EXCEPT !.deleted = TRUE] \in MemoryRecords
  BY <1>1, ErasedFields
<1>3. memories' \in Seq(MemoryRecords) /\ Records' = Records
  BY <1>1, <1>2 DEF Records
<1>4. \A x \in Records : memories'[x] = IF x = i THEN [memories[x] EXCEPT !.deleted = TRUE]
                                                 ELSE memories[x]
  BY <1>1 DEF Records
<1>5. ASSUME NEW x \in Records
      PROVE  /\ memories'[x].key = memories[x].key
             /\ memories'[x].supersedes = memories[x].supersedes
             /\ memories'[x].supersededBy = memories[x].supersededBy
             /\ memories[x].deleted => memories'[x].deleted
  <2>1. CASE x = i
    BY <1>1, <1>4, <2>1, ErasedFields
  <2>2. CASE x # i
    BY <1>4, <2>2
  <2> QED
    BY <2>1, <2>2
<1>6. ASSUME NEW x \in Records PROVE Corrects(x)'
  <2>1. Corrects(x) /\ (memories[x].supersedes # 0 => memories[x].supersedes \in Records)
    BY <1>1 DEF MemoryInv, Corrects, Records
  <2> QED
    BY <1>3, <1>5, <2>1 DEF Corrects
<1>7. Gone \subseteq Gone'
  BY <1>3, <1>5 DEF Gone, Live
<1> QED
  BY <1>3, <1>5, <1>6, <1>7 DEF MemoryInv

\* What is gone stays gone, whatever the steps.
LEMMA MemoryStep == EvidenceInv /\ MemoryInv /\ [Next]_vars => MemoryInv' /\ Gone \subseteq Gone'
<1> SUFFICES ASSUME EvidenceInv, MemoryInv, [Next]_vars PROVE MemoryInv' /\ Gone \subseteq Gone'
  OBVIOUS
<1>1. CASE UNCHANGED memories
  BY <1>1 DEF MemoryInv, Records, Corrects, Gone, Live
<1>2. ASSUME NEW key \in Keys, NEW old \in {0} \cup Records, Retain(key, old)
      PROVE  MemoryInv' /\ Gone \subseteq Gone'
  <2>1. CASE memories' = Append(memories, Record(key, 0))
    BY <1>2, <2>1, RetainNew DEF Retain
  <2>2. CASE /\ old \in Records
             /\ Live(old)
             /\ memories' = Append([memories EXCEPT ![old].supersededBy = Len(memories) + 1],
                                   Record(key, old))
    BY <1>2, <2>2, RetainCorrection DEF Retain
  <2> QED
    BY <1>2, <2>1, <2>2 DEF Retain
<1>3. ASSUME NEW i \in Records, Delete(i) PROVE MemoryInv' /\ Gone \subseteq Gone'
  BY <1>3, DeleteKeeps DEF Delete
<1>4. ASSUME NEW d \in Drivers, Commit(d) PROVE MemoryInv' /\ Gone \subseteq Gone'
  <2>1. Mine(d) \in Runs
    BY <1>4 DEF EvidenceInv, DriverRecords, Commit, Doing, Mine
  <2>2. CASE CommitOutput(d)
    <3>1. CASE Used(Mine(d))
      BY <1>1, <2>2, <3>1 DEF CommitOutput, Remembering
    <3>2. CASE ~Used(Mine(d))
      BY <2>1, <2>2, <3>2, RetainNew DEF CommitOutput, Remembering
    <3> QED
      BY <3>1, <3>2
  <2> QED
    BY <1>1, <1>4, <2>2 DEF Commit, CommitRequest, CommitFailure
<1>5. ASSUME NEW r \in Runs, Submit(r) \/ ModelAnswers(r) \/ Cancel(r) PROVE UNCHANGED memories
  BY <1>5 DEF Submit, ModelAnswers, Cancel
<1>6. ASSUME NEW d \in Drivers, NEW r \in Runs, StartTick(d, r) PROVE UNCHANGED memories
  BY <1>6 DEF StartTick, recordVars
<1>7. ASSUME NEW d \in Drivers, TakeSnapshot(d) \/ Prepare(d) \/ DriverDies(d)
      PROVE  UNCHANGED memories
  BY <1>7 DEF TakeSnapshot, Prepare, DriverDies, recordVars
<1>8. ASSUME Follow \/ ReadStatus \/ ReadPage \/ PrintEvent \/ Report \/ FetchFails \/ ClientDies
      PROVE  UNCHANGED memories
  BY <1>8 DEF Follow, ReadStatus, ReadPage, PrintEvent, Report, FetchFails, ClientDies, recordVars
<1>9. UNCHANGED vars => UNCHANGED memories
  BY DEF vars, recordVars
<1> QED
  BY <1>1, <1>2, <1>3, <1>4, <1>5, <1>6, <1>7, <1>8, <1>9 DEF Next, MemoryTool

\* A submitted run stays submitted.
LEMMA StatusWritten ==
    ASSUME NEW r \in Runs, NEW next, RunRecords, next.status # "absent",
           run' = [run EXCEPT ![r] = next]
    PROVE  \A x \in Runs : Started(x) => Started(x)'
<1>1. run'[r] = next /\ \A x \in Runs : x # r => run'[x] = run[x]
  BY DEF RunRecords
<1> QED
  BY <1>1 DEF Started

StartedStays == \A r \in Runs : Started(r) => Started(r)'

LEMMA StepKeepsStarted == EvidenceInv /\ RecordInv /\ [Next]_vars => StartedStays
<1> SUFFICES ASSUME EvidenceInv, RecordInv, [Next]_vars PROVE StartedStays
  OBVIOUS
<1>0. RunRecords /\ \A r \in Runs : DOMAIN run[r] = RunFields
  BY DEF RecordInv, RunRecords
<1>1. CASE UNCHANGED run
  BY <1>1 DEF StartedStays, Started
<1>2. ASSUME NEW r \in Runs, NEW next, next.status # "absent", run' = [run EXCEPT ![r] = next]
      PROVE  StartedStays
  BY <1>0, <1>2, StatusWritten DEF StartedStays
<1>3. ASSUME NEW r \in Runs, Submit(r) PROVE StartedStays
  <2> DEFINE next == [run[r] EXCEPT !.status = "running"]
  <2>1. run' = [run EXCEPT ![r] = next]
    BY <1>3 DEF Submit
  <2>2. next.status # "absent"
    BY <1>0 DEF RunFields
  <2> HIDE DEF next
  <2> QED
    BY <1>2, <2>1, <2>2
<1>4. ASSUME NEW r \in Runs, Cancel(r) PROVE StartedStays
  <2> DEFINE next == [run[r] EXCEPT !.status = "cancelled", !.revision = @ + 1]
  <2>1. run' = [run EXCEPT ![r] = next]
    BY <1>4 DEF Cancel
  <2>2. next.status # "absent"
    BY <1>0 DEF RunFields
  <2> HIDE DEF next
  <2> QED
    BY <1>2, <2>1, <2>2
<1>5. ASSUME NEW r \in Runs, ModelAnswers(r) PROVE StartedStays
  <2>1. run[r].status = "running"
    BY <1>5 DEF ModelAnswers
  <2>2. CASE run' = [run EXCEPT ![r].next = "final"]
    <3> DEFINE next == [run[r] EXCEPT !.next = "final"]
    <3>1. next.status # "absent"
      BY <1>0, <2>1 DEF RunFields
    <3>2. run' = [run EXCEPT ![r] = next]
      BY <2>2
    <3> HIDE DEF next
    <3> QED
      BY <1>2, <3>1, <3>2
  <2>3. ASSUME NEW told, run' = [run EXCEPT ![r].next = "results", ![r].told = told]
        PROVE  StartedStays
    <3> DEFINE next == [run[r] EXCEPT !.next = "results", !.told = told]
    <3>1. next.status # "absent"
      BY <1>0, <2>1 DEF RunFields
    <3>2. run' = [run EXCEPT ![r] = next]
      BY <1>0, <2>3 DEF RunRecords
    <3> HIDE DEF next
    <3> QED
      BY <1>2, <3>1, <3>2
  <2>4. CASE \E size \in Sizes :
                run' = [run EXCEPT ![r].next = "results",
                                   ![r].told = Append(@, [n |-> Len(@) + 1, size |-> size])]
    BY <2>3, <2>4
  <2> QED
    BY <1>5, <2>2, <2>4 DEF ModelAnswers
<1>6. ASSUME NEW d \in Drivers, Commit(d) PROVE StartedStays
  <2>1. Mine(d) \in Runs
    BY <1>6 DEF EvidenceInv, DriverRecords, Commit, Doing, Mine
  <2>2. Doing(d, "prepared") /\ PreparedGoesOn(d)
    BY <1>6 DEF Commit, RecordInv
  <2>3. CASE Current(d) /\ CommitRequest(d)
    <3> DEFINE r == Mine(d)
               plan == driver[d].plan
               next == [run[r] EXCEPT !.history = plan.history, !.archive = plan.archive,
                                      !.next = "calling", !.revision = @ + 1]
    <3>1. run' = [run EXCEPT ![r] = next]
      BY <1>0, <2>1, <2>3 DEF CommitRequest, RunRecords
    <3>2. next.status = run[r].status
      BY <1>0, <2>1 DEF RunFields
    <3> HIDE DEF next
    <3>3. CASE next.status # "absent"
      BY <1>2, <2>1, <3>1, <3>3
    <3>4. CASE next.status = "absent"
      <4>1. run'[r] = next /\ \A x \in Runs : x # r => run'[x] = run[x]
        BY <1>0, <2>1, <3>1 DEF RunRecords
      <4> QED
        BY <3>2, <3>4, <4>1 DEF StartedStays, Started
    <3> QED
      BY <3>3, <3>4
  <2>4. CASE CommitOutput(d)
    <3> DEFINE next == [run[Mine(d)] EXCEPT !.status = "completed", !.revision = @ + 1]
    <3>1. run' = [run EXCEPT ![Mine(d)] = next]
      BY <2>4 DEF CommitOutput
    <3>2. next.status # "absent"
      BY <1>0, <2>1 DEF RunFields
    <3> HIDE DEF next
    <3> QED
      BY <1>2, <2>1, <3>1, <3>2
  <2>5. CASE CommitFailure(d)
    <3> DEFINE next == [run[Mine(d)] EXCEPT !.status = "failed", !.revision = @ + 1]
    <3>1. run' = [run EXCEPT ![Mine(d)] = next]
      BY <2>5 DEF CommitFailure
    <3>2. next.status # "absent"
      BY <1>0, <2>1 DEF RunFields
    <3> HIDE DEF next
    <3> QED
      BY <1>2, <2>1, <3>1, <3>2
  <2> QED
    BY <1>1, <1>6, <2>3, <2>4, <2>5 DEF Commit
<1>7. ASSUME NEW d \in Drivers, NEW r \in Runs, StartTick(d, r) PROVE UNCHANGED run
  BY <1>7 DEF StartTick, recordVars
<1>8. ASSUME NEW d \in Drivers, TakeSnapshot(d) \/ Prepare(d) \/ DriverDies(d)
      PROVE  UNCHANGED run
  BY <1>8 DEF TakeSnapshot, Prepare, DriverDies, recordVars
<1>9. ASSUME NEW key, NEW old, Retain(key, old) PROVE UNCHANGED run
  BY <1>9 DEF Retain
<1>10. ASSUME NEW i, Delete(i) PROVE UNCHANGED run
  BY <1>10 DEF Delete
<1>11. ASSUME Follow \/ ReadStatus \/ ReadPage \/ PrintEvent \/ Report \/ FetchFails \/ ClientDies
       PROVE  UNCHANGED run
  BY <1>11 DEF Follow, ReadStatus, ReadPage, PrintEvent, Report, FetchFails, ClientDies, recordVars
<1>12. UNCHANGED vars => UNCHANGED run
  BY DEF vars, recordVars
<1> QED
  BY <1>1, <1>3, <1>4, <1>5, <1>6, <1>7, <1>8, <1>9, <1>10, <1>11, <1>12 DEF Next, MemoryTool

(***************************************************************************)
(* What a run is shown.  A driver recalls after the submission of its run, *)
(* so that nothing it finds was gone by then, and it may hold what it      *)
(* found for long.                                                         *)
(***************************************************************************)
RecallsLive(d) ==
    /\ driver[d].pc # "idle" => Started(driver[d].run)
    /\ driver[d].pc = "recalled" => driver[d].recalled \cap stale[driver[d].run] = {}

ShownLive ==
    /\ \A r \in DOMAIN snapshots : r \in Runs /\ Started(r)
    /\ \A r \in DOMAIN snapshots : snapshots[r] \cap stale[r] = {}

StaleRecords ==
    /\ stale = [r \in Runs |-> stale[r]]
    /\ \A r \in Runs : stale[r] \subseteq Gone

ForgottenInv ==
    /\ StaleRecords
    /\ ShownLive
    /\ \A d \in Drivers : RecallsLive(d)

LEMMA ForgottenInit == Init => ForgottenInv
<1> SUFFICES ASSUME Init PROVE ForgottenInv
  OBVIOUS
<1>1. StaleRecords
  BY DEF Init, StaleRecords
<1>2. ShownLive
  BY DEF Init, ShownLive
<1>3. \A d \in Drivers : RecallsLive(d)
  BY DEF Init, RecallsLive, Free
<1> QED
  BY <1>1, <1>2, <1>3 DEF ForgottenInv

\* The submissions as they were, and more that is gone.
LEMMA StaleKept ==
    ASSUME StaleRecords, Gone \subseteq Gone', UNCHANGED stale
    PROVE  StaleRecords'
BY DEF StaleRecords

LEMMA ShownKept ==
    ASSUME ShownLive, StartedStays, UNCHANGED <<snapshots, stale>>
    PROVE  ShownLive'
BY DEF ShownLive, StartedStays

\* One driver moves.
LEMMA OneDriverRecalls ==
    ASSUME NEW d \in Drivers, DriverRecords, ForgottenInv, StartedStays, UNCHANGED stale,
           RecallsLive(d)', \A e \in Drivers : e # d => driver'[e] = driver[e]
    PROVE  \A e \in Drivers : RecallsLive(e)'
<1> SUFFICES ASSUME NEW e \in Drivers, e # d PROVE RecallsLive(e)'
  OBVIOUS
<1>1. driver'[e] = driver[e] /\ RecallsLive(e)
  BY DEF ForgottenInv
<1>2. driver[e].pc # "idle" => driver[e].run \in Runs
  BY DEF DriverRecords
<1>3. driver[e].pc # "idle" => Started(driver[e].run)'
  BY <1>1, <1>2 DEF RecallsLive, StartedStays
<1> QED
  BY <1>1, <1>3 DEF RecallsLive, Started

\* No driver moves.
LEMMA DriversRest ==
    ASSUME DriverRecords, ForgottenInv, StartedStays, UNCHANGED <<stale, driver>>
    PROVE  \A e \in Drivers : RecallsLive(e)'
<1> SUFFICES ASSUME NEW e \in Drivers PROVE RecallsLive(e)'
  OBVIOUS
<1>1. RecallsLive(e)
  BY DEF ForgottenInv
<1>2. driver[e].pc # "idle" => driver[e].run \in Runs
  BY DEF DriverRecords
<1>3. driver[e].pc # "idle" => Started(driver[e].run)'
  BY <1>1, <1>2 DEF RecallsLive, StartedStays
<1> QED
  BY <1>1, <1>3 DEF RecallsLive, Started

LEMMA ForgottenStep ==
    EvidenceInv /\ RecordInv /\ MemoryInv /\ ForgottenInv /\ [Next]_vars => ForgottenInv'
<1> SUFFICES ASSUME EvidenceInv, RecordInv, MemoryInv, ForgottenInv, [Next]_vars
             PROVE  ForgottenInv'
  OBVIOUS
<1>0. /\ DriverRecords /\ StaleRecords /\ ShownLive
      /\ StartedStays
      /\ Gone \subseteq Gone'
  BY StepKeepsStarted, MemoryStep DEF EvidenceInv, ForgottenInv
<1>1. CASE UNCHANGED <<driver, snapshots, stale>>
  BY <1>0, <1>1, StaleKept, ShownKept, DriversRest DEF ForgottenInv
<1>2. ASSUME NEW d \in Drivers, UNCHANGED <<snapshots, stale>>, RecallsLive(d)',
             \A e \in Drivers : e # d => driver'[e] = driver[e]
      PROVE  ForgottenInv'
  BY <1>0, <1>2, StaleKept, ShownKept, OneDriverRecalls DEF ForgottenInv
<1>3. ASSUME NEW r \in Runs, Submit(r) PROVE ForgottenInv'
  <2>1. /\ ~Started(r)
        /\ stale' = [stale EXCEPT ![r] = {i \in Records : ~Live(i)}]
        /\ UNCHANGED <<driver, snapshots>>
    BY <1>3 DEF Submit
  <2>2. /\ stale' = [x \in Runs |-> stale'[x]]
        /\ stale'[r] = Gone
        /\ \A x \in Runs : x # r => stale'[x] = stale[x]
    BY <1>0, <2>1 DEF StaleRecords, Gone
  <2>3. StaleRecords'
    BY <1>0, <2>2 DEF StaleRecords
  <2>4. ShownLive'
    BY <1>0, <2>1, <2>2 DEF ShownLive, StartedStays
  <2>5. ASSUME NEW d \in Drivers PROVE RecallsLive(d)'
    <3>1. RecallsLive(d) /\ driver'[d] = driver[d]
      BY <2>1 DEF ForgottenInv
    <3>2. CASE driver[d].pc = "idle"
      BY <3>1, <3>2 DEF RecallsLive
    <3>3. CASE driver[d].pc # "idle"
      <4>1. driver[d].run \in Runs /\ Started(driver[d].run)
        BY <1>0, <3>1, <3>3 DEF DriverRecords, RecallsLive
      <4>2. stale'[driver[d].run] = stale[driver[d].run]
        BY <2>1, <2>2, <4>1
      <4>3. Started(driver[d].run)'
        BY <1>0, <3>1, <4>1 DEF StartedStays, Started
      <4> QED
        BY <3>1, <4>2, <4>3 DEF RecallsLive
    <3> QED
      BY <3>2, <3>3
  <2> QED
    BY <2>3, <2>4, <2>5 DEF ForgottenInv
<1>4. ASSUME NEW d \in Drivers, NEW r \in Runs, StartTick(d, r) PROVE ForgottenInv'
  <2>1. UNCHANGED <<snapshots, stale, run>> /\ Started(r)
    BY <1>4 DEF StartTick, recordVars, historyVars
  <2>2. ASSUME NEW next, driver' = [driver EXCEPT ![d] = next], next.run = r,
               next.pc = "recalled" => next.recalled \cap stale[r] = {}
        PROVE  ForgottenInv'
    <3>1. driver'[d] = next /\ \A e \in Drivers : e # d => driver'[e] = driver[e]
      BY <1>0, <2>2 DEF DriverRecords
    <3>2. RecallsLive(d)'
      BY <2>1, <2>2, <3>1 DEF RecallsLive, Started
    <3> QED
      BY <1>2, <2>1, <3>1, <3>2
  <2>3. CASE driver' = [driver EXCEPT ![d] = [Free EXCEPT !.pc = "ready", !.run = r]]
    <3> DEFINE next == [Free EXCEPT !.pc = "ready", !.run = r]
    <3>1. next.pc = "ready" /\ next.run = r
      BY DEF Free
    <3>2. driver' = [driver EXCEPT ![d] = next]
      BY <2>3
    <3> HIDE DEF next
    <3> QED
      BY <2>2, <3>1, <3>2
  <2>4. ASSUME NEW found \in (IF run[r].next = "start" THEN Recalls ELSE {{}}),
               driver' = [driver EXCEPT ![d] = [Free EXCEPT !.pc = "recalled", !.run = r,
                                                            !.recalled = found]]
        PROVE  ForgottenInv'
    <3> DEFINE next == [Free EXCEPT !.pc = "recalled", !.run = r, !.recalled = found]
    <3>1. found \subseteq {i \in Records : Live(i)}
      BY <2>4 DEF Recalls
    <3>2. found \cap stale[r] = {}
      BY <1>0, <3>1 DEF StaleRecords, Gone
    <3>3. next.run = r /\ next.recalled = found
      BY DEF Free
    <3>4. driver' = [driver EXCEPT ![d] = next]
      BY <2>4
    <3> HIDE DEF next
    <3> QED
      BY <2>2, <3>2, <3>3, <3>4
  <2> QED
    BY <1>4, <2>3, <2>4 DEF StartTick
<1>5. ASSUME NEW d \in Drivers, TakeSnapshot(d) PROVE ForgottenInv'
  <2>1. PICK r : r = Mine(d)
    OBVIOUS
  <2>2. /\ driver[d].pc = "recalled" /\ driver[d].run = r
        /\ r \in Runs /\ Started(r)
        /\ driver[d].recalled \cap stale[r] = {}
    BY <1>0, <1>5, <2>1 DEF TakeSnapshot, Doing, Mine, DriverRecords, ForgottenInv, RecallsLive
  <2>3. /\ driver' = [driver EXCEPT ![d] = [driver[d] EXCEPT !.pc = "ready", !.recalled = {}]]
        /\ UNCHANGED <<run, stale>>
    BY <1>5 DEF TakeSnapshot, historyVars
  <2>4. /\ driver'[d].pc = "ready" /\ driver'[d].run = r
        /\ \A e \in Drivers : e # d => driver'[e] = driver[e]
    BY <1>0, <2>2, <2>3 DEF DriverRecords, Fields
  <2>5. RecallsLive(d)'
    BY <2>2, <2>3, <2>4 DEF RecallsLive, Started
  <2>6. CASE UNCHANGED snapshots
    BY <1>2, <2>3, <2>4, <2>5, <2>6
  <2>7. ASSUME NEW kept \in Kept(driver[d].recalled),
               snapshots' = [x \in DOMAIN snapshots \cup {r} |->
                                IF x = r THEN kept ELSE snapshots[x]]
        PROVE  ForgottenInv'
    <3>1. kept \cap stale[r] = {}
      <4>1. kept \subseteq driver[d].recalled
        BY <2>7 DEF Kept
      <4> QED
        BY <2>2, <4>1
    <3>2. /\ DOMAIN snapshots' = DOMAIN snapshots \cup {r}
          /\ \A x \in DOMAIN snapshots' : snapshots'[x] = IF x = r THEN kept ELSE snapshots[x]
      BY <2>7
    <3>3. ShownLive'
      BY <1>0, <2>2, <2>3, <3>1, <3>2 DEF ShownLive, Started
    <3> QED
      BY <1>0, <2>3, <2>4, <2>5, <3>3, StaleKept, OneDriverRecalls DEF ForgottenInv
  <2> QED
    BY <1>5, <2>1, <2>6, <2>7 DEF TakeSnapshot
<1>6. ASSUME NEW d \in Drivers, driver' = [driver EXCEPT ![d] = Free],
             UNCHANGED <<snapshots, stale>>
      PROVE  ForgottenInv'
  <2>1. driver'[d].pc = "idle" /\ \A e \in Drivers : e # d => driver'[e] = driver[e]
    BY <1>0, <1>6, DriverFree
  <2>2. RecallsLive(d)'
    BY <2>1 DEF RecallsLive
  <2> QED
    BY <1>2, <1>6, <2>1, <2>2
<1>7. ASSUME NEW d \in Drivers, Prepare(d) PROVE ForgottenInv'
  <2>1. Doing(d, "ready") /\ UNCHANGED <<snapshots, stale, run>>
    BY <1>7 DEF Prepare, recordVars, historyVars
  <2>2. CASE driver' = [driver EXCEPT ![d].pc = "prepared",
                                      ![d].revision = run[Mine(d)].revision,
                                      ![d].plan = Plan(Mine(d))]
    <3>1. PICK revision : revision = run[Mine(d)].revision
      OBVIOUS
    <3>2. PICK plan : plan = Plan(Mine(d))
      OBVIOUS
    <3>3. driver' = [driver EXCEPT ![d] = [driver[d] EXCEPT !.pc = "prepared",
                                                !.revision = revision, !.plan = plan]]
      BY <1>0, <2>2, <3>1, <3>2 DEF DriverRecords
    <3>4. /\ driver'[d].pc = "prepared" /\ driver'[d].run = driver[d].run
          /\ \A e \in Drivers : e # d => driver'[e] = driver[e]
      BY <1>0, <3>3 DEF DriverRecords, Fields
    <3>5. RecallsLive(d)'
      BY <2>1, <3>4 DEF ForgottenInv, RecallsLive, Started, Doing
    <3> QED
      BY <1>2, <2>1, <3>4, <3>5
  <2> QED
    BY <1>6, <1>7, <2>1, <2>2 DEF Prepare
<1>8. ASSUME NEW d \in Drivers, Commit(d) \/ DriverDies(d)
      PROVE  driver' = [driver EXCEPT ![d] = Free] /\ UNCHANGED <<snapshots, stale>>
  BY <1>8 DEF Commit, DriverDies, recordVars, historyVars
<1>9. ASSUME NEW key, NEW old, Retain(key, old) PROVE UNCHANGED <<driver, snapshots, stale>>
  BY <1>9 DEF Retain, historyVars
<1>10. ASSUME NEW i, Delete(i) PROVE UNCHANGED <<driver, snapshots, stale>>
  BY <1>10 DEF Delete, historyVars
<1>11. ASSUME NEW r \in Runs, ModelAnswers(r) \/ Cancel(r)
       PROVE  UNCHANGED <<driver, snapshots, stale>>
  BY <1>11 DEF ModelAnswers, Cancel, historyVars
<1>12. ASSUME Follow \/ ReadStatus \/ ReadPage \/ PrintEvent \/ Report \/ FetchFails \/ ClientDies
       PROVE  UNCHANGED <<driver, snapshots, stale>>
  BY <1>12 DEF Follow, ReadStatus, ReadPage, PrintEvent, Report, FetchFails, ClientDies,
               recordVars, historyVars
<1>13. UNCHANGED vars => UNCHANGED <<driver, snapshots, stale>>
  BY DEF vars, recordVars, historyVars
<1> QED
  BY <1>1, <1>3, <1>4, <1>5, <1>6, <1>7, <1>8, <1>9, <1>10, <1>11, <1>12, <1>13
     DEF Next, MemoryTool

\* What an actor deleted or corrected stays so, for any number of memories,
\* of drivers that recall late, and of repeated or racing calls of the tools.
THEOREM ForgettingLasts == Spec => []ForgottenStaysForgotten
<1> DEFINE Inv == EvidenceInv /\ RecordInv /\ MemoryInv /\ ForgottenInv
<1>1. Init => Inv
  BY EvidenceInit, RecordInit, MemoryInit, ForgottenInit
<1>2. Inv /\ [Next]_vars => Inv'
  BY EvidenceStep, RecordStep, MemoryStep, ForgottenStep
<1>3. Inv => ForgottenStaysForgotten
  <2> SUFFICES ASSUME MemoryInv, ForgottenInv PROVE ForgottenStaysForgotten
    OBVIOUS
  <2>1. ASSUME NEW i \in Records, NEW j \in Records, i # j
        PROVE  memories[i].key # memories[j].key
    BY <2>1 DEF MemoryInv
  <2>2. ASSUME NEW i \in Records, NEW j \in Records, i # j, memories[i].supersedes # 0
        PROVE  memories[i].supersedes # memories[j].supersedes
    BY <2>2 DEF MemoryInv, Corrects
  <2> QED
    BY <2>1, <2>2 DEF ForgottenStaysForgotten, ForgottenInv, ShownLive
<1> QED
  BY <1>1, <1>2, <1>3, PTL DEF Spec

(***************************************************************************)
(* The archive of a conversation, and the types of records.  An archive    *)
(* is a function of the exchanges it was made from, by recursion on their  *)
(* number; what it computes is shown by the least number of exchanges at   *)
(* which it would not.                                                     *)
(***************************************************************************)
\* Every set of numbers that is not empty has a least element.
LEMMA LeastNumber ==
    ASSUME NEW T \in SUBSET Nat, T # {}
    PROVE  \E x \in T : \A y \in T : x <= y
<1>1. PICK R : R = OpToRel(<, Nat)
  OBVIOUS
<1>2. IsWellFoundedOn(R, Nat)
  BY <1>1, NatLessThanWellFounded
<1>3. PICK x \in T : \A y \in T : <<y, x>> \notin R
  BY <1>2, WFMin
<1>4. \A y \in Nat : y < x => <<y, x>> \in R
  BY <1>1, SMT DEF OpToRel
<1>5. ASSUME NEW y \in T PROVE x <= y
  <2>1. x \in Nat /\ y \in Nat
    OBVIOUS
  <2>2. ~(y < x)
    BY <1>3, <1>4, <2>1
  <2> QED
    BY <2>1, <2>2
<1> QED
  BY <1>3, <1>5

IsChain(c, archive, exchanges, n) ==
    c = [i \in 0..n |-> IF i = 0 THEN archive ELSE Exchange(c[i - 1], exchanges[i])]

LEMMA ChainDef ==
    ASSUME NEW archive, NEW exchanges
    PROVE  Chain(archive, exchanges) =
              CHOOSE c : IsChain(c, archive, exchanges, Len(exchanges))
BY DEF Chain, IsChain

LEMMA ChainExists ==
    ASSUME NEW archive, NEW n \in Nat, NEW e
    PROVE  \E c : IsChain(c, archive, e, n)
<1> DEFINE Good(c, m) == /\ c = [i \in 0..m |-> c[i]]
                         /\ \A i \in 0..m : c[i] = IF i = 0 THEN archive ELSE Exchange(c[i - 1], e[i])
           Bad == {m \in Nat : \A c : ~Good(c, m)}
<1>1. Bad = {}
  <2> SUFFICES ASSUME Bad # {} PROVE FALSE
    OBVIOUS
  <2>1. PICK m \in Bad : \A k \in Bad : m <= k
    BY LeastNumber
  <2>2. CASE m = 0
    <3> DEFINE c == [i \in 0..0 |-> archive]
    <3>1. Good(c, m)
      BY <2>2
    <3> QED
      BY <2>1, <3>1
  <2>3. CASE m # 0
    <3>1. m - 1 \in Nat /\ m - 1 \notin Bad
      BY <2>1, <2>3
    <3>2. PICK c : Good(c, m - 1)
      BY <3>1
    <3> DEFINE next == [i \in 0..m |-> IF i = m THEN Exchange(c[m - 1], e[m]) ELSE c[i]]
    <3>3. next = [i \in 0..m |-> next[i]]
      OBVIOUS
    <3>4. ASSUME NEW i \in 0..m
          PROVE  next[i] = IF i = 0 THEN archive ELSE Exchange(next[i - 1], e[i])
      <4>1. next[m] = Exchange(c[m - 1], e[m])
        OBVIOUS
      <4>2. \A j \in 0..(m - 1) : next[j] = c[j] /\ j \in 0..m
        BY <3>1
      <4>3. i = m \/ i \in 0..(m - 1)
        OBVIOUS
      <4> HIDE DEF next
      <4>4. CASE i = m
        <5>1. m - 1 \in 0..(m - 1)
          BY <3>1
        <5> QED
          BY <2>3, <4>1, <4>2, <4>4, <5>1
      <4>5. CASE i \in 0..(m - 1)
        <5>1. c[i] = IF i = 0 THEN archive ELSE Exchange(c[i - 1], e[i])
          BY <3>2, <4>5
        <5>2. i # 0 => i - 1 \in 0..(m - 1)
          BY <4>5
        <5> QED
          BY <4>2, <4>5, <5>1, <5>2
      <4> QED
        BY <4>3, <4>4, <4>5
    <3>5. Good(next, m)
      BY <3>3, <3>4
    <3> QED
      BY <2>1, <3>5
  <2> QED
    BY <2>2, <2>3
<1>2. PICK c : Good(c, n)
  BY <1>1
<1>3. c = [i \in 0..n |-> IF i = 0 THEN archive ELSE Exchange(c[i - 1], e[i])]
  <2>1. c = [i \in 0..n |-> c[i]]
    BY <1>2
  <2> QED
    BY <1>2, <2>1
<1> QED
  BY <1>3 DEF IsChain

LEMMA ChainIs ==
    ASSUME NEW archive, NEW exchanges, Len(exchanges) \in Nat, NEW i \in 0..Len(exchanges)
    PROVE  Chain(archive, exchanges)[i] =
              IF i = 0 THEN archive
              ELSE Exchange(Chain(archive, exchanges)[i - 1], exchanges[i])
<1>1. \E c : IsChain(c, archive, exchanges, Len(exchanges))
  BY ChainExists
<1>2. IsChain(Chain(archive, exchanges), archive, exchanges, Len(exchanges))
  BY <1>1, ChainDef, Zenon
<1> QED
  BY <1>2 DEF IsChain

\* Two functions that start alike and go on alike are alike.
Alike(c, d, n) ==
    /\ c[0] = d[0]
    /\ \A i \in 1..n : c[i - 1] = d[i - 1] => c[i] = d[i]

LEMMA AlikeThroughout ==
    ASSUME NEW c, NEW d, NEW n \in Nat, Alike(c, d, n), NEW i \in 0..n
    PROVE  c[i] = d[i]
<1> DEFINE Bad == {m \in Nat : m <= n /\ c[m] # d[m]}
<1>1. Bad = {}
  <2> SUFFICES ASSUME Bad # {} PROVE FALSE
    OBVIOUS
  <2>1. PICK m \in Bad : \A k \in Bad : m <= k
    <3>1. Bad \in SUBSET Nat
      OBVIOUS
    <3> HIDE DEF Bad
    <3> QED
      BY <3>1, LeastNumber
  <2>2. m # 0 /\ m - 1 \in Nat /\ m - 1 <= n /\ m \in 1..n
    BY <2>1 DEF Alike
  <2>3. m - 1 \notin Bad
    BY <2>1, <2>2
  <2> QED
    BY <2>1, <2>2, <2>3 DEF Alike
<1> QED
  BY <1>1

\* A part of a conversation is archived on top of what precedes it as it is in
\* the whole.
Within(part, all, j, n) == \A i \in 1..n : part[i] = all[j + i]

LEMMA SameChain ==
    ASSUME NEW archive, NEW all, NEW part, Len(all) \in Nat, Len(part) \in Nat,
           NEW j \in Nat, NEW n \in Nat, j + n <= Len(all), n <= Len(part),
           Within(part, all, j, n), NEW i \in 0..n
    PROVE  Chain(Chain(archive, all)[j], part)[i] = Chain(archive, all)[j + i]
<1> DEFINE start == Chain(archive, all)[j]
           c == Chain(start, part)
           whole == Chain(archive, all)
           d == [m \in 0..n |-> whole[j + m]]
<1>1. c[0] = start
  BY ChainIs
<1>2. \A m \in 1..n : c[m] = Exchange(c[m - 1], part[m])
  <2> SUFFICES ASSUME NEW m \in 1..n PROVE c[m] = Exchange(c[m - 1], part[m])
    OBVIOUS
  <2>1. m \in 0..Len(part) /\ m # 0
    OBVIOUS
  <2> QED
    BY <2>1, ChainIs
<1>3. \A m \in 1..n : whole[j + m] = Exchange(whole[j + m - 1], part[m])
  <2> SUFFICES ASSUME NEW m \in 1..n PROVE whole[j + m] = Exchange(whole[j + m - 1], part[m])
    OBVIOUS
  <2>1. j + m \in 0..Len(all) /\ j + m # 0 /\ part[m] = all[j + m]
    BY DEF Within
  <2>2. whole[j + m] = Exchange(whole[j + m - 1], all[j + m])
    BY <2>1, ChainIs
  <2> QED
    BY <2>1, <2>2
<1> HIDE DEF c, whole
<1>4. d[0] = whole[j] /\ \A m \in 1..n : d[m - 1] = whole[j + m - 1] /\ d[m] = whole[j + m]
  <2>1. \A m \in 1..n : j + (m - 1) = j + m - 1 /\ m - 1 \in 0..n /\ m \in 0..n
    OBVIOUS
  <2> QED
    BY <2>1
<1>5. d[i] = whole[j + i]
  OBVIOUS
<1> HIDE DEF d
<1>6. c[0] = d[0]
  BY <1>1, <1>4 DEF whole
<1>7. \A m \in 1..n : c[m - 1] = d[m - 1] => c[m] = d[m]
  BY <1>2, <1>3, <1>4
<1>8. Alike(c, d, n)
  BY <1>6, <1>7, Zenon DEF Alike
<1>9. c[i] = whole[j + i]
  BY <1>5, <1>8, AlikeThroughout
<1> QED
  BY <1>9 DEF c, whole, start

\* What is kept of a conversation: the exchanges the model sees, the archive
\* of those before them, and the links to it in the store.
Whole(all, history, archive, store) ==
    LET archived == Len(all) - Len(history)
    IN /\ archived \in Nat
       /\ \A i \in 1..Len(history) : history[i] = all[archived + i]
       /\ archive = Chain(NoArchive, all)[archived]
       /\ \A i \in 1..archived : Chain(NoArchive, all)[i] \in store

LEMMA ArchivedPrefix ==
    ASSUME NEW S, NEW all \in Seq(S), NEW archive, NEW k \in 0..Len(all)
    PROVE  Archived(archive, SubSeq(all, 1, k)) = Chain(archive, all)[k]
<1> DEFINE part == SubSeq(all, 1, k)
<1>1. Len(part) = k /\ \A i \in 1..k : part[i] = all[i]
  OBVIOUS
<1>2. Len(all) \in Nat /\ k \in Nat
  OBVIOUS
<1>3. Chain(archive, all)[0] = archive
  BY <1>2, ChainIs
<1> HIDE DEF part
<1>4. Within(part, all, 0, k)
  BY <1>1 DEF Within
<1>5. 0 + k = k /\ k <= Len(all) /\ k <= Len(part) /\ k \in 0..k
  BY <1>1, <1>2
<1>6. Chain(Chain(archive, all)[0], part)[k] = Chain(archive, all)[0 + k]
  BY <1>1, <1>2, <1>4, <1>5, SameChain
<1>7. Chain(archive, part)[k] = Chain(archive, all)[k]
  BY <1>3, <1>5, <1>6
<1> QED
  BY <1>1, <1>7 DEF Archived, part

Entries == [n : Nat, size : Nat, artifact : BOOLEAN]

LEMMA Joined ==
    ASSUME NEW S, NEW s \in Seq(S), NEW t \in Seq(S)
    PROVE  /\ s \o t \in Seq(S)
           /\ Len(s \o t) = Len(s) + Len(t)
           /\ \A i \in 1..Len(s) : (s \o t)[i] = s[i]
           /\ \A i \in 1..Len(t) : (s \o t)[Len(s) + i] = t[i]
OBVIOUS

\* Archiving the k oldest exchanges and appending the new ones loses nothing.
LEMMA ShortenedWhole ==
    ASSUME NEW S, NEW all \in Seq(S), NEW history \in Seq(S), NEW new \in Seq(S), NEW archive,
           NEW store, NEW later, NEW k \in 0..Len(history),
           Whole(all, history, archive, store), store \subseteq later,
           Between(archive, history, k) \subseteq later
    PROVE  LET s == Shortened(archive, history, new, k)
           IN Whole(all \o new, s.history, s.archive, later)
<1> DEFINE j == Len(all) - Len(history)
           whole == Chain(NoArchive, all)
           total == all \o new
           longer == Chain(NoArchive, total)
           rest == SubSeq(history, k + 1, Len(history)) \o new
<1>1. /\ j \in Nat /\ k \in Nat /\ Len(all) \in Nat /\ Len(history) \in Nat /\ Len(new) \in Nat
      /\ j + Len(history) = Len(all) /\ k <= Len(history)
  BY DEF Whole
<1>2. /\ total \in Seq(S)
      /\ Len(total) = Len(all) + Len(new)
      /\ \A i \in 1..Len(all) : total[i] = all[i]
      /\ \A i \in 1..Len(new) : total[Len(all) + i] = new[i]
  BY Joined
<1> HIDE DEF total
<1>3. ASSUME NEW i \in 0..Len(history) PROVE Chain(archive, history)[i] = whole[j + i]
  <2>1. Within(history, all, j, Len(history))
    BY DEF Whole, Within
  <2>2. archive = whole[j]
    BY DEF Whole
  <2>3. j + Len(history) <= Len(all) /\ Len(history) <= Len(history)
    BY <1>1
  <2> HIDE DEF j, whole
  <2>4. Chain(Chain(NoArchive, all)[j], history)[i] = Chain(NoArchive, all)[j + i]
    BY <1>1, <2>1, <2>3, SameChain
  <2> QED
    BY <2>2, <2>4 DEF whole
<1>4. ASSUME NEW i \in 0..Len(all) PROVE longer[i] = whole[i]
  <2>1. Within(all, total, 0, Len(all))
    BY <1>2 DEF Within
  <2>2. 0 + Len(all) <= Len(total) /\ Len(all) <= Len(all) /\ 0 + i = i
        /\ Len(total) \in Nat /\ 0 \in Nat
    BY <1>1, <1>2
  <2>3. Chain(Chain(NoArchive, total)[0], all)[i] = Chain(NoArchive, total)[0 + i]
    BY <1>1, <2>1, <2>2, SameChain
  <2>4. 0 \in 0..Len(total)
    BY <2>2
  <2>5. Chain(NoArchive, total)[0] = NoArchive
    BY <2>2, <2>4, ChainIs
  <2> QED
    BY <2>2, <2>3, <2>5
<1>5. ASSUME NEW i \in 0..k PROVE Archived(archive, SubSeq(history, 1, i)) = longer[j + i]
  <2>1. i \in 0..Len(history) /\ j + i \in 0..Len(all)
    BY <1>1
  <2>2. Archived(archive, SubSeq(history, 1, i)) = Chain(archive, history)[i]
    BY <2>1, ArchivedPrefix
  <2> HIDE DEF j, whole, longer
  <2> QED
    BY <1>3, <1>4, <2>1, <2>2
<1>6. /\ Len(rest) = Len(history) - k + Len(new)
      /\ \A i \in 1..(Len(history) - k) : rest[i] = history[k + i]
      /\ \A i \in 1..Len(new) : rest[Len(history) - k + i] = new[i]
  <2> DEFINE kept == SubSeq(history, k + 1, Len(history))
  <2>1. /\ kept \in Seq(S) /\ Len(kept) = Len(history) - k
        /\ \A i \in 1..(Len(history) - k) : kept[i] = history[k + i]
    BY <1>1
  <2> HIDE DEF kept
  <2>4. kept \in Seq(S)
    BY <2>1
  <2>2. /\ Len(kept \o new) = Len(kept) + Len(new)
        /\ \A i \in 1..Len(kept) : (kept \o new)[i] = kept[i]
        /\ \A i \in 1..Len(new) : (kept \o new)[Len(kept) + i] = new[i]
    BY <2>4, Joined
  <2>3. rest = kept \o new
    BY DEF kept
  <2> HIDE DEF rest
  <2> QED
    BY <1>1, <2>1, <2>2, <2>3
<1> HIDE DEF rest
<1>7. Len(total) - Len(rest) = j + k
  BY <1>1, <1>2, <1>6
<1>8. \A i \in 1..Len(rest) : rest[i] = total[(j + k) + i]
  <2> SUFFICES ASSUME NEW i \in 1..Len(rest) PROVE rest[i] = total[(j + k) + i]
    OBVIOUS
  <2>0. \A m \in 1..Len(history) : history[m] = all[j + m]
    BY DEF Whole
  <2> HIDE DEF rest
  <2>1. CASE i <= Len(history) - k
    <3>1. i \in 1..(Len(history) - k) /\ k + i \in 1..Len(history)
          /\ j + (k + i) = (j + k) + i /\ (j + k) + i \in 1..Len(all)
      BY <1>1, <2>1
    <3> QED
      BY <1>2, <1>6, <2>0, <3>1
  <2>2. CASE ~(i <= Len(history) - k)
    <3> DEFINE m == i - (Len(history) - k)
    <3>1. m \in 1..Len(new) /\ Len(history) - k + m = i /\ Len(all) + m = (j + k) + i
      BY <1>1, <1>6, <2>2
    <3> HIDE DEF m
    <3> QED
      BY <1>2, <1>6, <3>1
  <2> QED
    BY <2>1, <2>2
<1>9. Archived(archive, SubSeq(history, 1, k)) = longer[j + k]
  BY <1>1, <1>5
<1>10. ASSUME NEW i \in 1..(j + k) PROVE longer[i] \in later
  <2>1. CASE i <= j
    <3>1. i \in 1..j /\ i \in 0..Len(all)
      BY <1>1, <2>1
    <3>2. whole[i] \in store
      BY <3>1 DEF Whole
    <3> HIDE DEF longer, whole
    <3> QED
      BY <1>4, <3>1, <3>2
  <2>2. CASE ~(i <= j)
    <3> DEFINE m == i - j
    <3>1. m \in 1..k /\ m \in 0..k /\ j + m = i
      BY <1>1, <2>2
    <3> HIDE DEF m, j, longer
    <3>2. Archived(archive, SubSeq(history, 1, m)) \in later
      BY <3>1 DEF Between
    <3> QED
      BY <1>5, <3>1, <3>2
  <2> QED
    BY <2>1, <2>2
<1>11. j + k \in Nat
  BY <1>1
<1> HIDE DEF j, whole, longer, rest
<1>12. Whole(total, rest, Archived(archive, SubSeq(history, 1, k)), later)
  BY <1>7, <1>8, <1>9, <1>10, <1>11 DEF Whole, longer
<1> QED
  BY <1>12 DEF Shortened, rest, total

\* What Whole says of a conversation, in the words of Recoverable.
LEMMA WholeIsRecoverable ==
    ASSUME NEW S, NEW all \in Seq(S), NEW history \in Seq(S), NEW archive, NEW store,
           Whole(all, history, archive, store)
    PROVE  LET archived == Len(all) - Len(history)
           IN /\ archived >= 0
              /\ history = SubSeq(all, archived + 1, Len(all))
              /\ archive = Archived(NoArchive, SubSeq(all, 1, archived))
              /\ Between(NoArchive, all, archived) \subseteq store
<1> DEFINE j == Len(all) - Len(history)
           rest == SubSeq(all, j + 1, Len(all))
<1>1. /\ j \in Nat /\ Len(all) \in Nat /\ Len(history) \in Nat /\ j + Len(history) = Len(all)
      /\ j \in 0..Len(all)
  BY DEF Whole
<1>2. /\ rest \in Seq(S) /\ Len(rest) = Len(history)
      /\ \A i \in 1..Len(history) : rest[i] = all[j + i]
  BY <1>1
<1>3. \A i \in 1..Len(history) : history[i] = all[j + i]
  BY DEF Whole
<1> HIDE DEF rest
<1>4. history = rest
  BY <1>2, <1>3, SeqEqual
<1>5. archive = Archived(NoArchive, SubSeq(all, 1, j))
  <2>1. archive = Chain(NoArchive, all)[j]
    BY DEF Whole
  <2> HIDE DEF j
  <2> QED
    BY <1>1, <2>1, ArchivedPrefix
<1>6. ASSUME NEW i \in 1..j PROVE Archived(NoArchive, SubSeq(all, 1, i)) \in store
  <2>1. i \in 0..Len(all)
    BY <1>1
  <2>2. Chain(NoArchive, all)[i] \in store
    BY DEF Whole
  <2> HIDE DEF j
  <2> QED
    BY <2>1, <2>2, ArchivedPrefix
<1>7. Between(NoArchive, all, j) \subseteq store
  BY <1>6 DEF Between
<1> QED
  BY <1>1, <1>4, <1>5, <1>7 DEF rest

(***************************************************************************)
(* The conversation of a run.                                              *)
(***************************************************************************)
Results == [n : Nat, size : Nat]

AllOf(x) == [i \in DOMAIN x.told |-> Offloaded(x.told[i])]
TakenOf(x) == IF x.next = "results" THEN Front(AllOf(x)) ELSE AllOf(x)
NewsOf(x) == IF x.next = "results" THEN <<Offloaded(x.told[Len(x.told)])>> ELSE <<>>

Talk(x) ==
    /\ x.told \in Seq(Results)
    /\ x.history \in Seq(Entries)
    /\ x.next = "results" => x.told # <<>>

\* Nothing of a run is lost.
Complete(x, store) ==
    /\ Talk(x)
    /\ Whole(TakenOf(x), x.history, x.archive, store)
    /\ \A i \in 1..Len(TakenOf(x)) : Outputs(x.told[i]) \subseteq store

\* A plan to ask archives some of the oldest exchanges, and stores them.
PlanFor(x, plan) ==
    \E k \in 0..Len(x.history) :
        /\ plan.history = Shortened(x.archive, x.history, NewsOf(x), k).history
        /\ plan.archive = Shortened(x.archive, x.history, NewsOf(x), k).archive
        /\ Between(x.archive, x.history, k) \subseteq plan.artifacts
        /\ x.next = "results" => Outputs(x.told[Len(x.told)]) \subseteq plan.artifacts

SameTalk(x, y) ==
    /\ y.told = x.told
    /\ y.history = x.history
    /\ y.archive = x.archive
    /\ y.next = x.next

LEMMA AllTaken ==
    ASSUME NEW x, Talk(x)
    PROVE  /\ AllOf(x) \in Seq(Entries) /\ TakenOf(x) \in Seq(Entries)
           /\ NewsOf(x) \in Seq(Entries)
           /\ Len(AllOf(x)) = Len(x.told)
           /\ AllOf(x) = TakenOf(x) \o NewsOf(x)
<1>1. ASSUME NEW result \in Results PROVE Offloaded(result) \in Entries
  BY DEF Results, Entries, Offloaded
<1>2. AllOf(x) \in Seq(Entries) /\ Len(AllOf(x)) = Len(x.told)
      /\ \A i \in 1..Len(x.told) : AllOf(x)[i] = Offloaded(x.told[i])
  <2>1. x.told \in Seq(Results) /\ Len(x.told) \in Nat /\ DOMAIN x.told = 1..Len(x.told)
    BY DEF Talk
  <2>2. AllOf(x) = [i \in 1..Len(x.told) |-> Offloaded(x.told[i])]
    BY <2>1 DEF AllOf
  <2>3. \A i \in 1..Len(x.told) : Offloaded(x.told[i]) \in Entries
    BY <1>1, <2>1
  <2> HIDE DEF AllOf
  <2> QED
    BY <2>1, <2>2, <2>3
<1> HIDE DEF AllOf
<1>3. CASE x.next # "results"
  BY <1>2, <1>3 DEF TakenOf, NewsOf
<1>4. CASE x.next = "results"
  <2> DEFINE all == AllOf(x)
             n == Len(x.told)
             front == Front(all)
             last == <<Offloaded(x.told[n])>>
  <2>1. n \in Nat /\ n # 0 /\ n \in 1..n
    BY <1>4 DEF Talk
  <2>2. front \in Seq(Entries) /\ Len(front) = n - 1 /\ \A i \in 1..(n - 1) : front[i] = all[i]
    BY <1>2, <2>1 DEF Front
  <2>3. last \in Seq(Entries) /\ Len(last) = 1 /\ last[1] = all[n]
    BY <1>2, <2>1
  <2> HIDE DEF all, front, last
  <2>4. /\ front \o last \in Seq(Entries) /\ Len(front \o last) = n
        /\ \A i \in 1..(n - 1) : (front \o last)[i] = all[i]
        /\ (front \o last)[n] = all[n]
    <3>1. /\ front \o last \in Seq(Entries)
          /\ Len(front \o last) = Len(front) + Len(last)
          /\ \A i \in 1..Len(front) : (front \o last)[i] = front[i]
          /\ \A i \in 1..Len(last) : (front \o last)[Len(front) + i] = last[i]
      <4>1. front \in Seq(Entries)
        BY <2>2
      <4>2. last \in Seq(Entries)
        BY <2>3
      <4> QED
        BY <4>1, <4>2, Joined
    <3> QED
      BY <2>1, <2>2, <2>3, <3>1
  <2>5. \A i \in 1..n : i = n \/ i \in 1..(n - 1)
    BY <2>1
  <2>6. all \in Seq(Entries) /\ Len(all) = n
    BY <1>2 DEF all
  <2>7. front \o last = all
    BY <2>4, <2>5, <2>6, SeqEqual
  <2> QED
    BY <1>2, <1>4, <2>2, <2>3, <2>7 DEF TakenOf, NewsOf, all, front, last
<1> QED
  BY <1>3, <1>4

LEMMA NothingTold ==
    ASSUME NEW x, x.told = <<>>, x.history = <<>>, x.archive = NoArchive, x.next = "start",
           NEW store
    PROVE  Complete(x, store)
<1>1. Talk(x)
  BY DEF Talk
<1>2. TakenOf(x) = <<>>
  BY DEF TakenOf, AllOf
<1>3. Len(<<>>) \in Nat /\ 0 \in 0..Len(<<>>) /\ Len(<<>>) = 0
  OBVIOUS
<1>4. Chain(NoArchive, <<>>)[0] = NoArchive
  BY <1>3, ChainIs
<1> QED
  BY <1>1, <1>2, <1>3, <1>4 DEF Complete, Whole

LEMMA SameComplete ==
    ASSUME NEW x, NEW y, NEW store, Complete(x, store), SameTalk(x, y)
    PROVE  Complete(y, store)
BY DEF Complete, Talk, SameTalk, TakenOf, AllOf

\* The results that arrive are not yet taken over.
LEMMA ResultsArrive ==
    ASSUME NEW x, NEW y, NEW store, Complete(x, store), NEW result \in Results,
           x.next # "results", y.told = Append(x.told, result), y.next = "results",
           y.history = x.history, y.archive = x.archive
    PROVE  Complete(y, store)
<1>1. x.told \in Seq(Results) /\ Len(x.told) \in Nat
  BY DEF Complete, Talk
<1>2. /\ y.told \in Seq(Results) /\ Len(y.told) = Len(x.told) + 1
      /\ \A i \in 1..Len(x.told) : y.told[i] = x.told[i]
  BY <1>1
<1>3. Talk(y)
  <2>1. y.told # <<>>
    BY <1>1, <1>2
  <2> QED
    BY <1>2, <2>1 DEF Complete, Talk
<1>4. TakenOf(x) = AllOf(x)
  BY DEF TakenOf
<1>5. TakenOf(y) = TakenOf(x)
  <2>1. TakenOf(y) = Front(AllOf(y))
    BY DEF TakenOf
  <2>2. AllOf(y) \in Seq(Entries) /\ Len(AllOf(y)) = Len(x.told) + 1
    BY <1>2, <1>3, AllTaken
  <2>3. AllOf(x) \in Seq(Entries) /\ Len(AllOf(x)) = Len(x.told)
    BY AllTaken DEF Complete
  <2>4. \A i \in 1..Len(x.told) : AllOf(y)[i] = AllOf(x)[i]
    BY <1>1, <1>2 DEF AllOf
  <2> HIDE DEF AllOf
  <2>5. /\ Front(AllOf(y)) \in Seq(Entries) /\ Len(Front(AllOf(y))) = Len(x.told)
        /\ \A i \in 1..Len(x.told) : Front(AllOf(y))[i] = AllOf(y)[i]
    BY <1>1, <2>2 DEF Front
  <2>6. Front(AllOf(y)) = AllOf(x)
    BY <2>3, <2>4, <2>5, SeqEqual
  <2> QED
    BY <1>4, <2>1, <2>6
<1>6. Len(TakenOf(x)) = Len(x.told)
  BY <1>4, AllTaken DEF Complete
<1> QED
  BY <1>2, <1>3, <1>5, <1>6 DEF Complete

\* A request that is committed as it was planned archives and appends.
LEMMA PlanCompletes ==
    ASSUME NEW x, NEW y, NEW store, NEW later, NEW plan, Complete(x, store), PlanFor(x, plan),
           y.told = x.told, y.next = "calling",
           y.history = plan.history, y.archive = plan.archive,
           later = store \cup plan.artifacts
    PROVE  Complete(y, later)
<1> DEFINE taken == TakenOf(x)
           new == NewsOf(x)
<1>1. PICK k \in 0..Len(x.history) :
          /\ plan.history = Shortened(x.archive, x.history, new, k).history
          /\ plan.archive = Shortened(x.archive, x.history, new, k).archive
          /\ Between(x.archive, x.history, k) \subseteq plan.artifacts
          /\ x.next = "results" => Outputs(x.told[Len(x.told)]) \subseteq plan.artifacts
  BY DEF PlanFor
<1>2. /\ taken \in Seq(Entries) /\ new \in Seq(Entries) /\ AllOf(x) = taken \o new
      /\ AllOf(x) \in Seq(Entries) /\ Len(AllOf(x)) = Len(x.told)
  BY AllTaken DEF Complete
<1>3. x.history \in Seq(Entries) /\ Whole(taken, x.history, x.archive, store)
      /\ x.told \in Seq(Results)
  BY DEF Complete, Talk
<1>4. TakenOf(y) = taken \o new
  BY <1>2 DEF TakenOf, AllOf
<1>5. Len(new) = IF x.next = "results" THEN 1 ELSE 0
  BY DEF NewsOf
<1> HIDE DEF taken, new
<1>6. store \subseteq later /\ Between(x.archive, x.history, k) \subseteq later
  BY <1>1
<1> DEFINE s == Shortened(x.archive, x.history, new, k)
<1>7. Whole(taken \o new, s.history, s.archive, later)
  BY <1>2, <1>3, <1>6, ShortenedWhole
<1>8. y.history = s.history /\ y.archive = s.archive
  BY <1>1
<1>9. y.history \in Seq(Entries)
  <2>1. SubSeq(x.history, k + 1, Len(x.history)) \in Seq(Entries)
    BY <1>3
  <2>2. SubSeq(x.history, k + 1, Len(x.history)) \o new \in Seq(Entries)
    BY <1>2, <2>1, Joined
  <2> QED
    BY <1>8, <2>2 DEF Shortened
<1> HIDE DEF s
<1>10. Talk(y)
  BY <1>3, <1>9 DEF Talk
<1>11. Len(taken \o new) = Len(taken) + Len(new)
  BY <1>2, Joined
<1>12. Len(taken) \in Nat /\ Len(x.told) = Len(taken) + Len(new)
  BY <1>2, <1>11
<1>13. ASSUME NEW i \in 1..Len(taken \o new) PROVE Outputs(y.told[i]) \subseteq later
  <2>1. CASE i \in 1..Len(taken)
    BY <1>6, <2>1 DEF Complete, taken
  <2>2. CASE i \notin 1..Len(taken)
    <3>1. x.next = "results" /\ i = Len(x.told)
      BY <1>5, <1>11, <1>12, <2>2
    <3> QED
      BY <1>1, <3>1
  <2> QED
    BY <2>1, <2>2
<1> QED
  BY <1>4, <1>7, <1>8, <1>10, <1>13 DEF Complete

\* context::advance finds the fewest of the counts that are enough.
LEMMA FewestIsOne ==
    ASSUME NEW counts \in SUBSET Nat, counts # {}
    PROVE  Fewest(counts) \in counts
BY LeastNumber DEF Fewest

LEMMA PlanSound ==
    ASSUME NEW r, Talk(run[r]), Plan(r).kind = "ask"
    PROVE  PlanFor(run[r], Plan(r))
<1> DEFINE x == run[r]
           new == [i \in DOMAIN News(r) |-> Offloaded(News(r)[i])]
           counts == Enough(Cardinality(snapshots[r]), x.archive, x.history, new)
           k == Fewest(counts)
           s == Shortened(x.archive, x.history, new, k)
           kept == (UNION {Outputs(e) : e \in ToSet(News(r))}) \cup Between(x.archive, x.history, k)
<1>1. counts # {} /\ Plan(r).history = s.history /\ Plan(r).archive = s.archive
      /\ Plan(r).artifacts = kept
  BY DEF Plan
<1>2. counts \in SUBSET (0..Len(x.history))
  BY DEF Enough
<1>3. Len(x.history) \in Nat
  BY DEF Talk
<1>4. k \in 0..Len(x.history)
  <2> HIDE DEF counts
  <2>1. counts \in SUBSET Nat
    BY <1>2, <1>3
  <2> QED
    BY <1>1, <1>2, <2>1, FewestIsOne
<1>5. new = NewsOf(x)
  <2>1. CASE x.next = "results"
    <3>1. News(r) = <<x.told[Len(x.told)]>>
      BY <2>1 DEF News
    <3>2. DOMAIN News(r) = {1} /\ News(r)[1] = x.told[Len(x.told)]
      BY <3>1
    <3>3. new = [i \in {1} |-> Offloaded(x.told[Len(x.told)])]
      BY <3>2
    <3>4. <<Offloaded(x.told[Len(x.told)])>> = [i \in {1} |-> Offloaded(x.told[Len(x.told)])]
      OBVIOUS
    <3> QED
      BY <2>1, <3>3, <3>4 DEF NewsOf
  <2>2. CASE x.next # "results"
    <3>1. News(r) = <<>>
      BY <2>2 DEF News
    <3>2. new = <<>>
      BY <3>1
    <3> QED
      BY <2>2, <3>2 DEF NewsOf
  <2> QED
    BY <2>1, <2>2
<1>6. ASSUME x.next = "results" PROVE Outputs(x.told[Len(x.told)]) \subseteq kept
  <2>1. News(r) = <<x.told[Len(x.told)]>>
    BY <1>6 DEF News
  <2>2. x.told[Len(x.told)] \in ToSet(News(r))
    <3>1. 1 \in DOMAIN News(r) /\ News(r)[1] = x.told[Len(x.told)]
      BY <2>1
    <3> QED
      BY <3>1 DEF ToSet
  <2> QED
    BY <2>2
<1> HIDE DEF new, counts, k
<1>7. Between(x.archive, x.history, k) \subseteq kept
  OBVIOUS
<1> HIDE DEF kept
<1> QED
  BY <1>1, <1>4, <1>5, <1>6, <1>7 DEF PlanFor

LEMMA SamePlan ==
    ASSUME NEW x, NEW y, NEW plan, SameTalk(x, y), PlanFor(x, plan)
    PROVE  PlanFor(y, plan)
<1>1. NewsOf(y) = NewsOf(x)
  BY DEF SameTalk, NewsOf
<1> QED
  BY <1>1 DEF SameTalk, PlanFor

\* A driver that prepared a request for the run as it is holds a plan for it.
Planned(d) ==
    driver[d].pc = "prepared" /\ Current(d) =>
        /\ run[Mine(d)].next # "calling"
        /\ driver[d].plan.kind = "ask" => PlanFor(run[Mine(d)], driver[d].plan)

ConversationInv ==
    /\ artifacts = [r \in Runs |-> artifacts[r]]
    /\ \A r \in Runs : Complete(run[r], artifacts[r])
    /\ \A d \in Drivers : Planned(d)

\* What a step does to a run a driver may have a plan for.
PlansLast(r) ==
    \/ run[r].revision < run'[r].revision
    \/ /\ run'[r].revision = run[r].revision
       /\ run[r].next = "calling" \/ SameTalk(run[r], run'[r])

LEMMA ConversationInit == Init => ConversationInv
<1> SUFFICES ASSUME Init PROVE ConversationInv
  OBVIOUS
<1>1. ASSUME NEW r \in Runs PROVE Complete(run[r], artifacts[r])
  <2>1. /\ run[r].told = <<>> /\ run[r].history = <<>> /\ run[r].archive = NoArchive
        /\ run[r].next = "start"
    BY DEF Init
  <2> QED
    BY <2>1, NothingTold
<1>2. \A d \in Drivers : Planned(d)
  BY DEF Init, Planned, Free
<1> QED
  BY <1>1, <1>2 DEF Init, ConversationInv

\* A plan lasts as long as its driver keeps it.
LEMMA PlanLasts ==
    ASSUME NEW d \in Drivers, DriverRecords, RecordInv, RunRecords', Planned(d),
           driver'[d] = driver[d],
           \A r \in Runs : PlansLast(r)
    PROVE  Planned(d)'
<1> SUFFICES ASSUME driver[d].pc = "prepared", Current(d)'
             PROVE  /\ run'[Mine(d)].next # "calling"
                    /\ driver[d].plan.kind = "ask" => PlanFor(run'[Mine(d)], driver[d].plan)
  BY DEF Planned, Mine
<1> DEFINE r == Mine(d)
<1>1. r \in Runs
  BY DEF DriverRecords, Mine
<1>2. /\ driver[d].revision \in Nat /\ run[r].revision \in Nat /\ run'[r].revision \in Nat
      /\ driver[d].revision <= run[r].revision
  BY <1>1 DEF RecordInv, RunRecords, PreparedGoesOn, Mine
<1>3. run'[r].revision = driver[d].revision
  BY DEF Current, Mine
<1>4. ~(run[r].revision < run'[r].revision)
  BY <1>2, <1>3
<1>5. /\ run'[r].revision = run[r].revision
      /\ run[r].next = "calling" \/ SameTalk(run[r], run'[r])
  BY <1>1, <1>4 DEF PlansLast
<1>6. Current(d)
  BY <1>3, <1>5 DEF Current
<1>7. run[r].next # "calling" /\ SameTalk(run[r], run'[r])
  BY <1>5, <1>6 DEF Planned
<1>8. run'[r].next # "calling"
  BY <1>7 DEF SameTalk
<1>9. ASSUME driver[d].plan.kind = "ask" PROVE PlanFor(run'[r], driver[d].plan)
  <2>1. PlanFor(run[r], driver[d].plan)
    BY <1>6, <1>9 DEF Planned
  <2> HIDE DEF r
  <2> QED
    BY <1>7, <2>1, SamePlan
<1> QED
  BY <1>8, <1>9

LEMMA RunsPlansLast ==
    ASSUME UNCHANGED run
    PROVE  \A r \in Runs : PlansLast(r)
BY DEF PlansLast, SameTalk

\* A driver that moves and is not prepared afterwards disturbs nothing.
LEMMA DriverPlans ==
    ASSUME NEW d \in Drivers, DriverRecords, RecordInv, RunRecords', ConversationInv,
           \A r \in Runs : PlansLast(r),
           \A e \in Drivers : e # d => driver'[e] = driver[e],
           Planned(d)'
    PROVE  \A e \in Drivers : Planned(e)'
<1> SUFFICES ASSUME NEW e \in Drivers, e # d PROVE Planned(e)'
  OBVIOUS
<1>1. driver'[e] = driver[e] /\ Planned(e)
  BY DEF ConversationInv
<1> QED
  BY <1>1, PlanLasts

\* A run that changes and keeps what it was told, or takes it over.
LEMMA RunConverses ==
    ASSUME NEW r \in Runs, NEW next, RunRecords, ConversationInv,
           run' = [run EXCEPT ![r] = next], UNCHANGED <<artifacts, driver>>,
           RecordInv, DriverRecords, RunRecords',
           \/ run[r].revision < next.revision
           \/ /\ next.revision = run[r].revision
              /\ run[r].next = "calling" \/ SameTalk(run[r], next),
           Complete(next, artifacts[r])
    PROVE  ConversationInv'
<1>1. run'[r] = next /\ \A x \in Runs : x # r => run'[x] = run[x]
  BY DEF RunRecords
<1>2. ASSUME NEW x \in Runs PROVE Complete(run'[x], artifacts'[x])
  BY <1>1 DEF ConversationInv
<1>3. ASSUME NEW x \in Runs PROVE PlansLast(x)
  <2>1. CASE x = r
    BY <1>1, <2>1 DEF PlansLast
  <2>2. CASE x # r
    BY <1>1, <2>2 DEF PlansLast, SameTalk
  <2> QED
    BY <2>1, <2>2
<1>4. ASSUME NEW e \in Drivers PROVE Planned(e)'
  <2>1. driver'[e] = driver[e] /\ Planned(e)
    BY DEF ConversationInv
  <2> QED
    BY <1>3, <2>1, PlanLasts
<1>5. artifacts' = [x \in Runs |-> artifacts'[x]]
  BY DEF ConversationInv
<1> QED
  BY <1>2, <1>4, <1>5 DEF ConversationInv

\* The transition a driver commits is the one it prepared for this run.
LEMMA CommitConverses ==
    ASSUME NEW d \in Drivers, EvidenceInv, RecordInv, RunRecords', ConversationInv, Commit(d)
    PROVE  ConversationInv'
<1> DEFINE r == Mine(d)
           plan == driver[d].plan
<1>1. /\ DriverRecords /\ RunRecords /\ Doing(d, "prepared") /\ r \in Runs
      /\ DOMAIN run[r] = RunFields /\ run[r].revision \in Nat
  BY DEF Commit, EvidenceInv, DriverRecords, RecordInv, RunRecords, Doing, Mine
<1>2. /\ driver'[d].pc = "idle"
      /\ \A e \in Drivers : e # d => driver'[e] = driver[e]
  BY <1>1, DriverFree DEF Commit
<1>3. Planned(d)'
  BY <1>2 DEF Planned
<1>4. /\ Complete(run[r], artifacts[r])
      /\ artifacts = [x \in Runs |-> artifacts[x]]
      /\ Current(d) /\ plan.kind = "ask" => PlanFor(run[r], plan)
  BY <1>1 DEF ConversationInv, Planned, Doing, Mine
<1>5. ASSUME NEW next, run' = [run EXCEPT ![r] = next], next.revision = run[r].revision + 1,
             artifacts' = [x \in Runs |-> artifacts'[x]],
             \A x \in Runs : x # r => artifacts'[x] = artifacts[x],
             Complete(next, artifacts'[r])
      PROVE  ConversationInv'
  <2> HIDE DEF r, plan
  <2>1. run'[r] = next /\ \A x \in Runs : x # r => run'[x] = run[x]
    BY <1>1, <1>5 DEF RunRecords
  <2>2. ASSUME NEW x \in Runs PROVE PlansLast(x)
    BY <1>1, <1>5, <2>1 DEF PlansLast, SameTalk
  <2>3. ASSUME NEW x \in Runs PROVE Complete(run'[x], artifacts'[x])
    BY <1>5, <2>1 DEF ConversationInv
  <2>4. \A e \in Drivers : Planned(e)'
    BY <1>1, <1>2, <1>3, <2>2, DriverPlans
  <2> QED
    BY <1>5, <2>3, <2>4 DEF ConversationInv
<1>6. CASE UNCHANGED <<run, artifacts>>
  <2>1. \A e \in Drivers : Planned(e)'
    BY <1>1, <1>2, <1>3, <1>6, RunsPlansLast, DriverPlans
  <2> QED
    BY <1>6, <2>1 DEF ConversationInv
<1>7. CASE Current(d) /\ CommitRequest(d)
  <2> DEFINE next == [run[r] EXCEPT !.history = plan.history, !.archive = plan.archive,
                                    !.next = "calling", !.revision = @ + 1]
  <2>1. /\ run' = [run EXCEPT ![r] = next]
        /\ artifacts' = [artifacts EXCEPT ![r] = @ \cup plan.artifacts]
        /\ plan.kind = "ask"
    BY <1>7 DEF CommitRequest
  <2>2. /\ next.told = run[r].told /\ next.next = "calling" /\ next.history = plan.history
        /\ next.archive = plan.archive /\ next.revision = run[r].revision + 1
    BY <1>1 DEF RunFields
  <2> HIDE DEF next, r, plan
  <2>3. /\ artifacts' = [x \in Runs |-> artifacts'[x]]
        /\ artifacts'[r] = artifacts[r] \cup plan.artifacts
        /\ \A x \in Runs : x # r => artifacts'[x] = artifacts[x]
    BY <1>1, <1>4, <2>1
  <2>4. PlanFor(run[r], plan)
    BY <1>4, <1>7, <2>1
  <2>5. Complete(next, artifacts'[r])
    BY <1>4, <2>2, <2>3, <2>4, PlanCompletes
  <2> QED
    BY <1>5, <2>1, <2>2, <2>3, <2>5
<1>8. ASSUME NEW status, run' = [run EXCEPT ![r].status = status, ![r].revision = @ + 1],
             UNCHANGED artifacts
      PROVE  ConversationInv'
  <2> DEFINE next == [run[r] EXCEPT !.status = status, !.revision = @ + 1]
  <2>1. run' = [run EXCEPT ![r] = next]
    BY <1>8
  <2>2. SameTalk(run[r], next) /\ next.revision = run[r].revision + 1
    BY <1>1 DEF RunFields, SameTalk
  <2> HIDE DEF next, r, plan
  <2>3. Complete(next, artifacts'[r])
    BY <1>4, <1>8, <2>2, SameComplete
  <2>4. artifacts' = [x \in Runs |-> artifacts'[x]]
    BY <1>4, <1>8
  <2> QED
    BY <1>5, <1>8, <2>1, <2>2, <2>3, <2>4
<1>9. CASE CommitOutput(d) \/ CommitFailure(d)
  BY <1>8, <1>9 DEF CommitOutput, CommitFailure
<1> QED
  BY <1>6, <1>7, <1>9 DEF Commit

LEMMA ConversationStep ==
    EvidenceInv /\ RecordInv /\ ConversationInv /\ [Next]_vars => ConversationInv'
<1> SUFFICES ASSUME EvidenceInv, RecordInv, ConversationInv, [Next]_vars
             PROVE  ConversationInv'
  OBVIOUS
<1>0. DriverRecords /\ RunRecords /\ RecordInv' /\ RunRecords'
  BY RecordStep DEF EvidenceInv, RecordInv
<1>1. CASE UNCHANGED <<run, artifacts, driver>>
  <2>1. \A d \in Drivers : Planned(d)' <=> Planned(d)
    BY <1>1 DEF Planned, Current, Mine
  <2> QED
    BY <1>1, <2>1 DEF ConversationInv
<1>2. ASSUME NEW r \in Runs, Submit(r) PROVE ConversationInv'
  <2> DEFINE next == [run[r] EXCEPT !.status = "running"]
  <2>1. run' = [run EXCEPT ![r] = next] /\ UNCHANGED <<artifacts, driver>>
    BY <1>2 DEF Submit
  <2>2. SameTalk(run[r], next) /\ next.revision = run[r].revision
    BY <1>0 DEF RunRecords, RunFields, SameTalk
  <2> HIDE DEF next
  <2>3. Complete(next, artifacts[r])
    BY <2>2, SameComplete DEF ConversationInv
  <2> QED
    BY <1>0, <2>1, <2>2, <2>3, RunConverses
<1>3. ASSUME NEW r \in Runs, Cancel(r) PROVE ConversationInv'
  <2> DEFINE next == [run[r] EXCEPT !.status = "cancelled", !.revision = @ + 1]
  <2>1. run' = [run EXCEPT ![r] = next] /\ UNCHANGED <<artifacts, driver>>
    BY <1>3 DEF Cancel
  <2>2. SameTalk(run[r], next) /\ run[r].revision < next.revision
    BY <1>0 DEF RunRecords, RunFields, SameTalk
  <2> HIDE DEF next
  <2>3. Complete(next, artifacts[r])
    BY <2>2, SameComplete DEF ConversationInv
  <2> QED
    BY <1>0, <2>1, <2>2, <2>3, RunConverses
<1>4. ASSUME NEW r \in Runs, ModelAnswers(r) PROVE ConversationInv'
  <2>1. /\ run[r].next = "calling" /\ UNCHANGED <<artifacts, driver>>
        /\ DOMAIN run[r] = RunFields /\ Complete(run[r], artifacts[r])
    BY <1>0, <1>4 DEF ModelAnswers, RunRecords, ConversationInv
  <2>2. CASE run' = [run EXCEPT ![r].next = "final"]
    <3> DEFINE next == [run[r] EXCEPT !.next = "final"]
    <3>1. run' = [run EXCEPT ![r] = next]
      BY <2>2
    <3>2. /\ next.told = run[r].told /\ next.history = run[r].history
          /\ next.archive = run[r].archive /\ next.next = "final"
          /\ next.revision = run[r].revision
      BY <2>1 DEF RunFields
    <3> HIDE DEF next
    <3>3. TakenOf(next) = TakenOf(run[r])
      BY <2>1, <3>2 DEF TakenOf, AllOf
    <3>4. Complete(next, artifacts[r])
      BY <2>1, <3>2, <3>3 DEF Complete, Talk
    <3> QED
      BY <1>0, <2>1, <3>1, <3>2, <3>4, RunConverses
  <2>3. ASSUME NEW size \in Sizes,
               run' = [run EXCEPT ![r].next = "results",
                                  ![r].told = Append(@, [n |-> Len(@) + 1, size |-> size])]
        PROVE  ConversationInv'
    <3> DEFINE result == [n |-> Len(run[r].told) + 1, size |-> size]
               next == [run[r] EXCEPT !.next = "results", !.told = Append(@, result)]
    <3>1. run' = [run EXCEPT ![r] = next]
      BY <2>3
    <3>2. result \in Results
      <4>1. Len(run[r].told) \in Nat
        BY <2>1 DEF Complete, Talk
      <4>2. size \in Nat
        BY RunRecordAssumption
      <4> QED
        BY <4>1, <4>2 DEF Results
    <3>3. /\ next.told = Append(run[r].told, result) /\ next.history = run[r].history
          /\ next.archive = run[r].archive /\ next.next = "results"
          /\ next.revision = run[r].revision
      BY <2>1 DEF RunFields
    <3> HIDE DEF next, result
    <3>4. Complete(next, artifacts[r])
      BY <2>1, <3>2, <3>3, ResultsArrive
    <3> QED
      BY <1>0, <2>1, <3>1, <3>3, <3>4, RunConverses
  <2> QED
    BY <1>4, <2>2, <2>3 DEF ModelAnswers
<1>5. ASSUME NEW d \in Drivers, UNCHANGED <<run, artifacts>>,
             \A e \in Drivers : e # d => driver'[e] = driver[e],
             Planned(d)'
      PROVE  ConversationInv'
  <2>1. \A e \in Drivers : Planned(e)'
    BY <1>0, <1>5, RunsPlansLast, DriverPlans
  <2> QED
    BY <1>5, <2>1 DEF ConversationInv
<1>6. ASSUME NEW d \in Drivers, UNCHANGED <<run, artifacts>>,
             \A e \in Drivers : e # d => driver'[e] = driver[e],
             driver'[d].pc # "prepared"
      PROVE  ConversationInv'
  <2>1. Planned(d)'
    BY <1>6 DEF Planned
  <2> QED
    BY <1>5, <1>6, <2>1
<1>7. ASSUME NEW d \in Drivers, NEW r \in Runs, StartTick(d, r) PROVE ConversationInv'
  <2>1. UNCHANGED <<run, artifacts>>
    BY <1>7 DEF StartTick, recordVars
  <2>2. PICK next : driver' = [driver EXCEPT ![d] = next] /\ next.pc # "prepared"
    <3>1. \A found : [Free EXCEPT !.pc = "recalled", !.run = r, !.recalled = found].pc # "prepared"
      BY DEF Free
    <3>2. [Free EXCEPT !.pc = "ready", !.run = r].pc # "prepared"
      BY DEF Free
    <3> QED
      BY <1>7, <3>1, <3>2, Zenon DEF StartTick
  <2>3. driver'[d].pc # "prepared" /\ \A e \in Drivers : e # d => driver'[e] = driver[e]
    BY <1>0, <2>2 DEF DriverRecords
  <2> QED
    BY <1>6, <2>1, <2>3
<1>8. ASSUME NEW d \in Drivers, TakeSnapshot(d) PROVE ConversationInv'
  <2>1. UNCHANGED <<run, artifacts>>
    BY <1>8 DEF TakeSnapshot
  <2>2. driver' = [driver EXCEPT ![d].pc = "ready", ![d].recalled = {}]
    BY <1>8 DEF TakeSnapshot
  <2>3. driver'[d].pc # "prepared" /\ \A e \in Drivers : e # d => driver'[e] = driver[e]
    BY <1>0, <2>2 DEF DriverRecords, Fields
  <2> QED
    BY <1>6, <2>1, <2>3
<1>9. ASSUME NEW d \in Drivers, Prepare(d) PROVE ConversationInv'
  <2>1. Doing(d, "ready") /\ UNCHANGED <<run, artifacts, snapshots>>
    BY <1>9 DEF Prepare, recordVars
  <2>2. CASE driver' = [driver EXCEPT ![d] = Free]
    <3>1. driver'[d].pc = "idle" /\ \A e \in Drivers : e # d => driver'[e] = driver[e]
      BY <1>0, <2>2, DriverFree
    <3> QED
      BY <1>6, <2>1, <3>1
  <2>3. CASE /\ ~(Terminal(Mine(d)) \/ run[Mine(d)].next = "calling")
             /\ driver' = [driver EXCEPT ![d].pc = "prepared",
                                         ![d].revision = run[Mine(d)].revision,
                                         ![d].plan = Plan(Mine(d))]
    <3> DEFINE r == Mine(d)
    <3>1. /\ \A e \in Drivers : e # d => driver'[e] = driver[e]
          /\ driver'[d].run = r /\ driver'[d].plan = Plan(r)
      BY <1>0, <2>3 DEF DriverRecords, Fields, Mine
    <3>2. r \in Runs /\ Talk(run[r])
      BY <1>0, <2>1 DEF DriverRecords, Doing, Mine, ConversationInv, Complete
    <3>3. Plan(r).kind = "ask" => PlanFor(run[r], Plan(r))
      BY <3>2, PlanSound
    <3>4. Mine(d)' = r
      BY <3>1 DEF Mine
    <3>5. run[r].next # "calling"
      BY <2>3
    <3> HIDE DEF r
    <3>6. Planned(d)'
      BY <2>1, <3>1, <3>3, <3>4, <3>5 DEF Planned
    <3> QED
      BY <1>5, <2>1, <3>1, <3>6
  <2> QED
    BY <1>9, <2>2, <2>3 DEF Prepare
<1>10. ASSUME NEW d \in Drivers, DriverDies(d) PROVE ConversationInv'
  <2>1. UNCHANGED <<run, artifacts>> /\ driver' = [driver EXCEPT ![d] = Free]
    BY <1>10 DEF DriverDies, recordVars
  <2>2. driver'[d].pc = "idle" /\ \A e \in Drivers : e # d => driver'[e] = driver[e]
    BY <1>0, <2>1, DriverFree
  <2> QED
    BY <1>6, <2>1, <2>2
<1>11. ASSUME NEW d \in Drivers, Commit(d) PROVE ConversationInv'
  BY <1>0, <1>11, CommitConverses
<1>12. ASSUME NEW key, NEW old, Retain(key, old) PROVE UNCHANGED <<run, artifacts, driver>>
  BY <1>12 DEF Retain
<1>13. ASSUME NEW i, Delete(i) PROVE UNCHANGED <<run, artifacts, driver>>
  BY <1>13 DEF Delete
<1>14. ASSUME Follow \/ ReadStatus \/ ReadPage \/ PrintEvent \/ Report \/ FetchFails \/ ClientDies
       PROVE  UNCHANGED <<run, artifacts, driver>>
  BY <1>14 DEF Follow, ReadStatus, ReadPage, PrintEvent, Report, FetchFails, ClientDies,
               recordVars
<1>15. UNCHANGED vars => UNCHANGED <<run, artifacts, driver>>
  BY DEF vars, recordVars
<1> QED
  BY <1>1, <1>2, <1>3, <1>4, <1>7, <1>8, <1>9, <1>10, <1>11, <1>12, <1>13, <1>14, <1>15
     DEF Next, MemoryTool

\* Keeping a prompt inside its window loses nothing of a conversation: what the
\* model sees and the chain of the archive are all of it, in order, and every
\* link and every result taken out of it is in the store, for any window, any
\* sizes of the results, and whichever drivers race or die.
THEOREM NothingIsLost == Spec => []Recoverable
<1> DEFINE Inv == EvidenceInv /\ RecordInv /\ ConversationInv
<1>1. Init => Inv
  BY EvidenceInit, RecordInit, ConversationInit
<1>2. Inv /\ [Next]_vars => Inv'
  BY EvidenceStep, RecordStep, ConversationStep
<1>3. Inv => Recoverable
  <2> SUFFICES ASSUME ConversationInv, NEW r \in Runs
               PROVE  LET all == Taken(r)
                          archived == Len(all) - Len(run[r].history)
                      IN /\ archived >= 0
                         /\ run[r].history = SubSeq(all, archived + 1, Len(all))
                         /\ run[r].archive = Archived(NoArchive, SubSeq(all, 1, archived))
                         /\ Between(NoArchive, all, archived) \subseteq artifacts[r]
                         /\ \A i \in DOMAIN all : Outputs(run[r].told[i]) \subseteq artifacts[r]
    BY DEF Recoverable
  <2> DEFINE all == TakenOf(run[r])
  <2>1. Taken(r) = all
    BY DEF Taken, TakenOf, AllOf
  <2>2. Complete(run[r], artifacts[r])
    BY DEF ConversationInv
  <2>3. all \in Seq(Entries) /\ run[r].history \in Seq(Entries) /\ DOMAIN all = 1..Len(all)
    <3>1. all \in Seq(Entries)
      BY <2>2, AllTaken DEF Complete
    <3> HIDE DEF all
    <3> QED
      BY <2>2, <3>1 DEF Complete, Talk
  <2>4. /\ Whole(all, run[r].history, run[r].archive, artifacts[r])
        /\ \A i \in 1..Len(all) : Outputs(run[r].told[i]) \subseteq artifacts[r]
    BY <2>2 DEF Complete
  <2> HIDE DEF all
  <2> QED
    BY <2>1, <2>3, <2>4, WholeIsRecoverable
<1> QED
  BY <1>1, <1>2, <1>3, PTL DEF Spec

(***************************************************************************)
(* Types.  The store grows by the records of the tools, which stop at      *)
(* MaxRecords, and by one for each run that completes.                     *)
(***************************************************************************)
UsedRuns == {r \in Runs : Used(r)}

MemoryBounds ==
    /\ \A i \in Records : memories[i].supersededBy \in 0..Len(memories)
    /\ Len(memories) <= MaxRecords + Cardinality(UsedRuns)

SnapshotBounds ==
    /\ \A d \in Drivers : driver[d].recalled \subseteq Records
    /\ \A r \in DOMAIN snapshots :
          snapshots[r] \subseteq Records /\ Cardinality(snapshots[r]) <= Share

RunBounds(r) ==
    /\ run[r].status \in {"absent", "running"} \cup Done
    /\ run[r].next \in {"start", "calling", "results", "final"}
    /\ Len(run[r].told) <= Longest[r]

ClientBounds ==
    /\ client.pc \in {"off", "status", "drain", "report", "done", "stopped"}
    /\ Len(client.page) <= PageSize
    /\ client.attempt \in 0..MaxRetries
    /\ restarts \in 0..MaxRestarts

TypeInv ==
    /\ MemoryBounds
    /\ SnapshotBounds
    /\ \A r \in Runs : RunBounds(r)
    /\ ClientBounds

LEMMA BoundsAreNumbers ==
    /\ IsFiniteSet(Runs)
    /\ MaxRecords \in Nat /\ Share \in Nat /\ MaxRetries \in Nat /\ MaxRestarts \in Nat
    /\ PageSize \in Nat /\ PageSize # 0
    /\ \A r \in Runs : Longest[r] \in Nat
BY RunRecordAssumption

LEMMA TypeInit == Init => TypeInv
<1> SUFFICES ASSUME Init PROVE TypeInv
  OBVIOUS
<1>1. /\ memories = <<>> /\ DOMAIN memories = {} /\ DOMAIN snapshots = {} /\ restarts = 0
      /\ \A d \in Drivers : driver[d].recalled = {}
      /\ client.pc = "off" /\ client.page = <<>> /\ client.attempt = 0
      /\ \A r \in Runs : run[r].status = "absent" /\ run[r].next = "start" /\ run[r].told = <<>>
  BY DEF Init, Free, Starting
<1>2. Cardinality(UsedRuns) \in Nat
  BY BoundsAreNumbers, FS_Subset, FS_CardinalityType DEF UsedRuns
<1>3. MemoryBounds
  BY <1>1, <1>2, BoundsAreNumbers DEF MemoryBounds, Records
<1>4. SnapshotBounds
  BY <1>1 DEF SnapshotBounds
<1>5. ASSUME NEW r \in Runs PROVE RunBounds(r)
  BY <1>1, BoundsAreNumbers DEF RunBounds
<1>6. ClientBounds
  BY <1>1, BoundsAreNumbers DEF ClientBounds
<1> QED
  BY <1>3, <1>4, <1>5, <1>6 DEF TypeInv

\* A record more, under a key that was not used.
LEMMA OneRecordMore ==
    ASSUME NEW key, NEW old, NEW former, MemoryInv, MemoryBounds,
           former \in Seq(MemoryRecords), Len(former) = Len(memories),
           \A i \in Records : /\ former[i].key = memories[i].key
                              /\ former[i].supersededBy \in 0..(Len(memories) + 1),
           memories' = Append(former, Record(key, old)),
           \/ Len(memories) < MaxRecords
           \/ key \in Runs /\ ~Used(key)
    PROVE  MemoryBounds' /\ Records \subseteq Records'
<1>0. PICK n : n = Len(memories)
  OBVIOUS
<1>1. n \in Nat /\ Records = 1..n
  BY <1>0 DEF MemoryInv, Records
<1>2. /\ Len(memories') = n + 1 /\ Records' = 1..(n + 1)
      /\ \A i \in 1..n : memories'[i] = former[i]
      /\ memories'[n + 1] = Record(key, old)
  BY <1>0, <1>1 DEF Records
<1>3. Record(key, old).key = key /\ Record(key, old).supersededBy = 0
  BY DEF Record
<1>4. ASSUME NEW i \in Records' PROVE memories'[i].supersededBy \in 0..Len(memories')
  <2>1. CASE i \in 1..n
    BY <1>0, <1>1, <1>2, <2>1
  <2>2. CASE i = n + 1
    BY <1>1, <1>2, <1>3, <2>2
  <2>3. i \in 1..n \/ i = n + 1
    BY <1>1, <1>2
  <2> QED
    BY <2>1, <2>2, <2>3
<1>5. /\ IsFiniteSet(UsedRuns) /\ IsFiniteSet(UsedRuns')
      /\ Cardinality(UsedRuns) \in Nat /\ Cardinality(UsedRuns') \in Nat
  BY BoundsAreNumbers, FS_Subset, FS_CardinalityType DEF UsedRuns
<1>6. UsedRuns \subseteq UsedRuns'
  <2> SUFFICES ASSUME NEW r \in Runs, NEW i \in Records, memories[i].key = r PROVE Used(r)'
    BY DEF UsedRuns, Used
  <2>1. i \in 1..n /\ i \in Records'
    BY <1>1, <1>2
  <2>2. memories'[i].key = r
    BY <1>1, <1>2, <2>1
  <2> QED
    BY <2>1, <2>2 DEF Used
<1>7. Records \subseteq Records'
  BY <1>1, <1>2
<1>8. CASE Len(memories) < MaxRecords
  BY <1>0, <1>1, <1>2, <1>4, <1>5, <1>7, <1>8, BoundsAreNumbers DEF MemoryBounds
<1>9. CASE key \in Runs /\ ~Used(key)
  <2>1. key \in UsedRuns' /\ key \notin UsedRuns
    <3>1. n + 1 \in Records' /\ memories'[n + 1].key = key
      BY <1>1, <1>2, <1>3
    <3> QED
      BY <1>9, <3>1 DEF UsedRuns, Used
  <2>2. Cardinality(UsedRuns \cup {key}) = Cardinality(UsedRuns) + 1
    BY <1>5, <2>1, FS_AddElement
  <2>3. UsedRuns \cup {key} \subseteq UsedRuns'
    BY <1>6, <2>1
  <2>4. Cardinality(UsedRuns \cup {key}) <= Cardinality(UsedRuns')
    BY <1>5, <2>3, FS_Subset
  <2>5. Len(memories') <= MaxRecords + Cardinality(UsedRuns')
    BY <1>0, <1>1, <1>2, <1>5, <2>2, <2>4, BoundsAreNumbers DEF MemoryBounds
  <2> QED
    BY <1>4, <1>7, <2>5 DEF MemoryBounds
<1> QED
  BY <1>8, <1>9

LEMMA RetainBounds ==
    ASSUME NEW key, NEW old, MemoryInv, MemoryBounds, Retain(key, old)
    PROVE  MemoryBounds' /\ Records \subseteq Records'
<1>0. PICK n : n = Len(memories)
  OBVIOUS
<1>1. /\ memories \in Seq(MemoryRecords) /\ n \in Nat /\ Records = 1..n /\ n < MaxRecords
      /\ \A i \in Records : memories[i] \in MemoryRecords
      /\ \A i \in Records : memories[i].supersededBy \in 0..n
  BY <1>0 DEF MemoryInv, MemoryBounds, Records, Retain
<1>2. \A i \in 0..n : i \in 0..(n + 1)
  BY <1>1
<1>3. CASE memories' = Append(memories, Record(key, 0))
  <2>1. \A i \in Records : memories[i].supersededBy \in 0..(n + 1)
    BY <1>1, <1>2
  <2> QED
    BY <1>0, <1>1, <1>3, <2>1, OneRecordMore
<1>4. CASE /\ old \in Records
           /\ memories' = Append([memories EXCEPT ![old].supersededBy = Len(memories) + 1],
                                 Record(key, old))
  <2> DEFINE former == [memories EXCEPT ![old].supersededBy = n + 1]
  <2>1. ASSUME NEW i \in Records
        PROVE  former[i] = IF i = old THEN [memories[i] EXCEPT !.supersededBy = n + 1]
                                      ELSE memories[i]
    BY <1>1 DEF Records
  <2>2. n + 1 \in Nat /\ n + 1 \in 0..(n + 1)
    BY <1>1
  <2>3. ASSUME NEW i \in Records
        PROVE  /\ former[i] \in MemoryRecords /\ former[i].key = memories[i].key
               /\ former[i].supersededBy \in 0..(n + 1)
    <3> HIDE DEF former
    <3>1. CASE i = old
      <4>1. former[i] = [memories[i] EXCEPT !.supersededBy = n + 1]
        BY <2>1, <3>1
      <4>2. memories[i] \in MemoryRecords
        BY <1>1
      <4>3. /\ former[i] \in MemoryRecords /\ former[i].key = memories[i].key
            /\ former[i].supersededBy = n + 1
        BY <2>2, <4>1, <4>2, CorrectedFields
      <4> QED
        BY <2>2, <4>3
    <3>2. CASE i # old
      BY <1>1, <1>2, <2>1, <3>2
    <3> QED
      BY <3>1, <3>2
  <2>4. former \in Seq(MemoryRecords) /\ Len(former) = n
    <3>1. [memories[old] EXCEPT !.supersededBy = n + 1] \in MemoryRecords
      BY <1>1, <1>4, <2>2, CorrectedFields, Zenon
    <3> QED
      BY <1>0, <1>1, <1>4, <3>1 DEF Records
  <2>5. memories' = Append(former, Record(key, old))
    BY <1>0, <1>4
  <2> HIDE DEF former
  <2>6. \A i \in Records : /\ former[i].key = memories[i].key
                           /\ former[i].supersededBy \in 0..(Len(memories) + 1)
    BY <1>0, <2>3
  <2>7. Len(former) = Len(memories) /\ Len(memories) < MaxRecords
    BY <1>0, <1>1, <2>4
  <2> QED
    BY <2>4, <2>5, <2>6, <2>7, OneRecordMore
<1> QED
  BY <1>3, <1>4 DEF Retain

LEMMA DeleteBounds ==
    ASSUME NEW i \in Records, MemoryInv, MemoryBounds,
           memories' = [memories EXCEPT ![i].deleted = TRUE]
    PROVE  MemoryBounds' /\ Records \subseteq Records'
<1>1. memories \in Seq(MemoryRecords) /\ \A x \in Records : memories[x] \in MemoryRecords
  BY DEF MemoryInv, Records
<1>2. [memories[i] EXCEPT !.deleted = TRUE] \in MemoryRecords
  BY <1>1, ErasedFields
<1>3. Len(memories') = Len(memories) /\ Records' = Records
  BY <1>1, <1>2 DEF Records
<1>4. ASSUME NEW x \in Records
      PROVE  /\ memories'[x].key = memories[x].key
             /\ memories'[x].supersededBy = memories[x].supersededBy
  <2>1. memories'[x] = IF x = i THEN [memories[x] EXCEPT !.deleted = TRUE] ELSE memories[x]
    BY <1>1 DEF Records
  <2> QED
    BY <1>1, <2>1, ErasedFields
<1>5. UsedRuns' = UsedRuns
  BY <1>3, <1>4 DEF UsedRuns, Used
<1> QED
  BY <1>3, <1>4, <1>5 DEF MemoryBounds

LEMMA MemoryBoundsStep ==
    EvidenceInv /\ MemoryInv /\ MemoryBounds /\ [Next]_vars
        => MemoryBounds' /\ Records \subseteq Records'
<1> DEFINE Goal == MemoryBounds' /\ Records \subseteq Records'
<1> SUFFICES ASSUME EvidenceInv, MemoryInv, MemoryBounds, [Next]_vars PROVE Goal
  OBVIOUS
<1>1. ASSUME UNCHANGED memories PROVE Goal
  BY <1>1 DEF MemoryBounds, Records, UsedRuns, Used
<1>2. ASSUME NEW key, NEW old, Retain(key, old) PROVE Goal
  BY <1>2, RetainBounds
<1>3. ASSUME NEW i \in Records, Delete(i) PROVE Goal
  BY <1>3, DeleteBounds DEF Delete
<1>4. ASSUME NEW d \in Drivers, Commit(d) PROVE Goal
  <2>1. Mine(d) \in Runs
    BY <1>4 DEF EvidenceInv, DriverRecords, Commit, Doing, Mine
  <2>2. CASE CommitOutput(d)
    <3>1. CASE Used(Mine(d))
      BY <1>1, <2>2, <3>1 DEF CommitOutput, Remembering
    <3>2. CASE ~Used(Mine(d))
      <4>1. memories' = Append(memories, Record(Mine(d), 0))
        BY <2>2, <3>2 DEF CommitOutput, Remembering
      <4>2. memories \in Seq(MemoryRecords)
        BY DEF MemoryInv
      <4>3. \A i \in Records : memories[i].supersededBy \in 0..(Len(memories) + 1)
        <5>1. Len(memories) \in Nat
          BY <4>2
        <5>2. \A n \in 0..Len(memories) : n \in 0..(Len(memories) + 1)
          BY <5>1
        <5> QED
          BY <5>2 DEF MemoryBounds
      <4> QED
        BY <2>1, <3>2, <4>1, <4>2, <4>3, OneRecordMore
    <3> QED
      BY <3>1, <3>2
  <2> QED
    BY <1>1, <1>4, <2>2 DEF Commit, CommitRequest, CommitFailure
<1>5. ASSUME NEW r \in Runs, Submit(r) \/ ModelAnswers(r) \/ Cancel(r) PROVE UNCHANGED memories
  BY <1>5 DEF Submit, ModelAnswers, Cancel
<1>6. ASSUME NEW d \in Drivers, NEW r \in Runs, StartTick(d, r) PROVE UNCHANGED memories
  BY <1>6 DEF StartTick, recordVars
<1>7. ASSUME NEW d \in Drivers, TakeSnapshot(d) \/ Prepare(d) \/ DriverDies(d)
      PROVE  UNCHANGED memories
  BY <1>7 DEF TakeSnapshot, Prepare, DriverDies, recordVars
<1>8. ASSUME Follow \/ ReadStatus \/ ReadPage \/ PrintEvent \/ Report \/ FetchFails \/ ClientDies
      PROVE  UNCHANGED memories
  BY <1>8 DEF Follow, ReadStatus, ReadPage, PrintEvent, Report, FetchFails, ClientDies, recordVars
<1>9. UNCHANGED vars => UNCHANGED memories
  BY DEF vars, recordVars
<1> HIDE DEF Goal
<1> QED
  BY <1>1, <1>2, <1>3, <1>4, <1>5, <1>6, <1>7, <1>8, <1>9 DEF Next, MemoryTool

\* A snapshot is part of what its driver recalled.
LEMMA SnapshotBoundsStep ==
    ASSUME EvidenceInv, SnapshotBounds, [Next]_vars, Records \subseteq Records'
    PROVE  SnapshotBounds'
<1>0. DriverRecords
  BY DEF EvidenceInv
<1>1. ASSUME UNCHANGED snapshots,
             \A d \in Drivers : \/ driver'[d].recalled \subseteq driver[d].recalled
                                \/ driver'[d].recalled \subseteq Records
      PROVE  SnapshotBounds'
  BY <1>1 DEF SnapshotBounds
<1>2. CASE UNCHANGED <<driver, snapshots>>
  BY <1>1, <1>2
<1>3. ASSUME NEW d \in Drivers, driver' = [driver EXCEPT ![d] = Free], UNCHANGED snapshots
      PROVE  SnapshotBounds'
  <2>1. driver'[d] = Free /\ \A e \in Drivers : e # d => driver'[e] = driver[e]
    BY <1>0, <1>3 DEF DriverRecords
  <2> QED
    BY <1>1, <1>3, <2>1 DEF Free
<1>4. ASSUME NEW d \in Drivers, NEW r \in Runs, StartTick(d, r) PROVE SnapshotBounds'
  <2>1. PICK next : driver' = [driver EXCEPT ![d] = next] /\ next.recalled \subseteq Records
    <3>1. [Free EXCEPT !.pc = "ready", !.run = r].recalled = {}
      BY DEF Free
    <3>2. \A found : [Free EXCEPT !.pc = "recalled", !.run = r, !.recalled = found].recalled = found
      BY DEF Free
    <3>3. \A found \in (IF run[r].next = "start" THEN Recalls ELSE {{}}) : found \subseteq Records
      BY DEF Recalls
    <3>4. CASE driver' = [driver EXCEPT ![d] = [Free EXCEPT !.pc = "ready", !.run = r]]
      BY <3>1, <3>4
    <3>5. ASSUME NEW found \in (IF run[r].next = "start" THEN Recalls ELSE {{}}),
                 driver' = [driver EXCEPT ![d] = [Free EXCEPT !.pc = "recalled", !.run = r,
                                                              !.recalled = found]]
          PROVE  \E next : driver' = [driver EXCEPT ![d] = next] /\ next.recalled \subseteq Records
      <4> DEFINE next == [Free EXCEPT !.pc = "recalled", !.run = r, !.recalled = found]
      <4>1. driver' = [driver EXCEPT ![d] = next]
        BY <3>5
      <4>2. next.recalled \subseteq Records
        BY <3>2, <3>3
      <4> HIDE DEF next
      <4> QED
        BY <4>1, <4>2
    <3> QED
      BY <1>4, <3>4, <3>5, Zenon DEF StartTick
  <2>2. driver'[d] = next /\ \A e \in Drivers : e # d => driver'[e] = driver[e]
    BY <1>0, <2>1 DEF DriverRecords
  <2>3. UNCHANGED snapshots
    BY <1>4 DEF StartTick, recordVars
  <2> QED
    BY <1>1, <2>1, <2>2, <2>3
<1>5. ASSUME NEW d \in Drivers, TakeSnapshot(d) PROVE SnapshotBounds'
  <2>1. driver' = [driver EXCEPT ![d].pc = "ready", ![d].recalled = {}]
    BY <1>5 DEF TakeSnapshot
  <2>2. driver'[d].recalled = {} /\ \A e \in Drivers : e # d => driver'[e] = driver[e]
    BY <1>0, <2>1 DEF DriverRecords, Fields
  <2>3. CASE UNCHANGED snapshots
    BY <1>1, <2>2, <2>3
  <2>4. ASSUME NEW kept \in Kept(driver[d].recalled),
               snapshots' = [x \in DOMAIN snapshots \cup {Mine(d)} |->
                                IF x = Mine(d) THEN kept ELSE snapshots[x]]
        PROVE  SnapshotBounds'
    <3>1. kept \subseteq driver[d].recalled /\ driver[d].recalled \subseteq Records
      BY DEF Kept, SnapshotBounds
    <3>2. Cardinality(kept) <= Share
      <4>1. Cardinality(kept) = IF Cardinality(driver[d].recalled) <= Share
                                THEN Cardinality(driver[d].recalled) ELSE Share
        BY DEF Kept
      <4>2. Share <= Share
        BY BoundsAreNumbers
      <4> QED
        BY <4>1, <4>2
    <3>3. ASSUME NEW x \in DOMAIN snapshots'
          PROVE  snapshots'[x] \subseteq Records /\ Cardinality(snapshots'[x]) <= Share
      <4>1. \/ snapshots'[x] = kept
            \/ x \in DOMAIN snapshots /\ snapshots'[x] = snapshots[x]
        BY <2>4, Zenon
      <4> QED
        BY <3>1, <3>2, <4>1 DEF SnapshotBounds
    <3>4. \A e \in Drivers : driver'[e].recalled \subseteq Records
      BY <2>2 DEF SnapshotBounds
    <3> QED
      BY <3>3, <3>4 DEF SnapshotBounds
  <2> QED
    BY <1>5, <2>3, <2>4 DEF TakeSnapshot
<1>6. ASSUME NEW d \in Drivers, Prepare(d) PROVE SnapshotBounds'
  <2>1. UNCHANGED snapshots
    BY <1>6 DEF Prepare, recordVars
  <2>2. CASE driver' = [driver EXCEPT ![d].pc = "prepared",
                                      ![d].revision = run[Mine(d)].revision,
                                      ![d].plan = Plan(Mine(d))]
    <3>1. /\ driver'[d].recalled = driver[d].recalled
          /\ \A e \in Drivers : e # d => driver'[e] = driver[e]
      BY <1>0, <2>2 DEF DriverRecords, Fields
    <3> QED
      BY <1>1, <2>1, <3>1
  <2> QED
    BY <1>3, <1>6, <2>1, <2>2 DEF Prepare
<1>7. ASSUME NEW d \in Drivers, Commit(d) \/ DriverDies(d)
      PROVE  driver' = [driver EXCEPT ![d] = Free] /\ UNCHANGED snapshots
  BY <1>7 DEF Commit, DriverDies, recordVars
<1>8. ASSUME NEW key, NEW old, Retain(key, old) PROVE UNCHANGED <<driver, snapshots>>
  BY <1>8 DEF Retain
<1>9. ASSUME NEW i, Delete(i) PROVE UNCHANGED <<driver, snapshots>>
  BY <1>9 DEF Delete
<1>10. ASSUME NEW r \in Runs, Submit(r) \/ ModelAnswers(r) \/ Cancel(r)
       PROVE  UNCHANGED <<driver, snapshots>>
  BY <1>10 DEF Submit, ModelAnswers, Cancel
<1>11. ASSUME Follow \/ ReadStatus \/ ReadPage \/ PrintEvent \/ Report \/ FetchFails \/ ClientDies
       PROVE  UNCHANGED <<driver, snapshots>>
  BY <1>11 DEF Follow, ReadStatus, ReadPage, PrintEvent, Report, FetchFails, ClientDies,
               recordVars
<1>12. UNCHANGED vars => UNCHANGED <<driver, snapshots>>
  BY DEF vars, recordVars
<1> QED
  BY <1>2, <1>3, <1>4, <1>5, <1>6, <1>7, <1>8, <1>9, <1>10, <1>11, <1>12 DEF Next, MemoryTool

LEMMA OneRunBounds ==
    ASSUME NEW r \in Runs, NEW next, RunRecords, \A x \in Runs : RunBounds(x),
           run' = [run EXCEPT ![r] = next],
           next.status \in {"absent", "running"} \cup Done,
           next.next \in {"start", "calling", "results", "final"},
           Len(next.told) <= Longest[r]
    PROVE  \A x \in Runs : RunBounds(x)'
<1>1. run'[r] = next /\ \A x \in Runs : x # r => run'[x] = run[x]
  BY DEF RunRecords
<1> QED
  BY <1>1 DEF RunBounds

LEMMA RunBoundsStep ==
    ASSUME EvidenceInv, RecordInv, ConversationInv, \A r \in Runs : RunBounds(r), [Next]_vars
    PROVE  \A r \in Runs : RunBounds(r)'
<1> DEFINE Goal == \A r \in Runs : RunBounds(r)'
<1>0. RunRecords /\ \A r \in Runs : DOMAIN run[r] = RunFields
  BY DEF RecordInv, RunRecords
<1>1. CASE UNCHANGED run
  BY <1>1 DEF RunBounds
<1>2. ASSUME NEW r \in Runs, NEW status \in {"running"} \cup Done, NEW revision,
             run' = [run EXCEPT ![r] = [run[r] EXCEPT !.status = status, !.revision = revision]]
      PROVE  Goal
  <2> DEFINE next == [run[r] EXCEPT !.status = status, !.revision = revision]
  <2>1. next.status = status /\ next.next = run[r].next /\ next.told = run[r].told
    BY <1>0 DEF RunFields
  <2>2. run' = [run EXCEPT ![r] = next]
    BY <1>2
  <2>3. RunBounds(r)
    OBVIOUS
  <2> HIDE DEF next
  <2> QED
    BY <1>0, <2>1, <2>2, <2>3, OneRunBounds DEF RunBounds
<1>3. ASSUME NEW r \in Runs, Submit(r) PROVE Goal
  <2> DEFINE next == [run[r] EXCEPT !.status = "running"]
  <2>1. next.status = "running" /\ next.next = run[r].next /\ next.told = run[r].told
    BY <1>0 DEF RunFields
  <2>2. run' = [run EXCEPT ![r] = next]
    BY <1>3 DEF Submit
  <2>3. RunBounds(r)
    OBVIOUS
  <2> HIDE DEF next
  <2> QED
    BY <1>0, <2>1, <2>2, <2>3, OneRunBounds DEF RunBounds
<1>4. ASSUME NEW r \in Runs, Cancel(r) PROVE Goal
  <2>1. run' = [run EXCEPT ![r] = [run[r] EXCEPT !.status = "cancelled",
                                                 !.revision = run[r].revision + 1]]
    BY <1>4 DEF Cancel
  <2>2. "cancelled" \in {"running"} \cup Done
    BY DEF Done
  <2> HIDE DEF Goal
  <2> QED
    BY <1>2, <2>1, <2>2
<1>5. ASSUME NEW r \in Runs, ModelAnswers(r) PROVE Goal
  <2>0. RunBounds(r)
    OBVIOUS
  <2>1. CASE run' = [run EXCEPT ![r].next = "final"]
    <3> DEFINE next == [run[r] EXCEPT !.next = "final"]
    <3>1. next.status = run[r].status /\ next.next = "final" /\ next.told = run[r].told
      BY <1>0 DEF RunFields
    <3>2. run' = [run EXCEPT ![r] = next]
      BY <2>1
    <3> HIDE DEF next
    <3> QED
      BY <1>0, <2>0, <3>1, <3>2, OneRunBounds DEF RunBounds
  <2>2. ASSUME NEW size \in Sizes, Len(run[r].told) < Longest[r],
               run' = [run EXCEPT ![r].next = "results",
                                  ![r].told = Append(@, [n |-> Len(@) + 1, size |-> size])]
        PROVE  Goal
    <3> DEFINE told == Append(run[r].told, [n |-> Len(run[r].told) + 1, size |-> size])
               next == [run[r] EXCEPT !.next = "results", !.told = told]
    <3>1. next.status = run[r].status /\ next.next = "results" /\ next.told = told
      BY <1>0 DEF RunFields
    <3>2. run' = [run EXCEPT ![r] = next]
      BY <2>2
    <3>3. Len(told) <= Longest[r]
      <4>1. run[r].told \in Seq(Results)
        BY DEF ConversationInv, Complete, Talk
      <4>2. [n |-> Len(run[r].told) + 1, size |-> size] \in Results
        BY <4>1, RunRecordAssumption DEF Results
      <4>3. Len(told) = Len(run[r].told) + 1 /\ Len(run[r].told) \in Nat
        BY <4>1, <4>2
      <4> HIDE DEF told
      <4> QED
        BY <2>2, <4>3, BoundsAreNumbers
    <3> HIDE DEF next, told
    <3> QED
      BY <1>0, <2>0, <3>1, <3>2, <3>3, OneRunBounds DEF RunBounds
  <2> HIDE DEF Goal
  <2> QED
    BY <1>5, <2>1, <2>2 DEF ModelAnswers
<1>6. ASSUME NEW d \in Drivers, Commit(d) PROVE Goal
  <2>1. PICK r \in Runs : r = Mine(d)
    BY <1>6 DEF EvidenceInv, DriverRecords, Commit, Doing, Mine
  <2>2. CASE CommitRequest(d)
    <3> DEFINE plan == driver[d].plan
               next == [run[r] EXCEPT !.history = plan.history, !.archive = plan.archive,
                                      !.next = "calling", !.revision = @ + 1]
    <3>1. next.status = run[r].status /\ next.next = "calling" /\ next.told = run[r].told
      BY <1>0, <2>1 DEF RunFields
    <3>2. run' = [run EXCEPT ![r] = next]
      BY <2>1, <2>2 DEF CommitRequest
    <3>3. RunBounds(r)
      BY <2>1
    <3> HIDE DEF next
    <3> QED
      BY <1>0, <2>1, <3>1, <3>2, <3>3, OneRunBounds DEF RunBounds
  <2>3. CASE CommitOutput(d)
    <3>1. run' = [run EXCEPT ![r] = [run[r] EXCEPT !.status = "completed",
                                                   !.revision = run[r].revision + 1]]
      BY <2>1, <2>3 DEF CommitOutput
    <3>2. "completed" \in {"running"} \cup Done
      BY DEF Done
    <3> HIDE DEF Goal
    <3> QED
      BY <1>2, <2>1, <3>1, <3>2
  <2>4. CASE CommitFailure(d)
    <3>1. run' = [run EXCEPT ![r] = [run[r] EXCEPT !.status = "failed",
                                                   !.revision = run[r].revision + 1]]
      BY <2>1, <2>4 DEF CommitFailure
    <3>2. "failed" \in {"running"} \cup Done
      BY DEF Done
    <3> HIDE DEF Goal
    <3> QED
      BY <1>2, <2>1, <3>1, <3>2
  <2> HIDE DEF Goal
  <2> QED
    BY <1>1, <1>6, <2>2, <2>3, <2>4 DEF Commit, Goal
<1>7. ASSUME NEW d \in Drivers, NEW r \in Runs, StartTick(d, r) PROVE UNCHANGED run
  BY <1>7 DEF StartTick, recordVars
<1>8. ASSUME NEW d \in Drivers, TakeSnapshot(d) \/ Prepare(d) \/ DriverDies(d)
      PROVE  UNCHANGED run
  BY <1>8 DEF TakeSnapshot, Prepare, DriverDies, recordVars
<1>9. ASSUME NEW key, NEW old, Retain(key, old) PROVE UNCHANGED run
  BY <1>9 DEF Retain
<1>10. ASSUME NEW i, Delete(i) PROVE UNCHANGED run
  BY <1>10 DEF Delete
<1>11. ASSUME Follow \/ ReadStatus \/ ReadPage \/ PrintEvent \/ Report \/ FetchFails \/ ClientDies
       PROVE  UNCHANGED run
  BY <1>11 DEF Follow, ReadStatus, ReadPage, PrintEvent, Report, FetchFails, ClientDies,
               recordVars
<1>12. UNCHANGED vars => UNCHANGED run
  BY DEF vars, recordVars
<1> HIDE DEF Goal
<1>13. Goal
  BY <1>1, <1>3, <1>4, <1>5, <1>6, <1>7, <1>8, <1>9, <1>10, <1>11, <1>12
     DEF Next, MemoryTool, Goal
<1> QED
  BY <1>13 DEF Goal

LEMMA ShortPage ==
    ASSUME NEW after \in Nat, Len(events[Followed]) \in Nat, after <= Len(events[Followed])
    PROVE  Len(EventPage(after)) <= PageSize
<1> DEFINE last == IF Len(events[Followed]) < after + PageSize
                   THEN Len(events[Followed]) ELSE after + PageSize
<1>1. last - after \in Nat /\ last - after <= PageSize
  BY BoundsAreNumbers
<1>2. EventPage(after) = [i \in 1..(last - after) |-> after + i]
  BY DEF EventPage
<1> HIDE DEF last
<1>3. Len(EventPage(after)) = last - after
  BY <1>1, <1>2
<1> QED
  BY <1>1, <1>3

LEMMA ClientBoundsStep ==
    ASSUME RecordInv, ClientInv, ClientBounds, [Next]_vars
    PROVE  ClientBounds'
<1>0. /\ DOMAIN client = ClientFields /\ client.page \in Seq(Nat)
      /\ client.after = Len(screen) /\ Len(screen) \in Nat /\ Len(events[Followed]) \in Nat
      /\ Len(screen) <= Len(events[Followed])
  BY RunRecordAssumption DEF RecordInv, RunRecords, ClientInv, Printed, OnePage
<1>1. CASE UNCHANGED <<client, restarts>>
  BY <1>1 DEF ClientBounds
<1>2. CASE Follow
  <2>1. client'.pc = "status" /\ client'.page = <<>> /\ client'.attempt = 0
    BY <1>2 DEF Follow, Starting
  <2>2. Len(<<>>) <= PageSize /\ 0 \in 0..MaxRetries
    BY BoundsAreNumbers
  <2>3. restarts' \in 0..MaxRestarts
    BY <1>2, BoundsAreNumbers DEF Follow, ClientBounds
  <2> QED
    BY <2>1, <2>2, <2>3 DEF ClientBounds
<1>3. CASE ReadStatus
  <2>1. /\ client'.pc = "drain" /\ client'.page = client.page /\ client'.attempt = 0
        /\ UNCHANGED restarts
    BY <1>0, <1>3 DEF ReadStatus, ClientFields
  <2> QED
    BY <2>1, BoundsAreNumbers DEF ClientBounds
<1>4. CASE ReadPage
  <2>1. /\ client'.pc \in {"report", "drain"} /\ client'.page = EventPage(client.after)
        /\ client'.attempt = 0 /\ UNCHANGED restarts
    BY <1>0, <1>4 DEF ReadPage, ClientFields
  <2>2. Len(EventPage(client.after)) <= PageSize
    BY <1>0, ShortPage
  <2> QED
    BY <2>1, <2>2, BoundsAreNumbers DEF ClientBounds
<1>5. CASE PrintEvent
  <2>1. /\ client'.pc = client.pc /\ client'.page = Tail(client.page) /\ client.page # <<>>
        /\ client'.attempt = client.attempt /\ UNCHANGED restarts
    BY <1>0, <1>5 DEF PrintEvent, ClientFields
  <2>2. Len(Tail(client.page)) = Len(client.page) - 1 /\ Len(client.page) \in Nat
    BY <1>0, <2>1
  <2>3. Len(Tail(client.page)) <= PageSize
    BY <2>2, BoundsAreNumbers DEF ClientBounds
  <2> QED
    BY <2>1, <2>3 DEF ClientBounds
<1>6. CASE Report \/ ClientDies
  <2>1. /\ client'.pc \in {"done", "status", "stopped"} /\ client'.page = client.page
        /\ client'.attempt = client.attempt /\ UNCHANGED restarts
    BY <1>0, <1>6 DEF Report, ClientDies, ClientFields
  <2> QED
    BY <2>1 DEF ClientBounds
<1>7. CASE FetchFails
  <2>1. CASE client.attempt < MaxRetries
    <3>1. /\ client'.pc = client.pc /\ client'.page = client.page
          /\ client'.attempt = client.attempt + 1 /\ UNCHANGED restarts
      BY <1>0, <1>7, <2>1 DEF FetchFails, ClientFields
    <3>2. client.attempt + 1 \in 0..MaxRetries
      BY <2>1, BoundsAreNumbers DEF ClientBounds
    <3> QED
      BY <3>1, <3>2 DEF ClientBounds
  <2>2. CASE ~(client.attempt < MaxRetries)
    <3>1. /\ client'.pc = "stopped" /\ client'.page = client.page
          /\ client'.attempt = client.attempt /\ UNCHANGED restarts
      BY <1>0, <1>7, <2>2 DEF FetchFails, ClientFields
    <3> QED
      BY <3>1 DEF ClientBounds
  <2> QED
    BY <2>1, <2>2
<1>8. ASSUME NEW key, NEW old, Retain(key, old) PROVE UNCHANGED <<client, restarts>>
  BY <1>8 DEF Retain, clientVars
<1>9. ASSUME NEW i, Delete(i) PROVE UNCHANGED <<client, restarts>>
  BY <1>9 DEF Delete, clientVars
<1>10. ASSUME NEW r \in Runs, Submit(r) \/ ModelAnswers(r) \/ Cancel(r)
       PROVE  UNCHANGED <<client, restarts>>
  BY <1>10 DEF Submit, ModelAnswers, Cancel, clientVars
<1>11. ASSUME NEW d \in Drivers, NEW r \in Runs, StartTick(d, r)
       PROVE  UNCHANGED <<client, restarts>>
  BY <1>11 DEF StartTick, clientVars
<1>12. ASSUME NEW d \in Drivers, TakeSnapshot(d) \/ Prepare(d) \/ Commit(d) \/ DriverDies(d)
       PROVE  UNCHANGED <<client, restarts>>
  BY <1>12 DEF TakeSnapshot, Prepare, Commit, DriverDies, clientVars
<1>13. UNCHANGED vars => UNCHANGED <<client, restarts>>
  BY DEF vars, clientVars
<1> QED
  BY <1>1, <1>2, <1>3, <1>4, <1>5, <1>6, <1>7, <1>8, <1>9, <1>10, <1>11, <1>12, <1>13
     DEF Next, MemoryTool

\* The store, the drivers and the client keep their types; nothing but the
\* completion of runs, once for each, makes records beyond the bound of the
\* tools, and no snapshot is larger than the prompt has room for.
THEOREM RecordTyping == Spec => []TypeOK
<1> DEFINE Inv == /\ EvidenceInv /\ RecordInv /\ ClientInv /\ MemoryInv /\ ConversationInv
                  /\ TypeInv
<1>1. Init => Inv
  BY EvidenceInit, RecordInit, ClientInit, MemoryInit, ConversationInit, TypeInit
<1>2. Inv /\ [Next]_vars => Inv'
  <2> SUFFICES ASSUME Inv, [Next]_vars PROVE Inv'
    OBVIOUS
  <2>1. EvidenceInv' /\ RecordInv' /\ ClientInv' /\ MemoryInv' /\ ConversationInv'
    BY EvidenceStep, RecordStep, ClientKept, MemoryStep, ConversationStep
  <2>2. MemoryBounds' /\ Records \subseteq Records'
    BY MemoryBoundsStep DEF TypeInv
  <2>3. SnapshotBounds'
    BY <2>2, SnapshotBoundsStep DEF TypeInv
  <2>4. \A r \in Runs : RunBounds(r)'
    BY RunBoundsStep DEF TypeInv
  <2>5. ClientBounds'
    BY ClientBoundsStep DEF TypeInv
  <2>6. TypeInv'
    BY <2>2, <2>3, <2>4, <2>5 DEF TypeInv
  <2> QED
    BY <2>1, <2>6
<1>3. Inv => TypeOK
  <2> SUFFICES ASSUME Inv PROVE TypeOK
    OBVIOUS
  <2>1. ASSUME NEW i \in Records
        PROVE  /\ memories[i].key \in Keys \cup Runs
               /\ memories[i].supersedes \in 0..(i - 1)
               /\ memories[i].supersededBy = 0 \/ memories[i].supersededBy \in Records
    <3>1. memories \in Seq(MemoryRecords) /\ Records = 1..Len(memories) /\ Len(memories) \in Nat
      BY DEF MemoryInv, Records
    <3>2. memories[i] \in MemoryRecords
      BY <3>1
    <3>3. memories[i].supersededBy \in 0..Len(memories)
      BY DEF TypeInv, MemoryBounds
    <3>4. memories[i].key \in Keys \cup Runs /\ memories[i].supersedes \in 0..(i - 1)
      BY <3>2 DEF MemoryInv, MemoryRecords, Corrects
    <3> QED
      BY <3>1, <3>3, <3>4
  <2>2. Len(memories) <= MaxRecords + Cardinality(Runs)
    <3>1. UsedRuns \subseteq Runs
      BY DEF UsedRuns
    <3>2. /\ Cardinality(UsedRuns) <= Cardinality(Runs)
          /\ Cardinality(UsedRuns) \in Nat /\ Cardinality(Runs) \in Nat
      BY <3>1, BoundsAreNumbers, FS_Subset, FS_CardinalityType
    <3>3. Len(memories) \in Nat
      BY DEF MemoryInv
    <3> QED
      BY <3>2, <3>3, BoundsAreNumbers DEF TypeInv, MemoryBounds
  <2>3. ASSUME NEW r \in Runs PROVE Len(run[r].history) <= Len(run[r].told)
    <3>1. Complete(run[r], artifacts[r])
      BY DEF ConversationInv
    <3>2. /\ TakenOf(run[r]) \in Seq(Entries) /\ NewsOf(run[r]) \in Seq(Entries)
          /\ Len(AllOf(run[r])) = Len(run[r].told)
          /\ AllOf(run[r]) = TakenOf(run[r]) \o NewsOf(run[r])
      BY <3>1, AllTaken DEF Complete
    <3>3. Len(run[r].told) = Len(TakenOf(run[r])) + Len(NewsOf(run[r]))
      BY <3>2, Joined
    <3>4. Len(TakenOf(run[r])) \in Nat /\ Len(NewsOf(run[r])) \in Nat
      BY <3>2
    <3>5. Len(TakenOf(run[r])) - Len(run[r].history) \in Nat
      BY <3>1 DEF Complete, Whole
    <3>6. Len(run[r].history) \in Nat
      BY <3>1 DEF Complete, Talk
    <3> QED
      BY <3>3, <3>4, <3>5, <3>6
  <2>4. \A d \in Drivers : driver[d].pc \in {"idle", "recalled", "ready", "prepared"}
    BY DEF EvidenceInv, DriverRecords
  <2> QED
    BY <2>1, <2>2, <2>3, <2>4 DEF TypeInv, SnapshotBounds, RunBounds, ClientBounds, TypeOK
<1> QED
  BY <1>1, <1>2, <1>3, PTL DEF Spec
==============================================================================
