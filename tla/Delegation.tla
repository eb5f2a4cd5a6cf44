----------------------------- MODULE Delegation -----------------------------
(***************************************************************************)
(* A lead run and the children it delegates to, under the Temporal host.   *)
(*                                                                         *)
(*   - submit_delegated and dependencies_ready (coordination.rs) create    *)
(*     children in one transaction and hold them until their dependencies  *)
(*     completed;                                                          *)
(*   - cancel marks the whole tree in one transaction, and settles its     *)
(*     runs one by one (runtime.rs);                                       *)
(*   - the activity of the lead's workflow looks at the saved operations   *)
(*     and children, and either ticks the lead or hands the children to    *)
(*     the workflow to join (hudson-temporal/src/lib.rs).                  *)
(*                                                                         *)
(* The executor of an activity that timed out may still be alive, and tick *)
(* what it decided to tick.  Operations, steps and attempts are as in      *)
(* RunExecution; here an operation of the lead is its model call or one    *)
(* delegation, the lead never waits for a person, and the work of a child  *)
(* is one operation at a time: a model call, whose tools may need approval.*)
(***************************************************************************)
EXTENDS Naturals, FiniteSets

CONSTANTS
    Children,      \* task keys, and the child runs created for them
    Activities,    \* executions of the lead's tick activity
    Nobody,
    Tasks,         \* what a child may be asked to do
    Narrowings,    \* max_model_calls of a delegation; a large number when absent
    ChildCalls,    \* max_model_calls of the agent of the children
    MaxChildCalls, \* CoordinationPolicy.child_max_model_calls
    MaxRepeated,   \* CoordinationPolicy.max_repeated_task
    MaxChildren,   \* CoordinationPolicy.max_children
    MaxBatch,      \* delegations in one batch
    MaxTurns,      \* the lead's max_model_calls
    MaxTimeouts    \* bound of the model: activities Temporal gave up on

ASSUME NobodyAssumption == Nobody \notin Activities
ASSUME DelegationBoundsAssumption ==
    /\ Narrowings \cup {ChildCalls} \subseteq Nat
    /\ MaxChildCalls \in Nat \ {0}
    /\ MaxChildren \in Nat \ {0}
    /\ MaxRepeated \in 1..MaxChildren
    /\ MaxBatch \in Nat \ {0}
    /\ MaxTurns \in Nat
    /\ MaxTimeouts \in Nat

VARIABLES
    lead,        \* the stored status of the lead
    phase,       \* what the lead does next
    todo,        \* how many of its delegations have no result yet
    claimed,     \* the first operation of the lead is Running
    turns,       \* model calls of the lead
    child,       \* the stored status of the children
    task,        \* the task of each child
    depends,     \* TeamTask.dependencies
    calls,       \* model calls each child may still request
    op,          \* the operation of each child
    worked,      \* children that ever started an operation
    finishing,   \* runs that a cancel call has still to settle
    act,         \* where each activity is
    current,     \* the activity Temporal waits for
    joining,     \* children whose workflows the lead's workflow waits for
    started,     \* children with a workflow
    timeouts

leadVars == <<lead, phase, todo, claimed, turns>>
teamVars == <<task, depends>>
childVars == <<child, teamVars, calls, op, worked>>
hostVars == <<act, current, joining, started, timeouts>>
vars == <<leadVars, childVars, finishing, hostVars>>

Ended == {"completed", "failed", "cancelled"}
Live == {"queued", "running", "waiting", "cancelling"}
Statuses == {"absent"} \cup Live \cup Ended

Lead == "lead"
Request == [key : Children, task : Tasks, after : SUBSET Children, narrowed : Narrowings]

LiveChildren == {c \in Children : child[c] \in Live}

Goto(a, pc) == act' = [act EXCEPT ![a] = pc]
Return(a) ==
    /\ Goto(a, "idle")
    /\ current' = IF current = a THEN Nobody ELSE current

Init ==
    /\ lead = "queued"
    /\ phase = "ask"
    /\ todo = 0
    /\ claimed = FALSE
    /\ turns = 0
    /\ child = [c \in Children |-> "absent"]
    /\ task = [c \in Children |-> "none"]
    /\ depends = [c \in Children |-> {}]
    /\ calls = [c \in Children |-> 0]
    /\ op = [c \in Children |-> "none"]
    /\ worked = {}
    /\ finishing = {}
    /\ act = [a \in Activities |-> "idle"]
    /\ current = Nobody
    /\ joining = {}
    /\ started = {}
    /\ timeouts = 0

(***************************************************************************)
(* RunWorkflow and RunActivities::tick.                                    *)
(***************************************************************************)
StartActivity(a) ==
    /\ current = Nobody
    /\ lead \notin Ended
    /\ joining \cap LiveChildren = {}
    /\ act[a] = "idle"
    /\ current' = a
    /\ joining' = {}
    /\ Goto(a, "operations")
    /\ UNCHANGED <<leadVars, childVars, finishing, started, timeouts>>

\* Temporal gives up on an activity, and retries it; its executor lives on.
TimeOut(a) ==
    /\ current = a
    /\ timeouts < MaxTimeouts
    /\ timeouts' = timeouts + 1
    /\ current' = Nobody
    /\ UNCHANGED <<leadVars, childVars, finishing, act, joining, started>>

\* Two reads of the store; an operation of the lead may be Pending or Running.
Unsettled == claimed \/ phase = "model" \/ (phase = "batch" /\ todo > 0)

ReadOperations(a) ==
    /\ act[a] = "operations"
    /\ Goto(a, IF Unsettled THEN "tick" ELSE "children")
    /\ UNCHANGED <<leadVars, childVars, finishing, current, joining, started, timeouts>>

\* Mutant: the lead is ticked whatever its children do.
ReadNoChildren(a) ==
    /\ act[a] = "children"
    /\ Goto(a, "tick")
    /\ UNCHANGED <<leadVars, childVars, finishing, current, joining, started, timeouts>>

\* "Finish dispatching a batch before joining its children."
ReadChildren(a) ==
    /\ act[a] = "children"
    /\ \/ /\ LiveChildren = {}
          /\ Goto(a, "tick")
          /\ UNCHANGED <<current, joining, started>>
       \/ /\ LiveChildren # {}
          /\ Return(a)
          /\ IF current = a
             THEN joining' = LiveChildren /\ started' = started \cup LiveChildren
             ELSE UNCHANGED <<joining, started>>
    /\ UNCHANGED <<leadVars, childVars, finishing, timeouts>>

(***************************************************************************)
(* The tick of the lead.                                                   *)
(***************************************************************************)
Running == lead \in {"queued", "running"}

\* Nothing to do for this tick: the run stopped, or its operation is claimed.
TickNothing(a) ==
    /\ act[a] = "tick"
    /\ lead \in Ended \/ (Running /\ claimed)
    /\ Return(a)
    /\ UNCHANGED <<leadVars, childVars, finishing, joining, started, timeouts>>

\* Mutant: one model call more than the budget.
TickAskBeyond(a) ==
    /\ act[a] = "tick"
    /\ Running
    /\ phase = "ask"
    /\ \/ turns <= MaxTurns /\ lead' = "running" /\ phase' = "model" /\ turns' = turns + 1
       \/ turns > MaxTurns /\ lead' = "failed" /\ UNCHANGED <<phase, turns>>
    /\ Return(a)
    /\ UNCHANGED <<todo, claimed, childVars, finishing, joining, started, timeouts>>

\* The request of the next model call is committed; the budget may be spent.
TickAsk(a) ==
    /\ act[a] = "tick"
    /\ Running
    /\ phase = "ask"
    /\ \/ turns < MaxTurns /\ lead' = "running" /\ phase' = "model" /\ turns' = turns + 1
       \/ turns = MaxTurns /\ lead' = "failed" /\ UNCHANGED <<phase, turns>>
    /\ Return(a)
    /\ UNCHANGED <<todo, claimed, childVars, finishing, joining, started, timeouts>>

\* The operation of the lead is claimed before it is executed.
TickClaim(a) ==
    /\ act[a] = "tick"
    /\ Running
    /\ phase \in {"model", "batch"}
    /\ ~claimed
    /\ claimed' = TRUE
    /\ Goto(a, "execute")
    /\ UNCHANGED <<lead, phase, todo, turns, childVars, finishing, current,
                   joining, started, timeouts>>

\* The model answers with a batch of delegations, whose arguments matter only
\* when they execute, or with the final output, whose verification ends the run.
ExecuteModel(a) ==
    /\ act[a] = "execute"
    /\ phase = "model"
    /\ claimed' = FALSE
    /\ \/ lead = "cancelling" /\ UNCHANGED <<lead, phase, todo>>
       \/ /\ lead = "running"
          /\ \/ todo' \in 1..MaxBatch /\ phase' = "answer" /\ UNCHANGED lead
             \/ lead' = "completed" /\ UNCHANGED <<phase, todo>>
    /\ Goto(a, IF lead = "cancelling" THEN "finish" ELSE "idle")
    /\ current' = IF current = a /\ lead # "cancelling" THEN Nobody ELSE current
    /\ UNCHANGED <<turns, childVars, finishing, joining, started, timeouts>>

\* The answer is committed as the operations of its batch.
TickAnswer(a) ==
    /\ act[a] = "tick"
    /\ Running
    /\ phase = "answer"
    /\ phase' = "batch"
    /\ Return(a)
    /\ UNCHANGED <<lead, todo, claimed, turns, childVars, finishing, joining,
                   started, timeouts>>

Siblings == {c \in Children : child[c] # "absent"}
Repeats(request) ==
    {c \in Siblings : task[c] = request.task /\ depends[c] = request.after}

\* The options and the task of a request are in order: its key is new, the team
\* is not full, its dependencies are earlier children of the same parent, and
\* it does not repeat a task of the same evidence too often.
Coherent(request) ==
    /\ request.narrowed # 0
    /\ request.key \notin Siblings
    /\ Cardinality(Siblings) < MaxChildren
    /\ request.after \subseteq Siblings
    /\ Cardinality(Repeats(request)) < MaxRepeated

\* Mutant: the admission does not look whether the parent was cancelled.
AdmissibleLate(request) == lead \notin Ended /\ Coherent(request)

\* submit_delegated accepts the request of a parent that goes on.
Admissible(request) == lead \notin Ended \cup {"cancelling"} /\ Coherent(request)

\* The budget of a child: what its agent, the policy and the parent allow.
Least(S) == CHOOSE n \in S : \A m \in S : n <= m
Granted(request) == Least({ChildCalls, MaxChildCalls, request.narrowed})

\* The transaction of the handler; a refusal fails the operation alone.
ExecuteDelegation(a) ==
    /\ act[a] = "execute"
    /\ phase = "batch"
    /\ \E request \in Request :
          IF Admissible(request)
          THEN /\ child' = [child EXCEPT ![request.key] = "queued"]
               /\ task' = [task EXCEPT ![request.key] = request.task]
               /\ depends' = [depends EXCEPT ![request.key] = request.after]
               /\ calls' = [calls EXCEPT ![request.key] = Granted(request)]
          ELSE UNCHANGED <<child, teamVars, calls>>
    /\ Goto(a, "settle")
    /\ UNCHANGED <<leadVars, op, worked, finishing, current, joining, started, timeouts>>

\* The result is stored; the last one of the batch is the next input.
SettleDelegation(a) ==
    /\ act[a] = "settle"
    /\ claimed' = FALSE
    /\ todo' = todo - 1
    /\ phase' = IF todo = 1 /\ lead = "running" THEN "ask" ELSE phase
    /\ Goto(a, IF lead = "cancelling" THEN "finish" ELSE "idle")
    /\ current' = IF current = a /\ lead # "cancelling" THEN Nobody ELSE current
    /\ UNCHANGED <<lead, turns, childVars, finishing, joining, started, timeouts>>

(***************************************************************************)
(* Cancellation.                                                           *)
(***************************************************************************)
\* Runtime::cancel marks every live run of the tree in one transaction; it has
\* then nothing to settle of the runs that had ended.
Mark(r) ==
    IF r = Lead
    THEN /\ lead' = "cancelling"
         /\ child' = [c \in Children |->
                        IF child[c] \in Live THEN "cancelling" ELSE child[c]]
    ELSE child' = [child EXCEPT ![r] = "cancelling"] /\ UNCHANGED lead

Cancel(r) ==
    /\ finishing = {}
    /\ r = Lead => lead \in {"queued", "running"}
    /\ r # Lead => child[r] \in {"queued", "running", "waiting"}
    /\ Mark(r)
    /\ finishing' = IF r = Lead THEN {Lead} \cup LiveChildren ELSE {r}
    /\ UNCHANGED <<phase, todo, claimed, turns, teamVars, calls, op, worked, hostVars>>

\* Runtime::finish_cancellation of a child and of the lead: a Running
\* operation holds it, and for the lead every child that has not ended.  What
\* the lead still has Pending is cancelled whether or not it can end.
CancelPending ==
    IF lead # "cancelling" THEN UNCHANGED <<phase, todo>>
    ELSE /\ phase' = IF claimed THEN phase ELSE "ask"
         /\ todo' = IF claimed /\ phase = "batch" THEN 1 ELSE 0

SettleChild(c) ==
    IF child[c] = "cancelling" /\ op[c] # "running"
    THEN child' = [child EXCEPT ![c] = "cancelled"] /\ op' = [op EXCEPT ![c] = "none"]
    ELSE UNCHANGED <<child, op>>

SettleLead ==
    /\ lead' = IF lead = "cancelling" /\ ~claimed /\ LiveChildren = {}
               THEN "cancelled" ELSE lead
    /\ CancelPending

\* The cancel call settles the children first.
FinishCancel(r) ==
    /\ r \in finishing
    /\ finishing' = finishing \ {r}
    /\ IF r = Lead
       THEN finishing = {Lead} /\ SettleLead /\ UNCHANGED <<child, op>>
       ELSE SettleChild(r) /\ UNCHANGED <<lead, phase, todo>>
    /\ UNCHANGED <<claimed, turns, teamVars, calls, worked, hostVars>>

\* The process that serves the call can die in between; nothing but the marks
\* of its transaction is left.
CancelDies ==
    /\ finishing # {}
    /\ finishing' = {}
    /\ UNCHANGED <<leadVars, childVars, hostVars>>

\* A tick of a cancelling lead, and the end of a tick it was cancelled in.
TickFinish(a) ==
    /\ act[a] = "finish" \/ (act[a] = "tick" /\ lead = "cancelling")
    /\ SettleLead
    /\ Return(a)
    /\ UNCHANGED <<claimed, turns, childVars, finishing, joining,
                   started, timeouts>>

(***************************************************************************)
(* The children, ticked by their own workflows.                            *)
(***************************************************************************)
\* Mutant: a dependency counts once it ended, however it did.
ReadyIfEnded(c) == \A p \in depends[c] : child[p] \in Ended
Ready(c) == \A p \in depends[c] : child[p] = "completed"

\* A tick of a child that may go on.
ChildTicks(c) ==
    /\ c \in started
    /\ child[c] \in {"queued", "running"}
    /\ Ready(c)

\* The next model call is requested; the budget of the child may be spent.
ChildAsk(c) ==
    /\ ChildTicks(c)
    /\ op[c] = "none"
    /\ IF calls[c] > 0
       THEN /\ calls' = [calls EXCEPT ![c] = @ - 1]
            /\ op' = [op EXCEPT ![c] = "requested"]
            /\ child' = [child EXCEPT ![c] = "running"]
       ELSE child' = [child EXCEPT ![c] = "failed"] /\ UNCHANGED <<calls, op>>
    /\ UNCHANGED <<leadVars, teamVars, worked, finishing, hostVars>>

\* The operation of the child is claimed, or waits for approval first.
ChildStart(c) ==
    /\ ChildTicks(c)
    /\ \/ /\ op[c] \in {"requested", "approved"}
          /\ op' = [op EXCEPT ![c] = "running"]
          /\ worked' = worked \cup {c}
          /\ UNCHANGED child
       \/ /\ op[c] = "requested"
          /\ child' = [child EXCEPT ![c] = "waiting"]
          /\ UNCHANGED <<op, worked>>
    /\ UNCHANGED <<leadVars, teamVars, calls, finishing, hostVars>>

\* Mutant: a prerequisite that was cancelled is waited for.
ChildFailsOnFailure(c) ==
    /\ c \in started
    /\ child[c] \in {"queued", "running", "waiting"}
    /\ \E p \in depends[c] : child[p] = "failed"
    /\ child' = [child EXCEPT ![c] = "failed"]
    /\ UNCHANGED <<leadVars, teamVars, calls, op, worked, finishing, hostVars>>

\* dependencies_ready fails a child before any effect of it.
ChildFails(c) ==
    /\ c \in started
    /\ child[c] \in {"queued", "running", "waiting"}
    /\ \E p \in depends[c] : child[p] \in {"failed", "cancelled"}
    /\ child' = [child EXCEPT ![c] = "failed"]
    /\ UNCHANGED <<leadVars, teamVars, calls, op, worked, finishing, hostVars>>

\* The operation settles; a child that was cancelled meanwhile ends with it.
ChildSettle(c) ==
    /\ op[c] = "running"
    /\ op' = [op EXCEPT ![c] = "none"]
    /\ \E next \in IF child[c] = "cancelling" THEN {"cancelled"}
                   ELSE {"running", "completed", "failed"} :
          child' = [child EXCEPT ![c] = next]
    /\ UNCHANGED <<leadVars, teamVars, calls, worked, finishing, hostVars>>

\* Somebody approves, or denies, which settles the operation.
ChildDecided(c) ==
    /\ child[c] = "waiting"
    /\ child' = [child EXCEPT ![c] = "running"]
    /\ \E verdict \in {"approved", "none"} : op' = [op EXCEPT ![c] = verdict]
    /\ UNCHANGED <<leadVars, teamVars, calls, worked, finishing, hostVars>>

ChildFinish(c) ==
    /\ c \in started
    /\ child[c] = "cancelling"
    /\ SettleChild(c)
    /\ UNCHANGED <<leadVars, teamVars, calls, worked, finishing, hostVars>>

(***************************************************************************)
(* The specification.                                                      *)
(***************************************************************************)
Activity(a) ==
    \/ ReadOperations(a) \/ ReadChildren(a)
    \/ TickNothing(a) \/ TickAsk(a) \/ TickClaim(a) \/ TickAnswer(a) \/ TickFinish(a)
    \/ ExecuteModel(a) \/ ExecuteDelegation(a) \/ SettleDelegation(a)

ChildWorkflow(c) ==
    ChildAsk(c) \/ ChildStart(c) \/ ChildFails(c) \/ ChildSettle(c) \/ ChildFinish(c)

Next ==
    \/ \E a \in Activities : StartActivity(a) \/ TimeOut(a) \/ Activity(a)
    \/ \E r \in Children \cup {Lead} : Cancel(r) \/ FinishCancel(r)
    \/ CancelDies
    \/ \E c \in Children : ChildWorkflow(c) \/ ChildDecided(c)

Spec == Init /\ [][Next]_vars

\* Workflows keep ticking, and people decide.  Nothing is assumed of the calls
\* of cancel, and that a child ends is left to its budget.
Fairness ==
    /\ WF_vars(\E a \in Activities : StartActivity(a))
    /\ \A a \in Activities : WF_vars(Activity(a))
    /\ \A c \in Children : WF_vars(ChildWorkflow(c)) /\ WF_vars(ChildDecided(c))

FairSpec == Spec /\ Fairness

(***************************************************************************)
(* Properties.                                                             *)
(***************************************************************************)
\* The stored runs, the activities and the workflow keep their types.
TypeOK ==
    /\ lead \in {"queued", "running", "cancelling"} \cup Ended
    /\ phase \in {"ask", "model", "answer", "batch"}
    /\ todo \in 0..MaxBatch
    /\ claimed \in BOOLEAN
    /\ turns \in 0..MaxTurns
    /\ child \in [Children -> Statuses]
    /\ task \in [Children -> Tasks \cup {"none"}]
    /\ depends \in [Children -> SUBSET Children]
    /\ calls \in [Children -> 0..MaxChildCalls]
    /\ op \in [Children -> {"none", "requested", "approved", "running"}]
    /\ worked \subseteq Children
    /\ finishing \subseteq Children \cup {Lead}
    /\ act \in [Activities -> {"idle", "operations", "children", "tick",
                               "execute", "settle", "finish"}]
    /\ current \in Activities \cup {Nobody}
    /\ joining \subseteq started
    /\ started \subseteq Children
    /\ timeouts \in 0..MaxTimeouts

\* "Cancelling the parent propagates through the existing child tree": from the
\* moment the lead is marked no child goes on, and none is created, although a
\* delegation may be executing; a lead is Cancelled only when its whole tree
\* ended and nothing of it runs.
CancelCoversTree ==
    /\ lead \in {"cancelling", "cancelled"} =>
          \A c \in Children : child[c] \in {"absent", "cancelling"} \cup Ended
    /\ lead = "cancelled" => ~claimed /\ LiveChildren = {} /\ \A c \in Children : op[c] = "none"

\* "A failed or cancelled prerequisite fails queued dependents before effects":
\* a child started to work only after all its dependencies completed.
DependentsStartAfter ==
    \A c \in worked : \A p \in depends[c] : child[p] = "completed"

\* "Never let the lead ask its model to continue while its team is still
\* working" (RunActivities::tick).
LeadWaitsForTeam == phase = "model" => LiveChildren = {}

\* The same, as long as Temporal never gave up on a live executor.
LeadWaitsUnlessOverlapped == timeouts = 0 => LeadWaitsForTeam

\* No dependency, no join and no cancellation holds the team forever: the lead
\* ends, and so does every child that has a workflow.
TeamEnds == <>(lead \in Ended) /\ <>[](\A c \in started : child[c] \in Ended)
=============================================================================
