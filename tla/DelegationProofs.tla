-------------------------- MODULE DelegationProofs --------------------------
(***************************************************************************)
(* What is proved of Delegation, for every set of children, of activities  *)
(* and of tasks, every limit of the policies, and any number of timeouts.  *)
(*                                                                         *)
(* The children can be understood without the lead: whoever does a step, a *)
(* child is never revived, and what it asked or did rests on dependencies  *)
(* that completed (Asked, Evolves).  The lead's own state is guarded by    *)
(* the claim of its operation, which one activity holds (Claims).  Only    *)
(* the rule that the lead waits for its team needs the activities to be    *)
(* alone, and it is stated, and proved, as long as none timed out.         *)
(***************************************************************************)
EXTENDS Delegation, TLAPS

Operations == {"none", "requested", "approved", "running"}

LeadTypes ==
    /\ lead \in {"queued", "running", "cancelling"} \cup Ended
    /\ phase \in {"ask", "model", "answer", "batch"}
    /\ todo \in 0..MaxBatch
    /\ claimed \in BOOLEAN
    /\ turns \in 0..MaxTurns

TeamTypes ==
    /\ child \in [Children -> Statuses]
    /\ task \in [Children -> Tasks \cup {"none"}]
    /\ depends \in [Children -> SUBSET Children]
    /\ calls \in [Children -> 0..MaxChildCalls]
    /\ op \in [Children -> Operations]
    /\ worked \subseteq Children

HostTypes ==
    /\ finishing \subseteq Children \cup {Lead}
    /\ act \in [Activities -> {"idle", "operations", "children", "tick",
                               "execute", "settle", "finish"}]
    /\ current \in Activities \cup {Nobody}
    /\ joining \subseteq started
    /\ started \subseteq Children
    /\ timeouts \in 0..MaxTimeouts

\* The activity that executes an operation of the lead holds its claim, alone;
\* the claimed operation of a batch is one of those without a result.
Claims ==
    /\ \A a \in Activities : act[a] \in {"execute", "settle"} => claimed
    /\ \A a, b \in Activities :
          act[a] \in {"execute", "settle"} /\ act[b] \in {"execute", "settle"} => a = b
    /\ \A a \in Activities : act[a] = "settle" => phase = "batch"
    /\ claimed => phase \in {"model", "batch"} /\ lead \in {"running", "cancelling"}
    /\ claimed /\ phase = "batch" => todo > 0
    /\ lead = "running" /\ phase \in {"answer", "batch"} => todo > 0
    /\ lead = "queued" => phase = "ask"

\* A child that asked or did anything has its dependencies completed, and one
\* with an operation has not ended.
Asked ==
    \A c \in Children :
        /\ op[c] # "none" => child[c] \in {"running", "waiting", "cancelling"} /\ Ready(c)
        /\ op[c] = "running" => child[c] \in {"running", "cancelling"}
        /\ c \in worked => child[c] # "absent" /\ Ready(c)
        /\ child[c] = "waiting" => Ready(c)

\* As long as no activity timed out, the one that Temporal waits for is the only
\* one, and it ticks a lead that is about to ask only after its team ended.
Alone ==
    timeouts = 0 =>
        /\ \A a \in Activities : act[a] # "idle" => current = a
        /\ \A a \in Activities :
              act[a] = "tick" /\ phase = "ask" /\ Running => LiveChildren = {}
        /\ LeadWaitsForTeam

Types == LeadTypes /\ TeamTypes /\ HostTypes
TeamInv == TeamTypes /\ Asked
DelegationInv == Types /\ Claims /\ Asked /\ CancelCoversTree /\ Alone

(***************************************************************************)
(* The team.                                                               *)
(***************************************************************************)
Stopped == {"absent", "cancelling"} \cup Ended

\* What a child can become in a step that does not create it.
Follows(was, is) ==
    /\ was = "completed" => is = "completed"
    /\ is \in Live => was \in Live
    /\ was \in Stopped => is \in Stopped

\* No child is created, and none is revived.
Evolves == \A c \in Children : Follows(child[c], child'[c])

\* The budget of a child is the least of three limits.
LEMMA LeastOfThree ==
    ASSUME NEW a \in Nat, NEW b \in Nat, NEW c \in Nat
    PROVE  Least({a, b, c}) \in {a, b, c} /\ \A n \in {a, b, c} : Least({a, b, c}) <= n
<1>1. \E n \in {a, b, c} : \A m \in {a, b, c} : n <= m
  <2>1. CASE a <= b /\ a <= c
    BY <2>1
  <2>2. CASE b <= a /\ b <= c
    BY <2>2
  <2>3. CASE c <= a /\ c <= b
    BY <2>3
  <2> QED
    BY <2>1, <2>2, <2>3
<1> QED
  BY <1>1, Zenon DEF Least

LEMMA GrantedIsBounded ==
    ASSUME NEW request \in Request
    PROVE  Granted(request) \in 0..MaxChildCalls
<1>1. ChildCalls \in Nat /\ MaxChildCalls \in Nat /\ request.narrowed \in Nat
  BY DelegationBoundsAssumption DEF Request
<1>2. /\ Granted(request) \in {ChildCalls, MaxChildCalls, request.narrowed}
      /\ Granted(request) <= MaxChildCalls
  BY <1>1, LeastOfThree DEF Granted
<1> QED
  BY <1>1, <1>2

\* A step that only lets the team evolve, and ends or keeps the operations,
\* keeps what is known of the children.
LEMMA EvolvingKeepsAsked ==
    ASSUME TeamInv, Evolves, depends' = depends,
           NEW c, \A x \in Children : x # c =>
              /\ op'[x] \in {"none", op[x]}
              /\ op'[x] # "none" => \/ child'[x] = child[x] \/ child'[x] = "cancelling"
              /\ child'[x] = "waiting" => child[x] = "waiting"
              /\ x \in worked' <=> x \in worked,
           c \in Children =>
              /\ op'[c] # "none" => child'[c] \in {"running", "waiting", "cancelling"} /\ Ready(c)
              /\ op'[c] = "running" => child'[c] \in {"running", "cancelling"}
              /\ child'[c] = "waiting" => Ready(c)
              /\ c \in worked' => Ready(c),
           \A x \in Children : child[x] # "absent" => child'[x] # "absent",
           \A x \in worked' : child[x] # "absent"
    PROVE  Asked'
<1>1. ASSUME NEW x \in Children, Ready(x)
      PROVE  Ready(x)'
  <2>1. depends[x] \subseteq Children
    BY DEF TeamInv, TeamTypes
  <2>2. \A p \in depends[x] : child'[p] = "completed"
    BY <1>1, <2>1 DEF Ready, Evolves, Follows
  <2> QED
    BY <2>2 DEF Ready
<1>2. ASSUME NEW x \in Children
      PROVE  /\ op'[x] # "none" => child'[x] \in {"running", "waiting", "cancelling"} /\ Ready(x)
             /\ op'[x] = "running" => child'[x] \in {"running", "cancelling"}
             /\ x \in worked' => child'[x] # "absent" /\ Ready(x)
             /\ child'[x] = "waiting" => Ready(x)
  <2>1. CASE x = c
    BY <1>2, <2>1
  <2>2. CASE x # c
    BY <1>2, <2>2 DEF TeamInv, Asked
  <2> QED
    BY <2>1, <2>2
<1>3. ASSUME NEW x \in Children
      PROVE  /\ op'[x] # "none" => child'[x] \in {"running", "waiting", "cancelling"} /\ Ready(x)'
             /\ op'[x] = "running" => child'[x] \in {"running", "cancelling"}
             /\ x \in worked' => child'[x] # "absent" /\ Ready(x)'
             /\ child'[x] = "waiting" => Ready(x)'
  BY <1>1, <1>2
<1> QED
  BY <1>3 DEF Asked

\* What a step of one child has to respect.
LEMMA OneChild ==
    ASSUME TeamInv, NEW c \in Children, NEW s \in Statuses \ {"absent"}, NEW o \in Operations,
           child' = [child EXCEPT ![c] = s], op' = [op EXCEPT ![c] = o],
           worked' = worked \/ (worked' = worked \cup {c} /\ Ready(c) /\ child[c] # "absent"),
           task' = task, depends' = depends, calls' \in [Children -> 0..MaxChildCalls],
           Follows(child[c], s), child[c] # "absent",
           o # "none" => s \in {"running", "waiting", "cancelling"} /\ Ready(c),
           s = "waiting" => Ready(c),
           o = "running" => s \in {"running", "cancelling"}
    PROVE  TeamInv' /\ Evolves
<1>1. /\ child'[c] = s /\ op'[c] = o
      /\ \A x \in Children : x # c => child'[x] = child[x] /\ op'[x] = op[x]
  BY DEF TeamInv, TeamTypes
<1>2. TeamTypes'
  BY DEF TeamInv, TeamTypes
<1>3. Evolves
  BY <1>1 DEF Evolves, Follows
<1>4. \A x \in worked : child[x] # "absent" /\ Ready(x) /\ x \in Children
  BY DEF TeamInv, TeamTypes, Asked
<1>5. /\ \A x \in Children : x # c =>
            /\ op'[x] \in {"none", op[x]}
            /\ op'[x] # "none" => \/ child'[x] = child[x] \/ child'[x] = "cancelling"
            /\ child'[x] = "waiting" => child[x] = "waiting"
            /\ x \in worked' <=> x \in worked
      /\ op'[c] # "none" => child'[c] \in {"running", "waiting", "cancelling"} /\ Ready(c)
      /\ op'[c] = "running" => child'[c] \in {"running", "cancelling"}
      /\ child'[c] = "waiting" => Ready(c)
      /\ c \in worked' => Ready(c)
      /\ \A x \in Children : child[x] # "absent" => child'[x] # "absent"
      /\ \A x \in worked' : child[x] # "absent"
  BY <1>1, <1>4
<1>6. Asked'
  BY <1>3, <1>5, EvolvingKeepsAsked
<1> QED
  BY <1>2, <1>3, <1>6 DEF TeamInv

\* The steps of the workflow of a child, and of the person that decides.
LEMMA ChildStep ==
    ASSUME TeamInv, NEW c \in Children, ChildWorkflow(c) \/ ChildDecided(c)
    PROVE  TeamInv' /\ Evolves
<1> USE DEF Operations, Statuses, Live, Ended, Stopped, Follows
<1>0. /\ child \in [Children -> Statuses] /\ op \in [Children -> Operations]
      /\ calls \in [Children -> 0..MaxChildCalls]
      /\ op[c] # "none" => child[c] \in {"running", "waiting", "cancelling"} /\ Ready(c)
      /\ op[c] = "running" => child[c] \in {"running", "cancelling"}
      /\ c \in worked => child[c] # "absent" /\ Ready(c)
      /\ child[c] = "waiting" => Ready(c)
  BY DEF TeamInv, TeamTypes, Asked
<1>1. CASE ChildAsk(c)
  <2>1. /\ child[c] \in {"queued", "running"} /\ op[c] = "none" /\ Ready(c)
        /\ worked' = worked /\ task' = task /\ depends' = depends
    BY <1>1 DEF ChildAsk, ChildTicks, teamVars
  <2>2. CASE calls[c] > 0
    <3>1. /\ calls' = [calls EXCEPT ![c] = calls[c] - 1]
          /\ op' = [op EXCEPT ![c] = "requested"]
          /\ child' = [child EXCEPT ![c] = "running"]
      BY <1>1, <2>2 DEF ChildAsk
    <3>2. calls[c] - 1 \in 0..MaxChildCalls
      BY <1>0, <2>2, DelegationBoundsAssumption
    <3>3. calls' \in [Children -> 0..MaxChildCalls]
      BY <1>0, <3>1, <3>2
    <3> QED
      BY <2>1, <3>1, <3>3, OneChild
  <2>3. CASE ~(calls[c] > 0)
    <3>1. calls' = calls /\ op' = op /\ child' = [child EXCEPT ![c] = "failed"]
      BY <1>1, <2>3 DEF ChildAsk
    <3>2. op' = [op EXCEPT ![c] = "none"]
      BY <1>0, <2>1, <3>1
    <3> QED
      BY <1>0, <2>1, <3>1, <3>2, OneChild
  <2> QED
    BY <2>2, <2>3
<1>2. CASE ChildStart(c)
  <2>1. /\ child[c] \in {"queued", "running"} /\ Ready(c)
        /\ calls' = calls /\ task' = task /\ depends' = depends
    BY <1>2 DEF ChildStart, ChildTicks, teamVars
  <2>2. CASE /\ op[c] \in {"requested", "approved"}
             /\ op' = [op EXCEPT ![c] = "running"]
             /\ worked' = worked \cup {c}
             /\ child' = child
    <3>1. child[c] = "running" /\ child' = [child EXCEPT ![c] = "running"]
      BY <1>0, <2>1, <2>2
    <3> QED
      BY <1>0, <2>1, <2>2, <3>1, OneChild
  <2>3. CASE /\ op[c] = "requested"
             /\ child' = [child EXCEPT ![c] = "waiting"]
             /\ op' = op /\ worked' = worked
    <3>1. op' = [op EXCEPT ![c] = "requested"]
      BY <1>0, <2>3
    <3>2. child[c] = "running"
      BY <1>0, <2>1, <2>3
    <3> QED
      BY <1>0, <2>1, <2>3, <3>1, <3>2, OneChild
  <2> QED
    BY <1>2, <2>2, <2>3 DEF ChildStart
<1>3. CASE ChildFails(c)
  <2>1. /\ child[c] \in {"queued", "running", "waiting"}
        /\ child' = [child EXCEPT ![c] = "failed"]
        /\ calls' = calls /\ task' = task /\ depends' = depends /\ worked' = worked /\ op' = op
    BY <1>3 DEF ChildFails, teamVars
  <2>2. ~Ready(c)
    BY <1>3 DEF ChildFails, Ready
  <2>3. op' = [op EXCEPT ![c] = "none"]
    BY <1>0, <2>1, <2>2
  <2> QED
    BY <1>0, <2>1, <2>3, OneChild
<1>4. CASE ChildSettle(c)
  <2>1. /\ op[c] = "running" /\ op' = [op EXCEPT ![c] = "none"]
        /\ calls' = calls /\ task' = task /\ depends' = depends /\ worked' = worked
    BY <1>4 DEF ChildSettle, teamVars
  <2>2. PICK next \in IF child[c] = "cancelling" THEN {"cancelled"}
                      ELSE {"running", "completed", "failed"} :
           child' = [child EXCEPT ![c] = next]
    BY <1>4 DEF ChildSettle
  <2> QED
    BY <1>0, <2>1, <2>2, OneChild
<1>5. CASE ChildDecided(c)
  <2>1. /\ child[c] = "waiting" /\ child' = [child EXCEPT ![c] = "running"]
        /\ calls' = calls /\ task' = task /\ depends' = depends /\ worked' = worked
    BY <1>5 DEF ChildDecided, teamVars
  <2>2. PICK verdict \in {"approved", "none"} : op' = [op EXCEPT ![c] = verdict]
    BY <1>5 DEF ChildDecided
  <2>3. verdict # "none" => Ready(c)
    BY <1>0, <2>1
  <2> QED
    BY <1>0, <2>1, <2>2, <2>3, OneChild
<1>6. CASE ChildFinish(c)
  <2>1. /\ child[c] = "cancelling"
        /\ calls' = calls /\ task' = task /\ depends' = depends /\ worked' = worked
    BY <1>6 DEF ChildFinish, teamVars
  <2>2. CASE op[c] # "running"
    <3>1. child' = [child EXCEPT ![c] = "cancelled"] /\ op' = [op EXCEPT ![c] = "none"]
      BY <1>6, <2>1, <2>2 DEF ChildFinish, SettleChild
    <3> QED
      BY <1>0, <2>1, <3>1, OneChild
  <2>3. CASE op[c] = "running"
    <3>1. child' = child /\ op' = op
      BY <1>6, <2>3 DEF ChildFinish, SettleChild
    <3>2. child' = [child EXCEPT ![c] = "cancelling"] /\ op' = [op EXCEPT ![c] = "running"]
      BY <1>0, <2>1, <2>3, <3>1
    <3> QED
      BY <1>0, <2>1, <2>3, <3>2, OneChild
  <2> QED
    BY <2>2, <2>3
<1> QED
  BY <1>1, <1>2, <1>3, <1>4, <1>5, <1>6 DEF ChildWorkflow

\* Nothing happens to the team.
LEMMA TeamRests ==
    ASSUME TeamInv, UNCHANGED childVars
    PROVE  TeamInv' /\ Evolves
<1>1. UNCHANGED <<child, task, depends, calls, op, worked>>
  BY DEF childVars, teamVars
<1>2. TeamTypes' /\ Evolves
  BY <1>1 DEF TeamInv, TeamTypes, Evolves, Follows
<1>3. Asked'
  BY <1>1 DEF TeamInv, Asked, Ready
<1> QED
  BY <1>2, <1>3 DEF TeamInv

\* A delegation creates at most one child, of a lead that goes on.
LEMMA DelegationStep ==
    ASSUME TeamInv, NEW a \in Activities, ExecuteDelegation(a)
    PROVE  /\ TeamInv'
           /\ \/ Evolves
              \/ /\ lead \notin Ended \cup {"cancelling"}
                 /\ LiveChildren' # {}
<1>1. worked' = worked /\ op' = op
  BY DEF ExecuteDelegation
<1>2. CASE UNCHANGED <<child, teamVars, calls>>
  BY <1>1, <1>2, TeamRests DEF childVars
<1>3. ASSUME NEW request \in Request, Admissible(request),
             child' = [child EXCEPT ![request.key] = "queued"],
             task' = [task EXCEPT ![request.key] = request.task],
             depends' = [depends EXCEPT ![request.key] = request.after],
             calls' = [calls EXCEPT ![request.key] = Granted(request)]
      PROVE  TeamInv' /\ lead \notin Ended \cup {"cancelling"} /\ LiveChildren' # {}
  <2> DEFINE k == request.key
  <2>1. /\ k \in Children /\ request.task \in Tasks /\ request.after \in SUBSET Children
        /\ Granted(request) \in 0..MaxChildCalls
    BY GrantedIsBounded DEF Request
  <2>2. child[k] = "absent" /\ lead \notin Ended \cup {"cancelling"}
    BY <1>3, <2>1 DEF Admissible, Coherent, Siblings
  <2>3. TeamTypes'
    BY <1>1, <1>3, <2>1 DEF TeamInv, TeamTypes, Statuses, Live
  <2>4. /\ child'[k] = "queued"
        /\ \A x \in Children : x # k => child'[x] = child[x] /\ depends'[x] = depends[x]
    BY <1>3, <2>1 DEF TeamInv, TeamTypes
  <2>5. op[k] = "none" /\ k \notin worked
    BY <2>1, <2>2 DEF TeamInv, Asked
  <2>6. ASSUME NEW x \in Children, x # k, Ready(x)
        PROVE  Ready(x)'
    <3>1. depends'[x] = depends[x] /\ depends[x] \subseteq Children
      BY <2>4, <2>6 DEF TeamInv, TeamTypes
    <3>2. \A p \in depends[x] : p # k /\ child'[p] = "completed"
      BY <2>2, <2>4, <2>6, <3>1 DEF Ready
    <3> QED
      BY <3>1, <3>2 DEF Ready
  <2>7. \A x \in Children : x # k =>
            /\ op[x] # "none" => child'[x] \in {"running", "waiting", "cancelling"} /\ Ready(x)'
            /\ op[x] = "running" => child'[x] \in {"running", "cancelling"}
            /\ x \in worked => child'[x] # "absent" /\ Ready(x)'
            /\ child'[x] = "waiting" => Ready(x)'
    BY <2>4, <2>6 DEF TeamInv, Asked
  <2>8. Asked'
    BY <1>1, <2>4, <2>5, <2>7 DEF Asked
  <2>9. k \in LiveChildren'
    BY <2>1, <2>4 DEF LiveChildren, Live
  <2> QED
    BY <2>2, <2>3, <2>8, <2>9 DEF TeamInv
<1>4. PICK request \in Request :
          IF Admissible(request)
          THEN /\ child' = [child EXCEPT ![request.key] = "queued"]
               /\ task' = [task EXCEPT ![request.key] = request.task]
               /\ depends' = [depends EXCEPT ![request.key] = request.after]
               /\ calls' = [calls EXCEPT ![request.key] = Granted(request)]
          ELSE UNCHANGED <<child, teamVars, calls>>
  BY DEF ExecuteDelegation
<1> QED
  BY <1>2, <1>3, <1>4

\* The marks of a cancellation.
LEMMA CancelStep ==
    ASSUME TeamInv, NEW r \in Children \cup {Lead}, Cancel(r)
    PROVE  /\ TeamInv' /\ Evolves
           /\ r = Lead => \A c \in Children : child'[c] \in Stopped
<1>1. UNCHANGED <<task, depends, calls, op, worked>>
  BY DEF Cancel, teamVars
<1>2. \A x \in Children : child[x] \in Statuses
  BY DEF TeamInv, TeamTypes
<1>3. /\ child' \in [Children -> Statuses]
      /\ \A x \in Children : \/ child'[x] = child[x]
                             \/ child[x] \in Live /\ child'[x] = "cancelling"
      /\ r = Lead => \A c \in Children : child'[c] \in Stopped
  <2>1. CASE r = Lead
    <3>1. child' = [c \in Children |-> IF child[c] \in Live THEN "cancelling" ELSE child[c]]
      BY <2>1 DEF Cancel, Mark
    <3> QED
      BY <1>2, <3>1 DEF Statuses, Live, Stopped
  <2>2. CASE r # Lead
    <3>1. child' = [child EXCEPT ![r] = "cancelling"] /\ child[r] \in Live
      BY <2>2 DEF Cancel, Mark, Live
    <3> QED
      BY <2>2, <3>1 DEF TeamInv, TeamTypes, Statuses, Live
  <2> QED
    BY <2>1, <2>2
<1>4. TeamTypes'
  BY <1>1, <1>3 DEF TeamInv, TeamTypes
<1>5. Evolves
  BY <1>3 DEF Evolves, Follows, Live, Stopped
<1>6. \A x \in worked : child[x] # "absent"
  BY DEF TeamInv, TeamTypes, Asked
<1>7. \A x \in Children : child[x] # "absent" => child'[x] # "absent"
  BY <1>3
<1>8. Lead \in Children =>
         /\ op[Lead] # "none" => child'[Lead] \in {"running", "waiting", "cancelling"} /\ Ready(Lead)
         /\ op[Lead] = "running" => child'[Lead] \in {"running", "cancelling"}
         /\ child'[Lead] = "waiting" => Ready(Lead)
         /\ Lead \in worked => Ready(Lead)
  BY <1>3 DEF TeamInv, Asked
<1>9. \A x \in Children :
         /\ op'[x] \in {"none", op[x]}
         /\ op'[x] # "none" => \/ child'[x] = child[x] \/ child'[x] = "cancelling"
         /\ child'[x] = "waiting" => child[x] = "waiting"
         /\ x \in worked' <=> x \in worked
  BY <1>1, <1>3
<1>10. Asked'
  BY <1>1, <1>5, <1>6, <1>7, <1>8, <1>9, EvolvingKeepsAsked
<1> QED
  BY <1>3, <1>4, <1>5, <1>10 DEF TeamInv

LEMMA FinishStep ==
    ASSUME TeamInv, NEW r \in Children \cup {Lead}, FinishCancel(r)
    PROVE  TeamInv' /\ Evolves
<1>1. UNCHANGED <<task, depends, calls, worked>>
  BY DEF FinishCancel, teamVars
<1>2. CASE UNCHANGED <<child, op>>
  BY <1>1, <1>2, TeamRests DEF childVars, teamVars
<1>3. CASE ~UNCHANGED <<child, op>>
  <2>1. r # Lead /\ SettleChild(r)
    BY <1>3 DEF FinishCancel
  <2>2. /\ r \in Children /\ child[r] = "cancelling"
        /\ child' = [child EXCEPT ![r] = "cancelled"] /\ op' = [op EXCEPT ![r] = "none"]
    BY <1>3, <2>1 DEF SettleChild
  <2>3. "cancelled" \in Statuses \ {"absent"} /\ "none" \in Operations
    BY DEF Statuses, Ended, Operations
  <2>4. Follows("cancelling", "cancelled")
    BY DEF Follows, Live, Stopped, Ended
  <2> QED
    BY <1>1, <2>2, <2>3, <2>4, OneChild DEF TeamInv, TeamTypes
<1> QED
  BY <1>2, <1>3

LEMMA TeamStep ==
    ASSUME TeamInv, [Next]_vars
    PROVE  /\ TeamInv'
           /\ \/ Evolves
              \/ /\ \E a \in Activities : ExecuteDelegation(a)
                 /\ lead \notin Ended \cup {"cancelling"}
                 /\ LiveChildren' # {}
<1>1. CASE UNCHANGED childVars
  BY <1>1, TeamRests
<1>2. ASSUME NEW a \in Activities, ExecuteDelegation(a)
      PROVE  /\ TeamInv'
             /\ \/ Evolves
                \/ lead \notin Ended \cup {"cancelling"} /\ LiveChildren' # {}
  BY <1>2, DelegationStep
<1>3. ASSUME NEW a \in Activities,
             \/ StartActivity(a) \/ TimeOut(a) \/ ReadOperations(a) \/ ReadChildren(a)
             \/ TickNothing(a) \/ TickAsk(a) \/ TickClaim(a) \/ TickAnswer(a) \/ TickFinish(a)
             \/ ExecuteModel(a) \/ SettleDelegation(a)
      PROVE  UNCHANGED childVars
  BY <1>3 DEF StartActivity, TimeOut, ReadOperations, ReadChildren, TickNothing, TickAsk,
              TickClaim, TickAnswer, TickFinish, ExecuteModel, SettleDelegation
<1>4. ASSUME NEW r \in Children \cup {Lead}, Cancel(r) \/ FinishCancel(r)
      PROVE  TeamInv' /\ Evolves
  BY <1>4, CancelStep, FinishStep
<1>5. ASSUME NEW c \in Children, ChildWorkflow(c) \/ ChildDecided(c)
      PROVE  TeamInv' /\ Evolves
  BY <1>5, ChildStep
<1>6. CASE CancelDies
  BY <1>1, <1>6 DEF CancelDies
<1>7. CASE UNCHANGED vars
  BY <1>1, <1>7 DEF vars
<1> QED
  BY <1>1, <1>2, <1>3, <1>4, <1>5, <1>6, <1>7 DEF Next, Activity

(***************************************************************************)
(* The activities.                                                         *)
(***************************************************************************)
\* Every step of an activity moves this activity alone.
LEMMA ActivityMoves ==
    ASSUME HostTypes, NEW a \in Activities, NEW pc, Goto(a, pc)
    PROVE  act'[a] = pc /\ \A b \in Activities : b # a => act'[b] = act[b]
BY DEF Goto, HostTypes

\* Activities that execute nothing leave the claim of the lead as it is.
LEMMA ClaimRests ==
    ASSUME LeadTypes, Claims, UNCHANGED leadVars,
           \A a \in Activities :
              act'[a] = act[a] \/ act'[a] \notin {"execute", "settle"}
    PROVE  LeadTypes' /\ Claims'
<1>1. UNCHANGED <<lead, phase, todo, claimed, turns>>
  BY DEF leadVars
<1>2. \A a \in Activities : act'[a] \in {"execute", "settle"} => act'[a] = act[a]
  OBVIOUS
<1> QED
  BY <1>1, <1>2 DEF LeadTypes, Claims

LEMMA HostStep ==
    ASSUME HostTypes, [Next]_vars
    PROVE  HostTypes'
<1> DEFINE Pcs == {"idle", "operations", "children", "tick", "execute", "settle", "finish"}
           Rest == /\ current' \in Activities \cup {Nobody}
                   /\ joining' \subseteq started' /\ started' \subseteq Children
                   /\ timeouts' \in 0..MaxTimeouts /\ finishing' \subseteq Children \cup {Lead}
<1> USE DEF HostTypes
<1>1. CASE act' = act /\ Rest
  BY <1>1
<1>2. ASSUME NEW a \in Activities, NEW pc \in Pcs, Goto(a, pc), Rest
      PROVE  HostTypes'
  <2>1. act' \in [Activities -> Pcs]
    BY <1>2 DEF Goto
  <2> QED
    BY <1>2, <2>1
<1>3. ASSUME NEW a \in Activities,
             \/ ReadOperations(a) \/ TickNothing(a) \/ TickAsk(a) \/ TickClaim(a) \/ TickAnswer(a)
             \/ TickFinish(a) \/ ExecuteModel(a) \/ ExecuteDelegation(a) \/ SettleDelegation(a)
      PROVE  HostTypes'
  <2>1. \E pc \in Pcs : Goto(a, pc)
    BY <1>3 DEF ReadOperations, TickNothing, TickAsk, TickClaim, TickAnswer, TickFinish,
                ExecuteModel, ExecuteDelegation, SettleDelegation, Return
  <2>2. /\ current' \in {current, Nobody}
        /\ UNCHANGED <<finishing, joining, started, timeouts>>
    BY <1>3 DEF ReadOperations, TickNothing, TickAsk, TickClaim, TickAnswer, TickFinish,
                ExecuteModel, ExecuteDelegation, SettleDelegation, Return
  <2> QED
    BY <1>2, <2>1, <2>2
<1>4. ASSUME NEW a \in Activities, ReadChildren(a)
      PROVE  HostTypes'
  <2>1. \E pc \in Pcs : Goto(a, pc)
    BY <1>4 DEF ReadChildren, Return
  <2>2. UNCHANGED <<finishing, timeouts>> /\ current' \in {current, Nobody}
    BY <1>4 DEF ReadChildren, Return
  <2>3. \/ UNCHANGED <<joining, started>>
        \/ joining' = LiveChildren /\ started' = started \cup LiveChildren
    BY <1>4 DEF ReadChildren
  <2>4. LiveChildren \subseteq Children
    BY DEF LiveChildren
  <2>5. Rest
    BY <2>2, <2>3, <2>4
  <2> HIDE DEF Rest
  <2> QED
    BY <1>2, <2>1, <2>5
<1>5. ASSUME NEW a \in Activities, StartActivity(a)
      PROVE  HostTypes'
  <2>1. Goto(a, "operations")
    BY <1>5 DEF StartActivity
  <2>2. current' = a /\ joining' = {} /\ UNCHANGED <<finishing, started, timeouts>>
    BY <1>5 DEF StartActivity
  <2> QED
    BY <1>2, <2>1, <2>2
<1>6. ASSUME NEW a \in Activities, TimeOut(a)
      PROVE  HostTypes'
  <2>1. /\ timeouts < MaxTimeouts /\ timeouts' = timeouts + 1 /\ current' = Nobody
        /\ UNCHANGED <<act, finishing, joining, started>>
    BY <1>6 DEF TimeOut
  <2>2. timeouts' \in 0..MaxTimeouts
    BY <2>1, DelegationBoundsAssumption
  <2> QED
    BY <1>1, <2>1, <2>2
<1>7. ASSUME NEW r \in Children \cup {Lead}, Cancel(r)
      PROVE  HostTypes'
  <2>1. LiveChildren \subseteq Children
    BY DEF LiveChildren
  <2> QED
    BY <1>7, <2>1 DEF Cancel, hostVars
<1>8. ASSUME NEW r \in Children \cup {Lead}, FinishCancel(r)
      PROVE  HostTypes'
  BY <1>8 DEF FinishCancel, hostVars
<1>9. CASE CancelDies
  BY <1>9 DEF CancelDies, hostVars
<1>10. ASSUME NEW c \in Children, ChildWorkflow(c) \/ ChildDecided(c)
       PROVE  HostTypes'
  BY <1>10 DEF ChildWorkflow, ChildAsk, ChildStart, ChildFails, ChildSettle, ChildFinish,
               ChildDecided, hostVars
<1>11. CASE UNCHANGED vars
  BY <1>11 DEF vars, hostVars
<1> QED
  BY <1>3, <1>4, <1>5, <1>6, <1>7, <1>8, <1>9, <1>10, <1>11 DEF Next, Activity

(***************************************************************************)
(* The lead.                                                               *)
(***************************************************************************)
\* What a cancellation settles of the lead.
LEMMA SettlesLead ==
    ASSUME LeadTypes, Claims, SettleLead, UNCHANGED <<claimed, turns>>,
           \A a \in Activities : act'[a] = act[a] \/ act'[a] \notin {"execute", "settle"}
    PROVE  LeadTypes' /\ Claims'
<1>1. lead' = IF lead = "cancelling" /\ ~claimed /\ LiveChildren = {} THEN "cancelled" ELSE lead
  BY DEF SettleLead
<1>2. CASE lead # "cancelling"
  <2>1. lead' = lead /\ phase' = phase /\ todo' = todo
    BY <1>1, <1>2 DEF SettleLead, CancelPending
  <2> QED
    BY <2>1, ClaimRests DEF leadVars
<1>3. CASE lead = "cancelling"
  <2>1. /\ phase' = IF claimed THEN phase ELSE "ask"
        /\ todo' = IF claimed /\ phase = "batch" THEN 1 ELSE 0
    BY <1>3 DEF SettleLead, CancelPending
  <2>2. lead' \in {"cancelling", "cancelled"} /\ (claimed => lead' = "cancelling")
    BY <1>1, <1>3
  <2>3. LeadTypes'
    BY <2>1, <2>2, DelegationBoundsAssumption DEF LeadTypes, Ended
  <2>4. \A a \in Activities : act'[a] \in {"execute", "settle"} => act'[a] = act[a]
    OBVIOUS
  <2>5. /\ \A a \in Activities : act'[a] \in {"execute", "settle"} => claimed'
        /\ \A a, b \in Activities :
              act'[a] \in {"execute", "settle"} /\ act'[b] \in {"execute", "settle"} => a = b
    BY <2>4 DEF Claims
  <2>6. \A a \in Activities : act'[a] = "settle" => phase' = "batch"
    BY <2>1, <2>4 DEF Claims
  <2>7. claimed' => phase' \in {"model", "batch"} /\ lead' \in {"running", "cancelling"}
    BY <2>1, <2>2 DEF Claims
  <2>8. claimed' /\ phase' = "batch" => todo' > 0
    BY <2>1
  <2> QED
    BY <2>2, <2>3, <2>5, <2>6, <2>7, <2>8 DEF Claims
<1> QED
  BY <1>2, <1>3

\* An activity claims the operation of the lead, or executes a part of it.
LEMMA ExecutesLead ==
    ASSUME LeadTypes, HostTypes, Claims, NEW a \in Activities,
           TickClaim(a) \/ ExecuteModel(a) \/ ExecuteDelegation(a) \/ SettleDelegation(a)
    PROVE  LeadTypes' /\ Claims'
<1>1. CASE TickClaim(a)
  <2>1. /\ lead \in {"queued", "running"} /\ phase \in {"model", "batch"} /\ ~claimed /\ claimed'
        /\ UNCHANGED <<lead, phase, todo, turns>> /\ Goto(a, "execute")
    BY <1>1 DEF TickClaim, Running
  <2>2. lead = "running"
    BY <2>1 DEF Claims
  <2>3. /\ act'[a] = "execute"
        /\ \A b \in Activities : b # a => act'[b] = act[b] /\ act'[b] \notin {"execute", "settle"}
    BY <2>1, ActivityMoves DEF Claims
  <2>4. LeadTypes'
    BY <1>1, <2>1 DEF LeadTypes, TickClaim
  <2> QED
    BY <2>1, <2>2, <2>3, <2>4 DEF Claims
<1>2. CASE ExecuteModel(a)
  <2>1. /\ act[a] = "execute" /\ phase = "model" /\ claimed' = FALSE /\ UNCHANGED turns
        /\ \/ lead = "cancelling" /\ UNCHANGED <<lead, phase, todo>>
           \/ /\ lead = "running"
              /\ \/ todo' \in 1..MaxBatch /\ phase' = "answer" /\ UNCHANGED lead
                 \/ lead' = "completed" /\ UNCHANGED <<phase, todo>>
        /\ \E pc \in {"finish", "idle"} : Goto(a, pc)
    BY <1>2 DEF ExecuteModel
  <2>2. \A b \in Activities : act'[b] \notin {"execute", "settle"}
    BY <2>1, ActivityMoves DEF Claims
  <2>3. LeadTypes'
    <3>1. todo' \in 0..MaxBatch
      BY <2>1, DelegationBoundsAssumption DEF LeadTypes
    <3>2. /\ lead' \in {"queued", "running", "cancelling"} \cup Ended
          /\ phase' \in {"ask", "model", "answer", "batch"}
      BY <2>1 DEF LeadTypes, Ended
    <3> QED
      BY <2>1, <3>1, <3>2 DEF LeadTypes
  <2> QED
    BY <2>1, <2>2, <2>3 DEF Claims
<1>3. CASE ExecuteDelegation(a)
  <2>1. act[a] = "execute" /\ phase = "batch" /\ UNCHANGED <<lead, phase, todo, claimed, turns>>
        /\ Goto(a, "settle")
    BY <1>3 DEF ExecuteDelegation, leadVars
  <2>2. act'[a] = "settle" /\ \A b \in Activities : b # a => act'[b] = act[b]
    BY <2>1, ActivityMoves
  <2>3. \A b \in Activities : b # a => act[b] \notin {"execute", "settle"}
    BY <2>1 DEF Claims
  <2> QED
    BY <2>1, <2>2, <2>3 DEF LeadTypes, Claims
<1>4. CASE SettleDelegation(a)
  <2>1. /\ act[a] = "settle" /\ claimed' = FALSE /\ todo' = todo - 1
        /\ phase' = IF todo = 1 /\ lead = "running" THEN "ask" ELSE phase
        /\ UNCHANGED <<lead, turns>>
        /\ \E pc \in {"finish", "idle"} : Goto(a, pc)
    BY <1>4 DEF SettleDelegation
  <2>2. phase = "batch" /\ todo > 0 /\ todo \in 0..MaxBatch /\ lead \in {"running", "cancelling"}
    BY <2>1 DEF Claims, LeadTypes
  <2>3. \A b \in Activities : act'[b] \notin {"execute", "settle"}
    BY <2>1, ActivityMoves DEF Claims
  <2>4. todo' \in 0..MaxBatch /\ (phase' # "ask" /\ lead = "running" => todo' > 0)
    BY <2>1, <2>2, DelegationBoundsAssumption
  <2>5. LeadTypes'
    BY <2>1, <2>2, <2>4 DEF LeadTypes
  <2> QED
    BY <2>1, <2>2, <2>3, <2>4, <2>5 DEF Claims
<1> QED
  BY <1>1, <1>2, <1>3, <1>4

LEMMA LeadStep ==
    ASSUME LeadTypes, HostTypes, Claims, [Next]_vars
    PROVE  LeadTypes' /\ Claims'
<1>1. ASSUME NEW a \in Activities, NEW pc, Goto(a, pc), pc \notin {"execute", "settle"}
      PROVE  \A b \in Activities : act'[b] = act[b] \/ act'[b] \notin {"execute", "settle"}
  BY <1>1, ActivityMoves
<1>2. ASSUME NEW a \in Activities, ReadOperations(a) \/ ReadChildren(a) \/ TickNothing(a)
                                   \/ StartActivity(a)
      PROVE  LeadTypes' /\ Claims'
  <2>1. UNCHANGED leadVars
    BY <1>2 DEF ReadOperations, ReadChildren, TickNothing, StartActivity
  <2>2. \E pc \in {"operations", "children", "tick", "idle"} : Goto(a, pc)
    BY <1>2 DEF ReadOperations, ReadChildren, TickNothing, StartActivity, Return
  <2>3. \A b \in Activities : act'[b] = act[b] \/ act'[b] \notin {"execute", "settle"}
    BY <1>1, <2>2
  <2> QED
    BY <2>1, <2>3, ClaimRests
<1>3. ASSUME NEW a \in Activities, TickAsk(a) \/ TickAnswer(a)
      PROVE  LeadTypes' /\ Claims'
  <2>1. Goto(a, "idle") /\ UNCHANGED <<todo, claimed>>
    BY <1>3 DEF TickAsk, TickAnswer, Return
  <2>2. \A b \in Activities : act'[b] = act[b] \/ act'[b] \notin {"execute", "settle"}
    BY <1>1, <2>1
  <2>3. ~claimed /\ \A b \in Activities : act[b] \notin {"execute", "settle"}
    BY <1>3 DEF TickAsk, TickAnswer, Claims
  <2>4. \A b \in Activities : act'[b] \notin {"execute", "settle"}
    BY <2>2, <2>3
  <2>5. CASE TickAsk(a)
    <3>1. /\ lead \in {"queued", "running"} /\ phase = "ask"
          /\ \/ turns < MaxTurns /\ lead' = "running" /\ phase' = "model" /\ turns' = turns + 1
             \/ turns = MaxTurns /\ lead' = "failed" /\ UNCHANGED <<phase, turns>>
      BY <2>5 DEF TickAsk, Running
    <3>2. turns \in Nat /\ turns <= MaxTurns /\ MaxTurns \in Nat
      BY DelegationBoundsAssumption DEF LeadTypes
    <3>3. turns' \in 0..MaxTurns
      BY <3>1, <3>2
    <3>4. LeadTypes'
      BY <2>1, <3>1, <3>3 DEF LeadTypes, Ended
    <3> QED
      BY <2>1, <2>3, <2>4, <3>1, <3>4 DEF Claims
  <2>6. CASE TickAnswer(a)
    <3>1. /\ lead \in {"queued", "running"} /\ phase = "answer" /\ phase' = "batch"
          /\ UNCHANGED <<lead, turns>>
      BY <2>6 DEF TickAnswer, Running
    <3>2. LeadTypes'
      BY <2>1, <3>1 DEF LeadTypes
    <3> QED
      BY <2>1, <2>3, <2>4, <3>1, <3>2 DEF Claims
  <2> QED
    BY <1>3, <2>5, <2>6
<1>4. ASSUME NEW a \in Activities, TickFinish(a)
      PROVE  LeadTypes' /\ Claims'
  <2>1. SettleLead /\ Goto(a, "idle") /\ UNCHANGED <<claimed, turns>>
    BY <1>4 DEF TickFinish, Return
  <2>2. \A b \in Activities : act'[b] = act[b] \/ act'[b] \notin {"execute", "settle"}
    BY <1>1, <2>1
  <2> QED
    BY <2>1, <2>2, SettlesLead
<1>5. ASSUME NEW a \in Activities, TickClaim(a) \/ ExecuteModel(a) \/ ExecuteDelegation(a)
                                   \/ SettleDelegation(a)
      PROVE  LeadTypes' /\ Claims'
  BY <1>5, ExecutesLead
<1>6. CASE act' = act /\ UNCHANGED leadVars
  BY <1>6, ClaimRests
<1>7. ASSUME NEW a \in Activities, TimeOut(a)
      PROVE  act' = act /\ UNCHANGED leadVars
  BY <1>7 DEF TimeOut
<1>8. ASSUME NEW r \in Children \cup {Lead}, Cancel(r)
      PROVE  LeadTypes' /\ Claims'
  <2>1. act' = act /\ UNCHANGED <<phase, todo, claimed, turns>>
    BY <1>8 DEF Cancel, hostVars
  <2>2. lead' = lead \/ lead' = "cancelling"
    BY <1>8 DEF Cancel, Mark
  <2> QED
    BY <2>1, <2>2 DEF LeadTypes, Claims
<1>9. ASSUME NEW r \in Children \cup {Lead}, FinishCancel(r)
      PROVE  LeadTypes' /\ Claims'
  <2>1. act' = act /\ UNCHANGED <<claimed, turns>>
    BY <1>9 DEF FinishCancel, hostVars
  <2>2. CASE r = Lead
    <3>1. SettleLead
      BY <1>9, <2>2 DEF FinishCancel
    <3> QED
      BY <2>1, <3>1, SettlesLead
  <2>3. CASE r # Lead
    BY <1>6, <1>9, <2>1, <2>3 DEF FinishCancel, leadVars
  <2> QED
    BY <2>2, <2>3
<1>10. ASSUME NEW c \in Children, ChildWorkflow(c) \/ ChildDecided(c)
       PROVE  act' = act /\ UNCHANGED leadVars
  BY <1>10 DEF ChildWorkflow, ChildAsk, ChildStart, ChildFails, ChildSettle, ChildFinish,
               ChildDecided, hostVars
<1>11. CASE CancelDies
  BY <1>6, <1>11 DEF CancelDies, hostVars
<1>12. CASE UNCHANGED vars
  BY <1>6, <1>12 DEF vars, hostVars
<1> QED
  BY <1>2, <1>3, <1>4, <1>5, <1>6, <1>7, <1>8, <1>9, <1>10, <1>11, <1>12 DEF Next, Activity

(***************************************************************************)
(* The lead and its team.                                                  *)
(***************************************************************************)
\* The statuses of a lead that was told to stop.
Marked == {"cancelling", "cancelled"}

\* Only a cancel call marks the lead, and it is settled as Cancelled only after
\* the marks reached a team with nobody alive.
LEMMA LeadIsCancelled ==
    ASSUME [Next]_vars
    PROVE  /\ lead' \in Marked => lead \in Marked \/ Cancel(Lead)
           /\ lead' = "cancelled" =>
                 lead = "cancelled" \/ (lead = "cancelling" /\ LiveChildren = {})
<1> USE DEF Marked
<1>1. CASE lead' = lead
  BY <1>1
<1>2. ASSUME NEW a \in Activities, TickAsk(a) \/ ExecuteModel(a)
      PROVE  lead' = lead \/ lead' \notin Marked
  BY <1>2 DEF TickAsk, ExecuteModel
<1>3. CASE SettleLead
  BY <1>3 DEF SettleLead
<1>4. ASSUME NEW a \in Activities, TickFinish(a)
      PROVE  SettleLead
  BY <1>4 DEF TickFinish
<1>5. ASSUME NEW a \in Activities,
             \/ StartActivity(a) \/ TimeOut(a) \/ ReadOperations(a) \/ ReadChildren(a)
             \/ TickNothing(a) \/ TickClaim(a) \/ TickAnswer(a)
             \/ ExecuteDelegation(a) \/ SettleDelegation(a)
      PROVE  lead' = lead
  BY <1>5 DEF StartActivity, TimeOut, ReadOperations, ReadChildren, TickNothing, TickClaim,
              TickAnswer, ExecuteDelegation, SettleDelegation, leadVars
<1>6. ASSUME NEW r \in Children \cup {Lead}, Cancel(r)
      PROVE  \/ lead' = lead
             \/ lead' = "cancelling" /\ Cancel(Lead)
  BY <1>6 DEF Cancel, Mark
<1>7. ASSUME NEW r \in Children \cup {Lead}, FinishCancel(r)
      PROVE  SettleLead \/ lead' = lead
  BY <1>7 DEF FinishCancel
<1>8. ASSUME NEW c \in Children, ChildWorkflow(c) \/ ChildDecided(c)
      PROVE  lead' = lead
  BY <1>8 DEF ChildWorkflow, ChildAsk, ChildStart, ChildFails, ChildSettle, ChildFinish,
              ChildDecided, leadVars
<1>9. CASE CancelDies \/ UNCHANGED vars
  BY <1>1, <1>9 DEF CancelDies, vars, leadVars
<1>10. CASE \E r \in Children \cup {Lead} : Cancel(r)
  BY <1>1, <1>6, <1>10
<1> QED
  BY <1>1, <1>2, <1>3, <1>4, <1>5, <1>7, <1>8, <1>9, <1>10 DEF Next, Activity

LEMMA CancelCoversStep ==
    ASSUME TeamInv, TeamInv', Claims', CancelCoversTree, [Next]_vars
    PROVE  CancelCoversTree'
<1>0. /\ lead' \in Marked => lead \in Marked \/ Cancel(Lead)
      /\ lead' = "cancelled" =>
             lead = "cancelled" \/ (lead = "cancelling" /\ LiveChildren = {})
  BY LeadIsCancelled
<1>1. ASSUME lead' \in Marked, NEW c \in Children
      PROVE  child'[c] \in Stopped
  <2>1. CASE lead \in Marked
    <3>1. Evolves
      BY <2>1, TeamStep DEF Ended, Marked
    <3>2. child[c] \in Stopped
      BY <2>1 DEF CancelCoversTree, Stopped, Marked
    <3> QED
      BY <3>1, <3>2 DEF Evolves, Follows
  <2>2. CASE Cancel(Lead)
    BY <2>2, CancelStep
  <2> QED
    BY <1>0, <1>1, <2>1, <2>2
<1>2. ASSUME lead' = "cancelled"
      PROVE  ~claimed' /\ LiveChildren' = {} /\ \A c \in Children : op'[c] = "none"
  <2>1. ~claimed'
    BY <1>2 DEF Claims
  <2>2. LiveChildren = {} /\ lead \in Marked
    BY <1>0, <1>2 DEF CancelCoversTree, Marked
  <2>3. Evolves
    BY <2>2, TeamStep DEF Ended, Marked
  <2>4. \A c \in Children : child'[c] \notin Live
    BY <2>2, <2>3 DEF LiveChildren, Evolves, Follows
  <2>5. \A c \in Children : op'[c] = "none"
    BY <2>4 DEF TeamInv, Asked, Live
  <2>6. LiveChildren' = {}
    BY <2>4 DEF LiveChildren
  <2> QED
    BY <2>1, <2>5, <2>6
<1> QED
  BY <1>1, <1>2 DEF CancelCoversTree, Stopped, Marked

\* Of the activities only the one that Temporal waits for goes on.
LEMMA ActsAlone ==
    ASSUME Types, Claims, Alone, timeouts = 0, NEW a \in Activities, Activity(a), TeamInv'
    PROVE  Alone'
<1>0. act[a] # "idle"
  BY DEF Activity, ReadOperations, ReadChildren, TickNothing, TickAsk, TickClaim, TickAnswer,
         TickFinish, ExecuteModel, ExecuteDelegation, SettleDelegation
<1>1. current = a /\ \A b \in Activities : b # a => act[b] = "idle"
  BY <1>0 DEF Alone
<1>2. PICK pc : Goto(a, pc) /\ current' = IF pc = "idle" THEN Nobody ELSE current
  BY <1>1 DEF Activity, ReadOperations, ReadChildren, TickNothing, TickAsk, TickClaim, TickAnswer,
              TickFinish, ExecuteModel, ExecuteDelegation, SettleDelegation, Return
<1>3. act'[a] = pc /\ \A b \in Activities : b # a => act'[b] = "idle"
  BY <1>1, <1>2, ActivityMoves DEF Types
<1>4. \A b \in Activities : act'[b] # "idle" => current' = b
  BY <1>1, <1>2, <1>3
<1>5. ExecuteDelegation(a) \/ UNCHANGED child
  BY DEF Activity, ReadOperations, ReadChildren, TickNothing, TickAsk, TickClaim, TickAnswer,
         TickFinish, ExecuteModel, ExecuteDelegation, SettleDelegation, childVars
<1>6. UNCHANGED child => LiveChildren' = LiveChildren
  BY DEF LiveChildren
<1>7. ASSUME act'[a] = "tick", phase' = "ask", Running'
      PROVE  LiveChildren' = {}
  <2>1. ReadOperations(a) \/ ReadChildren(a)
    <3>1. TickNothing(a) \/ TickAsk(a) \/ TickAnswer(a) \/ TickFinish(a) => act'[a] = "idle"
      BY ActivityMoves DEF TickNothing, TickAsk, TickAnswer, TickFinish, Return, Types
    <3>2. TickClaim(a) => act'[a] = "execute"
      BY ActivityMoves DEF TickClaim, Types
    <3>3. ExecuteDelegation(a) => act'[a] = "settle"
      BY ActivityMoves DEF ExecuteDelegation, Types
    <3>4. ExecuteModel(a) \/ SettleDelegation(a) => act'[a] \in {"finish", "idle"}
      BY ActivityMoves DEF ExecuteModel, SettleDelegation, Types
    <3> QED
      BY <1>7, <3>1, <3>2, <3>3, <3>4 DEF Activity
  <2>2. UNCHANGED leadVars /\ UNCHANGED childVars
    BY <2>1 DEF ReadOperations, ReadChildren
  <2>3. phase = "ask" /\ LiveChildren' = LiveChildren
    BY <1>6, <1>7, <2>2 DEF leadVars, childVars
  <2>4. CASE ReadOperations(a)
    <3>1. ~Unsettled
      BY <2>3 DEF Unsettled, Claims
    <3>2. Goto(a, "children")
      BY <2>4, <3>1 DEF ReadOperations
    <3> QED
      BY <1>7, <3>2, ActivityMoves DEF Types
  <2>5. CASE ReadChildren(a)
    <3>1. LiveChildren # {} => Goto(a, "idle")
      BY <2>5 DEF ReadChildren, Return
    <3>2. LiveChildren = {}
      BY <1>7, <3>1, ActivityMoves DEF Types
    <3> QED
      BY <2>3, <3>2
  <2> QED
    BY <2>1, <2>4, <2>5
<1>8. LeadWaitsForTeam'
  <2>1. SUFFICES ASSUME phase' = "model"
                 PROVE  LiveChildren' = {}
    BY DEF LeadWaitsForTeam
  <2>2. CASE TickAsk(a)
    <3>1. act[a] = "tick" /\ Running /\ phase = "ask" /\ UNCHANGED child
      BY <2>2 DEF TickAsk, childVars
    <3> QED
      BY <1>6, <3>1 DEF Alone
  <2>3. CASE ~TickAsk(a)
    <3>1. phase = "model"
      BY <2>1, <2>3 DEF Activity, ReadOperations, ReadChildren, TickNothing, TickClaim, TickAnswer,
              TickFinish, SettleLead, CancelPending, ExecuteModel, ExecuteDelegation,
              SettleDelegation, leadVars
    <3>2. UNCHANGED child
      BY <1>5, <3>1 DEF ExecuteDelegation
    <3> QED
      BY <1>6, <3>1, <3>2 DEF Alone, LeadWaitsForTeam
  <2> QED
    BY <2>2, <2>3
<1>9. \A b \in Activities : act'[b] = "tick" /\ phase' = "ask" /\ Running' => LiveChildren' = {}
  BY <1>3, <1>7
<1> QED
  BY <1>4, <1>8, <1>9 DEF Alone

\* A step that leaves the activities where they are.
LEMMA OthersLeaveAlone ==
    ASSUME Alone, timeouts' = timeouts, act' = act, current' = current, Evolves,
           \/ UNCHANGED <<lead, phase>>
           \/ lead' = "cancelling" /\ UNCHANGED phase
           \/ lead = "cancelling" /\ lead' \in {"cancelling", "cancelled"}
                                  /\ phase' \in {phase, "ask"}
    PROVE  Alone'
<1>1. LiveChildren = {} => LiveChildren' = {}
  BY DEF Evolves, Follows, LiveChildren
<1>2. Running' /\ phase' = "ask" => Running /\ phase = "ask"
  BY DEF Running
<1>3. phase' = "model" => phase = "model"
  OBVIOUS
<1> QED
  BY <1>1, <1>2, <1>3 DEF Alone, LeadWaitsForTeam

LEMMA AloneStep ==
    ASSUME Types, Claims, TeamInv, TeamInv', Alone, [Next]_vars
    PROVE  Alone'
<1>0. timeouts \in Nat
  BY DEF Types, HostTypes
<1>1. ASSUME NEW a \in Activities, Activity(a)
      PROVE  Alone'
  <2>1. timeouts' = timeouts
    BY <1>1 DEF Activity, ReadOperations, ReadChildren, TickNothing, TickAsk, TickClaim,
                TickAnswer, TickFinish, ExecuteModel, ExecuteDelegation, SettleDelegation
  <2>2. CASE timeouts = 0
    BY <1>1, <2>2, ActsAlone
  <2>3. CASE timeouts # 0
    BY <2>1, <2>3 DEF Alone
  <2> QED
    BY <2>2, <2>3
<1>2. ASSUME NEW a \in Activities, StartActivity(a)
      PROVE  Alone'
  <2>1. /\ current = Nobody /\ current' = a /\ Goto(a, "operations") /\ timeouts' = timeouts
        /\ UNCHANGED <<phase, child>>
    BY <1>2 DEF StartActivity, leadVars, childVars
  <2>2. CASE timeouts # 0
    BY <2>1, <2>2 DEF Alone
  <2>3. CASE timeouts = 0
    <3>1. \A b \in Activities : act[b] = "idle"
      BY <2>1, <2>3, NobodyAssumption DEF Alone
    <3>2. act'[a] = "operations" /\ \A b \in Activities : b # a => act'[b] = "idle"
      BY <2>1, <3>1, ActivityMoves DEF Types
    <3>3. LeadWaitsForTeam'
      BY <2>1, <2>3 DEF Alone, LeadWaitsForTeam, LiveChildren
    <3> QED
      BY <2>1, <3>2, <3>3 DEF Alone
  <2> QED
    BY <2>2, <2>3
<1>3. ASSUME NEW a \in Activities, TimeOut(a)
      PROVE  Alone'
  BY <1>0, <1>3 DEF TimeOut, Alone
<1>4. ASSUME NEW r \in Children \cup {Lead}, Cancel(r)
      PROVE  Alone'
  <2>1. Evolves
    BY <1>4, CancelStep
  <2>2. UNCHANGED <<phase, act, current, timeouts>> /\ lead' \in {lead, "cancelling"}
    BY <1>4 DEF Cancel, Mark, hostVars
  <2> QED
    BY <2>1, <2>2, OthersLeaveAlone
<1>5. ASSUME NEW r \in Children \cup {Lead}, FinishCancel(r)
      PROVE  Alone'
  <2>1. Evolves
    BY <1>5, FinishStep
  <2>2. UNCHANGED <<act, current, timeouts>> /\ (SettleLead \/ UNCHANGED <<lead, phase>>)
    BY <1>5 DEF FinishCancel, hostVars
  <2>3. \/ UNCHANGED <<lead, phase>>
        \/ lead = "cancelling" /\ lead' \in {"cancelling", "cancelled"} /\ phase' \in {phase, "ask"}
    BY <2>2 DEF SettleLead, CancelPending
  <2> QED
    BY <2>1, <2>2, <2>3, OthersLeaveAlone
<1>6. ASSUME NEW c \in Children, ChildWorkflow(c) \/ ChildDecided(c)
      PROVE  Alone'
  <2>1. Evolves
    BY <1>6, ChildStep
  <2>2. UNCHANGED leadVars /\ UNCHANGED hostVars
    BY <1>6 DEF ChildWorkflow, ChildAsk, ChildStart, ChildFails, ChildSettle, ChildFinish,
                ChildDecided
  <2> QED
    BY <2>1, <2>2, OthersLeaveAlone DEF leadVars, hostVars
<1>7. CASE CancelDies \/ UNCHANGED vars
  <2>1. UNCHANGED leadVars /\ UNCHANGED hostVars /\ UNCHANGED childVars
    BY <1>7 DEF CancelDies, vars
  <2>2. Evolves
    BY <2>1, TeamRests
  <2> QED
    BY <2>1, <2>2, OthersLeaveAlone DEF leadVars, hostVars
<1> QED
  BY <1>1, <1>2, <1>3, <1>4, <1>5, <1>6, <1>7 DEF Next

(***************************************************************************)
(* The theorems.                                                           *)
(***************************************************************************)
LEMMA DelegationInvariant == Spec => []DelegationInv
<1>1. Init => DelegationInv
  <2> SUFFICES ASSUME Init
               PROVE  DelegationInv
    OBVIOUS
  <2>1. Types
    <3>1. 0 \in 0..MaxBatch /\ 0 \in 0..MaxTurns /\ 0 \in 0..MaxTimeouts
          /\ 0 \in 0..MaxChildCalls
      BY DelegationBoundsAssumption
    <3>2. LeadTypes
      BY <3>1 DEF Init, LeadTypes
    <3>3. HostTypes
      BY <3>1 DEF Init, HostTypes
    <3>4. TeamTypes
      BY <3>1 DEF Init, TeamTypes, Statuses, Operations
    <3> QED
      BY <3>2, <3>3, <3>4 DEF Types
  <2>2. Claims
    BY DEF Init, Claims
  <2>3. Asked
    BY DEF Init, Asked
  <2>4. CancelCoversTree
    BY DEF Init, CancelCoversTree
  <2>5. Alone
    BY DEF Init, Alone, LeadWaitsForTeam
  <2> QED
    BY <2>1, <2>2, <2>3, <2>4, <2>5 DEF DelegationInv
<1>2. DelegationInv /\ [Next]_vars => DelegationInv'
  <2> SUFFICES ASSUME DelegationInv, [Next]_vars
               PROVE  DelegationInv'
    OBVIOUS
  <2>1. Types /\ Claims /\ TeamInv /\ CancelCoversTree /\ Alone
    BY DEF DelegationInv, Types, TeamInv
  <2>2. TeamInv'
    BY <2>1, TeamStep
  <2>3. LeadTypes' /\ Claims'
    BY <2>1, LeadStep DEF Types
  <2>4. HostTypes'
    BY <2>1, HostStep DEF Types
  <2>5. CancelCoversTree'
    BY <2>1, <2>2, <2>3, CancelCoversStep
  <2>6. Alone'
    BY <2>1, <2>2, AloneStep
  <2> QED
    BY <2>2, <2>3, <2>4, <2>5, <2>6 DEF DelegationInv, Types, TeamInv
<1> QED
  BY <1>1, <1>2, PTL DEF Spec

\* The stored runs, the activities and the workflow keep their types: no result
\* is counted twice, and no budget is exceeded.
THEOREM TeamTyping == Spec => []TypeOK
<1>1. DelegationInv => TypeOK
  BY DEF DelegationInv, Types, LeadTypes, TeamTypes, HostTypes, TypeOK, Operations
<1> QED
  BY <1>1, DelegationInvariant, PTL

\* From the moment the lead is marked no child goes on and none is created, and
\* a lead is Cancelled only when its whole tree ended.
THEOREM CancellationCoversTheTree == Spec => []CancelCoversTree
<1>1. DelegationInv => CancelCoversTree
  BY DEF DelegationInv
<1> QED
  BY <1>1, DelegationInvariant, PTL

\* A child started to work only after all its dependencies completed, whatever
\* became of them and of the child later.
THEOREM PrerequisitesFirst == Spec => []DependentsStartAfter
<1>1. DelegationInv => DependentsStartAfter
  BY DEF DelegationInv, Types, TeamTypes, Asked, Ready, DependentsStartAfter
<1> QED
  BY <1>1, DelegationInvariant, PTL

\* Unless Temporal gave up on a live executor, the lead does not ask its model to
\* continue while its team is still working.
THEOREM LeadWaits == Spec => []LeadWaitsUnlessOverlapped
<1>1. DelegationInv => LeadWaitsUnlessOverlapped
  BY DEF DelegationInv, Alone, LeadWaitsUnlessOverlapped
<1> QED
  BY <1>1, DelegationInvariant, PTL
=============================================================================
