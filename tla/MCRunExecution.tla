--------------------------- MODULE MCRunExecution ---------------------------
(***************************************************************************)
(* Values of the constants of RunExecution and RunEffects for TLC.         *)
(***************************************************************************)
EXTENDS RunEffects, TLC

OneCall == {1}
UpToTwoCalls == {1, 2}

ReadsAndWrites == {"read", "write"}
WritesOnly == {"write"}
AllTools == {"read", "write", "sandbox"}

Open == [actor |-> TRUE, approval |-> FALSE, approver |-> TRUE]
Guarded == [actor |-> TRUE, approval |-> TRUE, approver |-> TRUE]
NoApprover == [actor |-> TRUE, approval |-> TRUE, approver |-> FALSE]
Revoked == [actor |-> FALSE, approval |-> TRUE, approver |-> TRUE]
Withdrawn == [actor |-> FALSE, approval |-> FALSE, approver |-> FALSE]

OpenPolicy == {Open}
GuardedOrWithdrawn == {Guarded, Withdrawn}
Revocations == {Guarded, NoApprover, Revoked}
AnyPolicy == {Open, Guarded, Revoked}

DriverSymmetry == Permutations(Drivers)
DriverKeySymmetry == Permutations(Drivers) \cup Permutations(Keys)
=============================================================================
