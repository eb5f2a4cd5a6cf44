----------------------------- MODULE RunEffects -----------------------------
(***************************************************************************)
(* RunExecution implements EffectLedger: the refinement mapping of the     *)
(* write operations of a run.                                              *)
(***************************************************************************)
EXTENDS RunExecution

Writes == {o \in OpId : ops[o].tool \in {"write", "sandbox"}}

LifeOf(o) ==
    IF o \notin Writes THEN "free"
    ELSE CASE ops[o].status \in Dispatchable -> "requested"
           [] ops[o].status = "Running" -> "admitted"
           [] ops[o].status = "Unknown" -> "uncertain"
           [] ops[o].status = "Succeeded" -> "confirmed"
           [] ops[o].status = "Failed" -> "refused"
           [] OTHER -> "void"

Ledger == INSTANCE EffectLedger WITH
    Effects <- OpId,
    life <- [o \in OpId |-> LifeOf(o)],
    invoked <- {o \in Writes : dest[o].calls > 0},
    applied <- {o \in Writes : dest[o].applied}

\* Every step of a run is a step of the ledger for its writes, or changes
\* nothing of it: intent before effect, one invocation, and no outcome that
\* the destination would deny.
WritesFollowLedger == Ledger!LedgerSpec
=============================================================================
