---------------------------- MODULE EffectLedger ----------------------------
(***************************************************************************)
(* What hudson-core promises about the external effects it performs, apart *)
(* from how runs, drivers and recovery bring it about (data-model.md,      *)
(* "Commit intent before effects" and "Preserve uncertainty"):             *)
(*                                                                         *)
(*   - an effect is invoked at most once, and only after it was admitted;  *)
(*   - an admitted effect is confirmed only if it took place, refused only *)
(*     if it did not, and is uncertain otherwise;                          *)
(*   - an effect that was voided before its admission never takes place.   *)
(*                                                                         *)
(* The code has no such object: RunEffects shows that RunExecution         *)
(* implements it for the write operations of a run.                        *)
(***************************************************************************)
CONSTANT Effects

VARIABLES
    life,      \* what the ledger knows of an effect
    invoked,   \* the effects whose executor was called
    applied    \* the effects that took place

ledger == <<life, invoked, applied>>

Lives == {"free", "requested", "admitted", "uncertain",
          "confirmed", "refused", "void"}

LedgerTypeOK ==
    /\ life \in [Effects -> Lives]
    /\ invoked \subseteq Effects
    /\ applied \subseteq Effects

LedgerInit ==
    /\ life = [e \in Effects |-> "free"]
    /\ invoked = {}
    /\ applied = {}

Become(S, from, to) ==
    /\ \A e \in S : life[e] \in from
    /\ life' = [e \in Effects |-> IF e \in S THEN to ELSE life[e]]

\* A batch is requested at once, and what is left of it can be voided at once.
Request(S) == Become(S, {"free"}, "requested") /\ UNCHANGED <<invoked, applied>>
Void(S) == Become(S, {"requested"}, "void") /\ UNCHANGED <<invoked, applied>>
Admit(e) == Become({e}, {"requested"}, "admitted") /\ UNCHANGED <<invoked, applied>>

\* An executor may be fenced before it makes the call, and still make it.
Invoke(e) ==
    /\ e \notin invoked
    /\ life[e] \in {"admitted", "uncertain"}
    /\ invoked' = invoked \cup {e}
    /\ applied' \in {applied, applied \cup {e}}
    /\ UNCHANGED life

Confirm(e) ==
    /\ e \in applied
    /\ Become({e}, {"admitted", "uncertain"}, "confirmed")
    /\ UNCHANGED <<invoked, applied>>

Refuse(e) ==
    /\ e \notin applied
    /\ \/ e \in invoked /\ Become({e}, {"admitted"}, "refused")
       \/ Become({e}, {"requested"}, "refused")
    /\ UNCHANGED <<invoked, applied>>

Lose(e) == Become({e}, {"admitted"}, "uncertain") /\ UNCHANGED <<invoked, applied>>

LedgerNext ==
    \/ LET S == {e \in Effects : life'[e] # life[e]} IN Request(S) \/ Void(S)
    \/ \E e \in Effects : Admit(e) \/ Invoke(e) \/ Confirm(e) \/ Refuse(e) \/ Lose(e)

LedgerSpec == LedgerInit /\ [][LedgerNext]_ledger
=============================================================================
