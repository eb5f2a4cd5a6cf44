----------------------------- MODULE MCRunRecord -----------------------------
(***************************************************************************)
(* Values of the constants of RunRecord for TLC: a long run that is        *)
(* followed, and a short one of the same actor.                            *)
(***************************************************************************)
EXTENDS RunRecord, TLC

CONSTANTS long, short

LongAndShort == [r \in {long, short} |-> IF r = long THEN 4 ELSE 0]
MediumAndLarge == {2, 4}

\* Bounds of the model: at most two drivers or clients are at work at once; a
\* client follows while there are no memories and no second run; the long run has
\* one exchange at most while there are; and the second run comes after it.
UnderWay ==
    Cardinality({d \in Drivers : ~Doing(d, "idle")})
    + Cardinality({c \in {client} : c.pc \in {"status", "drain", "report"}})
Remembered == Started(short) \/ \E key \in Keys : Used(key)
OneConcernAtOnce ==
    /\ UnderWay <= 2
    /\ Remembered => At("off") /\ Len(run[long].told) <= 1
    /\ Started(short) => Terminal(long)

Symmetry == Permutations(Drivers) \cup Permutations(Keys)
=============================================================================
