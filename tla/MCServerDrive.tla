--------------------------- MODULE MCServerDrive ---------------------------
(***************************************************************************)
(* Values of the constants of ServerDrive for TLC: a lead with two         *)
(* children, or with one child and a second root.                          *)
(***************************************************************************)
EXTENDS ServerDrive

CONSTANTS lead, first, second

\* The two children are independent of each other.
TeamParent == [r \in Runs |-> IF r = lead THEN NoRun ELSE lead]
Independent == [r \in Runs |-> {}]

\* The second child depends on the first.
Chained == [r \in Runs |-> IF r = second THEN {first} ELSE {}]

\* The first is a child of the lead, the second is a root of its own.
MixedParent == [r \in Runs |-> IF r = first THEN lead ELSE NoRun]
=============================================================================
