----------------------------- MODULE MCSendPath -----------------------------
(* Constants for checking SendPath. *)
EXTENDS SendPath, TLC

CONSTANTS e1, e2, w1, w2

Symmetry == Permutations({e1, e2}) \cup Permutations({w1, w2})

AllEmail == [s \in 1..LastStep |-> "email"]
LastIsTask == [s \in 1..LastStep |-> IF s = LastStep THEN "task" ELSE "email"]

CapOne == [q \in {"campaign", "org"} |-> 1]
OrgCapOne == [q \in {"campaign", "org"} |-> IF q = "org" THEN 1 ELSE 2]
CapTwo == [q \in {"campaign", "org"} |-> 2]
=============================================================================
