------------------------------ MODULE MCInbox ------------------------------
(* Constants for checking Inbox. *)
EXTENDS Inbox, TLC

CONSTANTS e1, w1, w2, p1, p2, m1

AllEmail == [s \in 1..LastStep |-> "email"]
EmailThenTask == [s \in 1..LastStep |-> IF s = 1 THEN "email" ELSE "task"]

CapTwo == [q \in {"campaign", "org"} |-> 2]

(* Objections are suppressed, replies the classifier is unsure of stay.    *)
ObjectionRule == {[labels |-> {"objection"}, keyword |-> FALSE, sureOnly |-> TRUE,
                   suppress |-> TRUE, review |-> FALSE]}

ToFirst == [m \in {m1} |-> <<e1, 1>>]
=============================================================================
