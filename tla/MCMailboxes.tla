---------------------------- MODULE MCMailboxes -----------------------------
EXTENDS Mailboxes, TLC

MCDomainOf == [b \in Boxes |-> CHOOSE d \in Domains : TRUE]
MCFirstStage == LET first == CHOOSE b \in Boxes : TRUE
                IN  [b \in Boxes |-> IF b = first THEN 0 ELSE 4]
MCWarmupCaps == [s \in 0..3 |-> s + 1]

(* Sending without bounces, and bounces without sending.                     *)
Bounds == [reset |-> 1, edit |-> 1, day |-> 1, death |-> 1, placement |-> 1, add |-> 1]
MCBudgets == {Bounds @@ [mail |-> 2, bounce |-> 0, event |-> 2],
              [Bounds EXCEPT !.placement = 0] @@ [mail |-> 0, bounce |-> 3, event |-> 2]}
=============================================================================
