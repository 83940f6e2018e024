------------------------------- MODULE MCLeads --------------------------------
(* Instance of Leads for TLC: addresses and workers are interchangeable.   *)
EXTENDS Leads, TLC

Interchangeable == Permutations(Emails) \cup Permutations(Workers)
===============================================================================
