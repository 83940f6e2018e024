----------------------------- MODULE MCCampaigns ------------------------------
(* Instance of Campaigns for TLC: editors and sweeps are interchangeable,  *)
(* and so are campaigns.                                                   *)
EXTENDS Campaigns, TLC

Interchangeable == Permutations(Campaigns) \cup Permutations(Editors) \cup Permutations(Sweeps)
                   \cup Permutations(Activations)
===============================================================================
