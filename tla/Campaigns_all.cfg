SPECIFICATION Spec
CONSTANTS
  Campaigns = {c1, c2}
  Leads = {l1}
  Planned = 1
  Editors = {ed1, ed2}
  Activations = {a1}
  Sweeps = {w1, w2}
  Links = {k1}
  DryRuns = {d1}
  Sample = 1
  Nobody = nobody
  Unseen = unseen
  MaxEvents = 4
SYMMETRY Interchangeable
INVARIANTS CampaignsInv SequenceFrozen EnrolledOnMerit
CHECK_DEADLOCK FALSE
