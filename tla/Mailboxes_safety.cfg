SPECIFICATION Spec
CONSTANTS
  Boxes = {b1, b2}
  Domains = {d1}
  DomainOf <- MCDomainOf
  Senders = {s1}
  Placer = placer
  Seeds = {e1}
  Pollers = {p1}
  Resetter = resetter
  FirstStage <- MCFirstStage
  WarmupCaps <- MCWarmupCaps
  DailyLimits = {2}
  Quota = 2
  Threshold = 2
  Budgets <- MCBudgets
INVARIANT MailboxesInv
INVARIANT PauseHolds
PROPERTY CapHeld
CHECK_DEADLOCK FALSE
