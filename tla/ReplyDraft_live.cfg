SPECIFICATION FairSpec
CONSTANTS
  r1 = r1
  r2 = r2
  p1 = p1
  p2 = p2
  Replies = {r1, r2}
  Procs = {p1, p2}
  MaxRetries = 1
  Faults <- AllFaults
  MaxFaults = 1
  MaxClicks = 1
  MaxToggles = 0
PROPERTY DraftsSettle
CHECK_DEADLOCK FALSE
