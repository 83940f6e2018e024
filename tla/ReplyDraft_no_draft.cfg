SPECIFICATION FairSpec
CONSTANTS
  r1 = r1
  r2 = r2
  p1 = p1
  p2 = p2
  Replies = {r1}
  Procs = {p1, p2}
  MaxRetries = 1
  Faults = {}
  MaxFaults = 1
  MaxClicks = 0
  MaxToggles = 0
PROPERTY ReplyGetsDraft
CHECK_DEADLOCK FALSE
