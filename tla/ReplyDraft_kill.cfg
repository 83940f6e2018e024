SPECIFICATION Spec
CONSTANTS
  r1 = r1
  r2 = r2
  p1 = p1
  p2 = p2
  Replies = {r1, r2}
  Procs = {p1, p2}
  MaxRetries = 1
  Faults = {}
  MaxFaults = 1
  MaxClicks = 2
  MaxToggles = 1
PROPERTY KillSwitchIsFresh
CHECK_DEADLOCK FALSE
