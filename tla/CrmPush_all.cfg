SPECIFICATION Spec
CONSTANTS
  Connections = {c1}
  Leads = {l1}
  Activities = {a1, a2}
  Ticks = {tick}
  Buttons = {button}
  MaxTime = 2
  MaxFaults = 1
  MaxToggles = 1
INVARIANT CrmPushInv
PROPERTY EventuallyTried
CHECK_DEADLOCK FALSE
