SPECIFICATION Spec
CONSTANTS
  Endpoints = {e1}
  Deliveries = {d1}
  Events = {reply_received}
  Ping = ping
  Emitters = {t1}
  Workers = {w1, w2}
  MaxAttempts = 3
  BackoffBase = 1
  BackoffCap = 2
  Visibility = 2
  Faults <- AllFaults
  MaxFaults = 2
  MaxEdits = 1
INVARIANT WebhooksInv
PROPERTY ResolvedOnce
PROPERTY Settles
CHECK_DEADLOCK FALSE
