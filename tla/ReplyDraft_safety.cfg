SPECIFICATION Spec
CONSTANTS
  r1 = r1
  r2 = r2
  p1 = p1
  p2 = p2
  Replies = {r1, r2}
  Procs = {p1, p2}
  MaxRetries = 1
  Faults <- AllFaults
  MaxFaults = 1
  MaxClicks = 2
  MaxToggles = 1
SYMMETRY Symmetry
INVARIANT TypeOK
INVARIANT OneMailPerDraft
INVARIANT OneAutoReply
INVARIANT DraftsOwned
INVARIANT SuppressionStops
PROPERTY ResolvedIsFinal
PROPERTY OutboxPromise
CHECK_DEADLOCK FALSE
