CONSTANTS
    e1 = e1
    e2 = e2
    w1 = w1
    w2 = w2
    Enrollments = {e1}
    Workers = {w1, w2}
    LastStep = 3
    Channel <- LastIsTask
    MaxRetries = 1
    Faults <- AllFaults
    MaxCrashes = 1
    MaxRedrives = 1
    MaxEvents = 2
    Cap <- OrgCapOne
    MaxDays = 1
SPECIFICATION Spec
INVARIANTS TypeOK ClaimsOwned OneDeliveryPerClaim CapLedger SuppressionStops ScheduleKept StepsInOrder OneTaskAtATime
PROPERTIES TerminalIsFinal OutboxPromise
CHECK_DEADLOCK FALSE
