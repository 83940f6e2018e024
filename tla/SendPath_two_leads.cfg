CONSTANTS
    e1 = e1
    e2 = e2
    w1 = w1
    w2 = w2
    Enrollments = {e1, e2}
    Workers = {w1, w2}
    LastStep = 1
    Channel <- AllEmail
    MaxRetries = 0
    Faults <- AllFaults
    MaxCrashes = 1
    MaxRedrives = 0
    MaxEvents = 1
    Cap <- OrgCapOne
    MaxDays = 1
SPECIFICATION Spec
INVARIANTS CapLedger SuppressionStops
SYMMETRY Symmetry
CHECK_DEADLOCK FALSE
