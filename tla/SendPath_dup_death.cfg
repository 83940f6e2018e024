CONSTANTS
    e1 = e1
    e2 = e2
    w1 = w1
    w2 = w2
    Enrollments = {e1}
    Workers = {w1}
    LastStep = 1
    Channel <- AllEmail
    MaxRetries = 1
    Faults = {"death"}
    MaxCrashes = 1
    MaxRedrives = 0
    MaxEvents = 1
    Cap <- CapTwo
    MaxDays = 0
SPECIFICATION Spec
INVARIANTS NoDuplicateEmail
CHECK_DEADLOCK FALSE
