CONSTANTS
    e1 = e1
    e2 = e2
    w1 = w1
    w2 = w2
    Enrollments = {e1}
    Workers = {w1}
    LastStep = 2
    Channel <- AllEmail
    MaxRetries = 1
    Faults = {}
    MaxCrashes = 0
    MaxRedrives = 0
    MaxEvents = 0
    Cap <- CapTwo
    MaxDays = 0
SPECIFICATION FairSpec
PROPERTIES DispatchIsAnswered
CHECK_DEADLOCK FALSE
