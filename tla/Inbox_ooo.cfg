SPECIFICATION InboxSpec
CONSTANTS
    e1 = e1
    w1 = w1
    w2 = w2
    p1 = p1
    p2 = p2
    m1 = m1
    Enrollments = {e1}
    Workers = {w1}
    LastStep = 2
    Channel <- EmailThenTask
    MaxRetries = 0
    Faults = {}
    MaxCrashes = 0
    MaxRedrives = 0
    MaxEvents = 0
    Cap <- CapTwo
    MaxDays = 0
    Requests = {}
    SkipOnExpire = {}
    MaxClicks = 0
    Mails = {m1}
    ReplyTo <- ToFirst
    Rules <- ObjectionRule
    Labels = {"ooo"}
INVARIANTS OutOfOfficeResumes
CHECK_DEADLOCK FALSE
