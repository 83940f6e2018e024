SPECIFICATION FairInboxSpec
CONSTANTS
    e1 = e1
    w1 = w1
    w2 = w2
    p1 = p1
    p2 = p2
    m1 = m1
    Enrollments = {e1}
    Workers = {w1}
    LastStep = 3
    Channel <- EmailThenTask
    MaxRetries = 0
    Faults = {"bad_copy", "death", "broker_loss"}
    MaxCrashes = 1
    MaxRedrives = 1
    MaxEvents = 1
    Cap <- CapTwo
    MaxDays = 0
    Requests = {p1}
    SkipOnExpire = {2}
    MaxClicks = 1
    Mails = {m1}
    ReplyTo <- ToFirst
    Rules <- ObjectionRule
    Labels = {"interested", "objection", "not_now", "ooo", "unsubscribe", "bounce_or_auto"}
INVARIANTS InboxInv TaskResolvedOnce
PROPERTIES FinishedStaysFinished ClaimsResolve ExpiringStepsMoveOn
CHECK_DEADLOCK FALSE
