SPECIFICATION Spec
CONSTANTS
    triage = triage
    daily = daily
    e1 = e1
    e2 = e2
    e3 = e3
    i1 = i1
    i2 = i2
    l1 = l1
    l2 = l2
    q1 = q1
    q2 = q2
    Skills = {triage, daily}
    Dependency <- Depends
    NoSkill = NoSkill
    Editions = {e1, e2, e3}
    Valid = {e1, e2}
    FirstEdition = e1
    Histories <- FreshOrDrafted
    Incidents = {i1, i2}
    Logs = {l1, l2}
    Requests = {q1, q2}
    LogTriage = triage
    DailyReport = daily
    MaxRequests = 3
    MaxEvents = 1
SYMMETRY Symmetric
INVARIANTS
    IInv
    OneCurrentRun
    ResultMatchesInput
    StampedJobsStayRunnable
    OnlyOverlapLosesActive
PROPERTIES
    OnlyLateWorkersChangeResults
CHECK_DEADLOCK FALSE
