SPECIFICATION Spec
CONSTANTS
    j1 = j1
    w1 = w1
    w2 = w2
    t1 = t1
    t2 = t2
    t3 = t3
    Jobs = {j1}
    Workers = {w1, w2}
    Tokens = {t1, t2, t3}
    NoToken = NoToken
    NoMsg = NoMsg
    NoJob = NoJob
    MaxAttempts = 2
    SettlesWithinTtl = TRUE
    Budget <- AdminBudget
SYMMETRY Symmetric
INVARIANTS
    CompletedHasResult
PROPERTIES
    CompletedNotReclaimed
CHECK_DEADLOCK FALSE
