SPECIFICATION Spec
CONSTANTS
    s1 = s1
    s2 = s2
    i1 = i1
    i2 = i2
    q1 = q1
    q2 = q2
    Shifts = {s1, s2}
    NoShift = NoShift
    Incidents = {i1, i2}
    Evidenced = {i1}
    Requests = {q1, q2}
    MaxRequests = 3
    MaxAttempts = 3
    MaxWork = 4
    MaxLate = 1
    MaxReadErrors = 1
SYMMETRY Symmetric
INVARIANTS
    IInv
    VersionsAreGapless
    DisplayIdsDoNotCollide
    FrozenIsComplete
    PinnedFromOnePlan
CHECK_DEADLOCK FALSE
