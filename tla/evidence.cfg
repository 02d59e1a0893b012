SPECIFICATION FairSpec
CONSTANTS
    u1 = u1
    u2 = u2
    r1 = r1
    r2 = r2
    s1 = s1
    Uploads = {u1}
    Existing = {}
    Requests = {r1, r2}
    Sweepers = {s1}
    NoUpload = NoUpload
    Kinds = {"ocr", "analysis", "snapshot"}
    SweepLimit = 2
    MaxPuts = 2
    MaxFaults = 1
INVARIANTS
    IInv
    ActiveHasBytes
    PurgedIsGone
    ProtectedIsKept
PROPERTIES
    AbandonedIsSettled
