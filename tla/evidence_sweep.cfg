SPECIFICATION FairSpec
CONSTANTS
    u1 = u1
    u2 = u2
    r1 = r1
    r2 = r2
    s1 = s1
    Uploads = {u1, u2}
    Existing = {u1, u2}
    Requests = {r1, r2}
    Sweepers = {s1}
    NoUpload = NoUpload
    Kinds = {"ocr"}
    SweepLimit = 2
    MaxPuts = 1
    MaxFaults = 1
PROPERTIES
    TombstonesArePurged
