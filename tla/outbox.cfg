SPECIFICATION FairSpec
CONSTANTS
    d1 = d1
    d2 = d2
    N = 3
    Dispatchers = {d1, d2}
    Nobody = Nobody
    BatchSize = 2
    CleanupBatch = 2
    Poison = {1}
    MaxCrashes = 1
    MaxPublishErrors = 1
INVARIANTS
    IInv
    DeletedWasPublished
    DuplicatesOnlyByFailure
PROPERTIES
    ImplementsAtLeastOnce
    EveryEventIsSent
