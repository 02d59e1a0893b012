SPECIFICATION Spec
CONSTANTS
    Recoverable <- Families
    MaxPatterns = 2
    Logs <- TriageLogs
    Answers <- RuntimeAnswers
    Snapshots <- ReportSnapshots
    OutputAttempts = 2
    MaxDeliveries = 2
INVARIANTS
    EvidenceIsConserved
    StoredResultIsReused
    OnlyMergersAndCutsDefeatRepair
    DocumentIsFaithful
CHECK_DEADLOCK FALSE
