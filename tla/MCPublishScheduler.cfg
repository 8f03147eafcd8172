SPECIFICATION FairSpec
CONSTANTS
    Requests <- MCRequests
    Records <- MCRecords
    QueueRequests = 2
    QueueRecords = 3
    BatchRequests = 2
    BatchRecords = 2
    None = None
INVARIANTS
    AdmissionMatchesWork
    FifoSubmission
    AnswersAreTrue
PROPERTIES
    NobodyWaitsForEver
CHECK_DEADLOCK FALSE
