SPECIFICATION FairSpec
CONSTANTS
    w1 = w1
    w2 = w2
    Null = Null
    None = None
    MaxAttempt = 2
    Worker = {w1}
    Job = {1, 2}
    Owner <- MCSharedOwner
    Submission <- MCOneSubmission
    RetryDelay <- MCRetryDelay
    BatchSize = 2
    RecoveryBatchSize = 1
    ClaimLease = 1
    Heartbeats = FALSE
    Horizon = 1
    MaxFaults = 2
PROPERTY
    EveryJobFinishes
