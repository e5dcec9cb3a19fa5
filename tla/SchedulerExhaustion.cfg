SPECIFICATION Spec
CONSTANTS
    w1 = w1
    w2 = w2
    Null = Null
    None = None
    MaxAttempt = 2
    Worker = {w1, w2}
    Job = {1}
    Owner <- MCSharedOwner
    Submission <- MCSubmissions
    RetryDelay <- MCRetryDelay
    BatchSize = 1
    RecoveryBatchSize = 1
    ClaimLease = 1
    Heartbeats = FALSE
    Horizon = 1
    MaxFaults = 1
INVARIANT
    ExhaustionIsReported
