SPECIFICATION Spec
CONSTANTS
    w1 = w1
    w2 = w2
    Null = Null
    None = None
    MaxAttempt = 2
    Worker = {w1, w2}
    Job = {1, 2}
    Owner <- MCSharedOwner
    Submission <- MCSubmissions
    RetryDelay <- MCRetryDelay
    BatchSize = 2
    RecoveryBatchSize = 1
    ClaimLease = 1
    Heartbeats = TRUE
    Horizon = 1
    MaxFaults = 1
SYMMETRY MCSymmetry
INVARIANTS
    TypeOK
    OneLiveHolder
    AttemptsWithinBudget
    StatusMatchesAttempts
    EvidenceIsExact
    AcceptedIsStored
    ViewFollowsRow
PROPERTY
    TerminalIsFinal
    ImplementsContract
