CONSTANTS
    MaxAttempt = 3
    None = None
    w1 = w1
    w2 = w2
    Writers = {w1, w2}
    Histories <- MCHistories
    Optimistic = {TRUE, FALSE}
    Retries = 3
    Naive <- MCNaive
    MaxRaises = 1
    config <- MCConfig
    Clock = {4}
SPECIFICATION Spec
SYMMETRY MCSymmetry
INVARIANTS TypeOK StartTimeExact DuplicatesAreAbsorbed GapIsReported AckTimeoutIsJustified SuccessConverges ViewIsReplay WritersGetThrough
PROPERTIES SuccessIsAbsorbing
